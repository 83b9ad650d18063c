----------------------------- MODULE Services_proofs -----------------------------
(***************************************************************************)
(* Proofs about the smaller services, which do not share any state: the    *)
(* command controller; the cloud words of both ports; the release notices; *)
(* the configuration files; the chat log; the chat functions; the word     *)
(* filter; the connections to Redis.                                       *)
(***************************************************************************)
EXTENDS WordFilter, CommandController, FilterRefresh, CloudWords, ReleaseNotices, Configuration,
        ChatLog, ChatFunctions, RedisConnection, FiniteSetTheorems, SequenceTheorems,
        WellFoundedInduction, TLAPS

\* A set of numbers has a least one: induction over the numbers, as a fact of sets.
LEMMA Least ==
    ASSUME NEW T \in SUBSET Nat, T # {}
    PROVE  \E x \in T : \A y \in T : x <= y
<1> DEFINE R == {ss \in Nat \X Nat : ss[1] < ss[2]}
<1>1. IsWellFoundedOn(R, Nat)
  BY NatLessThanWellFounded DEF OpToRel
<1>2. \A x, y \in Nat : y < x => <<y, x>> \in R
  OBVIOUS
<1>3. \E x \in T : \A y \in T : ~(<<y, x>> \in R)
  <2> HIDE DEF R
  <2> QED BY <1>1, WFMin
<1> HIDE DEF R
<1>4. PICK x \in T : \A y \in T : ~(<<y, x>> \in R)
  BY <1>3
<1>5. \A y \in T : x <= y
  <2> SUFFICES ASSUME NEW y \in T PROVE x <= y
    OBVIOUS
  <2>1. x \in Nat /\ y \in Nat
    OBVIOUS
  <2>2. ~(y < x)
    BY <1>2, <1>4, <2>1
  <2> QED BY <2>1, <2>2
<1> QED BY <1>5

-----------------------------------------------------------------------------
(* CommandController: cooldowns, for any rules, reloads, players and lines *)

\* What the windows are measured from is what the player was charged for.
ChargedAsUsed == charged = lastRun

CommandInv == CommandTypeOK /\ ChargedAsUsed /\ CommandsSpaced

\* A verdict is one of the four a rule gives.
LEMMA Verdicts ==
    ASSUME NEW p, NEW line
    PROVE  Verdict(p, line) \in {"allow", "deny", "charge", "wait"}
  BY DEF Verdict

\* Initially nothing was used and nothing said.
LEMMA CommandInitHolds == CommandInit => CommandInv
<1> SUFFICES ASSUME CommandInit PROVE CommandInv
  OBVIOUS
<1>1. instant \in 0..MaxInstant /\ controller \in DOMAIN Controllers
  BY CommandAssumption DEF CommandInit
<1>2. lastRun \in [Runners \X Sources -> 0..MaxInstant \cup {Unused}] /\ charged = lastRun
  BY DEF CommandInit
<1>3. verdict.kind = "allow"
  BY DEF CommandInit, NoVerdict
<1> QED BY <1>1, <1>2, <1>3 DEF CommandInv, CommandTypeOK, ChargedAsUsed, CommandsSpaced, CommandInit

\* A step that says nothing of a cooldown and leaves the uses alone.
LEMMA AsideKeepsUses ==
    ASSUME CommandInv, UNCHANGED <<operators, lastRun, charged>>,
           instant' \in 0..MaxInstant, controller' \in DOMAIN Controllers,
           \/ verdict' = verdict /\ instant' = instant
           \/ verdict'.kind \in {"allow", "deny", "shown", "disabled"}
    PROVE  CommandInv'
  BY DEF CommandInv, CommandTypeOK, ChargedAsUsed, CommandsSpaced

\* The handler charges a use only when the window since the last one is over, and
\* makes the player wait only while it is not.
LEMMA PreprocessKeeps ==
    ASSUME CommandInv, NEW p \in Runners, NEW line \in CommandLines, Preprocess(p, line)
    PROVE  CommandInv'
<1> DEFINE kind == Verdict(p, line)
           rule == Section.rules[FirstMatch(line)]
           source == rule.source
           window == rule.window
<1>1. kind \in {"allow", "deny", "charge", "wait"}
  BY Verdicts
<1>2. UNCHANGED <<instant, controller, operators>>
  BY DEF Preprocess
<1>3. kind = "charge" => Ready(p, rule)
  BY DEF Verdict
<1>4. kind = "wait" => ~Ready(p, rule)
  BY DEF Verdict
<1>5. /\ lastRun' = IF kind = "charge" THEN [lastRun EXCEPT ![<<p, source>>] = instant] ELSE lastRun
      /\ charged' = IF kind = "charge" THEN [charged EXCEPT ![<<p, source>>] = instant] ELSE charged
  BY DEF Preprocess
<1>6. kind \notin {"wait", "charge"} => verdict' = [NoVerdict EXCEPT !.kind = kind]
  BY DEF Preprocess
<1>7. kind \in {"wait", "charge"} =>
        verdict' = [kind |-> kind, window |-> window,
                    since |-> charged[<<p, source>>]]
  BY DEF Preprocess
<1>8. kind = "charge" => lastRun[<<p, source>>] = Unused \/ instant - lastRun[<<p, source>>] >= window
  BY <1>3 DEF Ready
<1>9. kind = "wait" => lastRun[<<p, source>>] # Unused /\ ~(instant - lastRun[<<p, source>>] >= window)
  BY <1>4 DEF Ready
<1> HIDE DEF kind, source, window
<1>10. lastRun' \in [Runners \X Sources -> 0..MaxInstant \cup {Unused}] /\ charged' = lastRun'
  BY <1>5 DEF CommandInv, CommandTypeOK, ChargedAsUsed
<1>11. verdict'.kind = kind
  BY <1>1, <1>6, <1>7 DEF NoVerdict
<1>12. CommandTypeOK' /\ ChargedAsUsed'
  BY <1>1, <1>2, <1>10, <1>11 DEF CommandInv, CommandTypeOK, ChargedAsUsed
<1>13. CommandsSpaced'
  <2>1. charged[<<p, source>>] = lastRun[<<p, source>>]
    BY DEF CommandInv, ChargedAsUsed
  <2>2. CASE kind = "wait"
    BY <1>2, <1>7, <1>9, <2>1, <2>2 DEF CommandsSpaced
  <2>3. CASE kind = "charge"
    BY <1>2, <1>7, <1>8, <2>1, <2>3 DEF CommandsSpaced
  <2>4. CASE kind \notin {"wait", "charge"}
    BY <1>11, <2>4 DEF CommandsSpaced
  <2> QED BY <2>2, <2>3, <2>4
<1> QED BY <1>12, <1>13 DEF CommandInv

\* Every step keeps the invariant.
LEMMA CommandStepHolds == CommandInv /\ [CommandNext]_commandVars => CommandInv'
<1> SUFFICES ASSUME CommandInv, [CommandNext]_commandVars PROVE CommandInv'
  OBVIOUS
<1>1. instant \in 0..MaxInstant /\ controller \in DOMAIN Controllers
  BY DEF CommandInv, CommandTypeOK
<1>2. ASSUME NEW p \in Runners, NEW line \in CommandLines, Preprocess(p, line) PROVE CommandInv'
  BY <1>2, PreprocessKeeps
<1>3. ASSUME NEW line \in CommandLines, ControlledCommand(line) PROVE CommandInv'
  <2>1. verdict'.kind \in {"shown", "disabled"}
    BY <1>3 DEF ControlledCommand, NoVerdict
  <2> QED BY <1>1, <1>3, <2>1, AsideKeepsUses DEF ControlledCommand
<1>4. CASE ReloadRules
  <2>1. controller' \in DOMAIN Controllers
    BY <1>1, <1>4, CommandAssumption DEF ReloadRules
  <2>2. verdict'.kind = "allow"
    BY <1>4 DEF ReloadRules, NoVerdict
  <2> QED BY <1>1, <1>4, <2>1, <2>2, AsideKeepsUses DEF ReloadRules
<1>5. CASE InstantPasses
  <2>1. instant' \in 0..MaxInstant
    BY <1>1, <1>5, CommandAssumption DEF InstantPasses
  <2>2. verdict'.kind = "allow"
    BY <1>5 DEF InstantPasses, NoVerdict
  <2> QED BY <1>1, <1>5, <2>1, <2>2, AsideKeepsUses DEF InstantPasses
<1>6. CASE UNCHANGED commandVars
  BY <1>1, <1>6, AsideKeepsUses DEF commandVars
<1> QED BY <1>2, <1>3, <1>4, <1>5, <1>6 DEF CommandNext

\* The invariant holds of every state.
LEMMA CommandInvariant == CommandSpec => []CommandInv
  BY CommandInitHolds, CommandStepHolds, PTL DEF CommandSpec

\* The clock, the section and the uses recorded keep their types.
THEOREM CommandTypesKept == CommandSpec => []CommandTypeOK
<1>1. CommandInv => CommandTypeOK
  BY DEF CommandInv
<1> QED BY <1>1, CommandInvariant, PTL

\* A rejected call does not extend the window, an accepted one does, and after a
\* reload it is the new window that counts, for rules of any kind and order.
THEOREM CommandsAreSpaced == CommandSpec => []CommandsSpaced
<1>1. CommandInv => CommandsSpaced
  BY DEF CommandInv
<1> QED BY <1>1, CommandInvariant, PTL


-----------------------------------------------------------------------------
(* FilterRefresh: one reading of the settings *)

AnyWord == UNION {Allowed(s) : s \in DOMAIN Profiles}

\* What a thread has collected is what its settings allow, read when top was in force
\* or before.
Faithful(r, top) ==
    /\ r \in [of : Nat, todo : SUBSET Addresses, collected : SUBSET AnyWord]
    /\ r.of \in 1..top
    /\ r.todo \subseteq Profiles[r.of].urls
    /\ Profiles[r.of].local \subseteq r.collected /\ r.collected \subseteq Allowed(r.of)

Collecting ==
    /\ settings \in DOMAIN Profiles /\ cached \subseteq Addresses
    /\ worker = [w \in Workers |-> worker[w]]
    /\ \A w \in Workers : worker[w] # Idle => Faithful(worker[w], settings)

RefreshInv == Collecting /\ OneReading

\* OneReading, with the sets named.
LEMMA OneReadingNamed ==
    /\ OneReading <=> \E s \in 1..settings : Profiles[s].local \subseteq words /\ words \subseteq Allowed(s)
    /\ OneReading' <=>
         \E s \in 1..settings' : Profiles[s].local \subseteq words' /\ words' \subseteq Allowed(s)
  BY DEF OneReading

\* The settings are numbered from 1.
LEMMA SettingsNumbered ==
    ASSUME NEW n \in DOMAIN Profiles
    PROVE  n \in Nat /\ n \in 1..n /\ Profiles[n].urls \subseteq Addresses /\ Allowed(n) \subseteq AnyWord
<1>1. DOMAIN Profiles = 1..Len(Profiles) /\ Len(Profiles) \in Nat \ {0}
  BY RefreshAssumption
<1>2. n \in Nat /\ n \in 1..n
  BY <1>1
<1>3. Profiles[n].urls \subseteq Addresses
  BY RefreshAssumption DEF Addresses
<1> QED BY <1>2, <1>3 DEF AnyWord

\* Initially the words are the local ones of the first settings.
LEMMA RefreshInitHolds == RefreshInit => RefreshInv
<1> SUFFICES ASSUME RefreshInit PROVE RefreshInv
  OBVIOUS
<1>1. Collecting
  BY RefreshAssumption DEF RefreshInit, Collecting
<1>2. 1 \in 1..settings /\ words = Profiles[1].local
  BY DEF RefreshInit
<1>3. OneReading
  BY <1>2, OneReadingNamed DEF Allowed
<1> QED BY <1>1, <1>3 DEF RefreshInv

\* A thread starts with the settings of the moment.
LEMMA StartCollects ==
    ASSUME Collecting, NEW w \in Workers, settings' \in DOMAIN Profiles, settings <= settings',
           cached' = cached, Started(w, settings')
    PROVE  Collecting'
<1> DEFINE fresh == [of |-> settings', todo |-> Profiles[settings'].urls,
                     collected |-> Profiles[settings'].local]
<1>1. settings \in Nat /\ settings' \in Nat /\ \A s \in 1..settings : s \in 1..settings'
  BY SettingsNumbered DEF Collecting
<1>2. worker' = worker \/ worker' = [worker EXCEPT ![w] = fresh]
  BY DEF Started
<1>3. Faithful(fresh, settings')
  <2>1. /\ settings' \in 1..settings' /\ Profiles[settings'].urls \subseteq Addresses
        /\ Allowed(settings') \subseteq AnyWord
    BY SettingsNumbered
  <2>2. Profiles[settings'].local \subseteq Allowed(settings')
    BY DEF Allowed
  <2> QED BY <1>1, <2>1, <2>2 DEF Faithful
<1> HIDE DEF fresh
<1>4. /\ worker' = [v \in Workers |-> worker'[v]]
      /\ \A v \in Workers : worker'[v] = worker[v] \/ worker'[v] = fresh
  BY <1>2 DEF Collecting
<1>5. ASSUME NEW v \in Workers, worker'[v] # Idle PROVE Faithful(worker'[v], settings')
  <2>1. CASE worker'[v] = worker[v]
    BY <1>1, <1>5, <2>1 DEF Collecting, Faithful
  <2>2. CASE worker'[v] = fresh
    BY <1>3, <2>2
  <2> QED BY <1>4, <2>1, <2>2
<1> QED BY <1>4, <1>5 DEF Collecting

\* Both fields of what a thread holds replaced.
LEMMA NewCollection ==
    ASSUME NEW r \in [of : Nat, todo : SUBSET Addresses, collected : SUBSET AnyWord], NEW t, NEW c
    PROVE  [[r EXCEPT !.todo = t] EXCEPT !.collected = c] = [of |-> r.of, todo |-> t, collected |-> c]
<1> DEFINE one == [r EXCEPT !.todo = t]
<1>1. one = [of |-> r.of, todo |-> t, collected |-> r.collected]
  OBVIOUS
<1> HIDE DEF one
<1>2. [one EXCEPT !.collected = c] = [of |-> r.of, todo |-> t, collected |-> c]
  BY <1>1
<1> QED BY <1>2 DEF one

\* A fetch adds words of a url of the thread's settings, without those they ignore.
LEMMA FetchCollects ==
    ASSUME Collecting, NEW w \in Workers, NEW url \in Addresses, NEW answers \in BOOLEAN,
           FetchUrl(w, url, answers)
    PROVE  Collecting'
<1> DEFINE r == worker[w]
           kept == IF answers \/ url \in cached
                    THEN r.collected \cup (Databases[url] \ Profiles[r.of].ignored)
                    ELSE r.collected
           next == [of |-> r.of, todo |-> r.todo \ {url}, collected |-> kept]
<1>1. /\ Faithful(r, settings) /\ url \in r.todo /\ settings' = settings
      /\ cached' \subseteq Addresses
  BY DEF FetchUrl, Collecting, Running
<1>2. r \in [of : Nat, todo : SUBSET Addresses, collected : SUBSET AnyWord]
  BY <1>1 DEF Faithful
<1>3. r.collected \subseteq kept /\ kept \subseteq Allowed(r.of)
  <2>1. url \in Profiles[r.of].urls /\ r.collected \subseteq Allowed(r.of)
    BY <1>1 DEF Faithful
  <2> DEFINE n == r.of
  <2>2. Databases[url] \ Profiles[n].ignored \subseteq Allowed(n)
    <3>1. url \in Profiles[n].urls
      BY <2>1
    <3> HIDE DEF n
    <3>2. Databases[url] \subseteq Served(n)
      BY <3>1 DEF Served
    <3> QED BY <3>2 DEF Allowed
  <2> QED BY <2>1, <2>2
<1>4. Allowed(r.of) \subseteq AnyWord
  <2>1. DOMAIN Profiles = 1..Len(Profiles) /\ settings \in 1..Len(Profiles)
    BY RefreshAssumption DEF Collecting
  <2>2. r.of \in DOMAIN Profiles
    BY <1>1, <2>1, RefreshAssumption DEF Faithful
  <2> QED BY <2>2, SettingsNumbered
<1>5. worker' = [worker EXCEPT ![w] = next]
  <2>1. worker' = [worker EXCEPT ![w] = [[r EXCEPT !.todo = r.todo \ {url}] EXCEPT !.collected = kept]]
    BY DEF FetchUrl, Collecting
  <2> HIDE DEF r, kept
  <2>2. [[r EXCEPT !.todo = r.todo \ {url}] EXCEPT !.collected = kept] = next
    BY <1>2, NewCollection
  <2> QED BY <2>1, <2>2
<1>6. Faithful(next, settings)
  <2> HIDE DEF r, kept
  <2> QED BY <1>1, <1>2, <1>3, <1>4 DEF Faithful
<1> HIDE DEF next
<1>7. /\ worker' = [v \in Workers |-> worker'[v]] /\ worker'[w] = next
      /\ \A v \in Workers : v # w => worker'[v] = worker[v]
  BY <1>5 DEF Collecting
<1>8. ASSUME NEW v \in Workers, worker'[v] # Idle PROVE Faithful(worker'[v], settings')
  BY <1>1, <1>6, <1>7, <1>8 DEF Collecting
<1> QED BY <1>1, <1>7, <1>8 DEF Collecting

\* Every step of every thread keeps the invariant.
LEMMA RefreshStepHolds == RefreshInv /\ [RefreshNext]_refreshVars => RefreshInv'
<1> SUFFICES ASSUME RefreshInv, [RefreshNext]_refreshVars PROVE RefreshInv'
  OBVIOUS
<1>0. Collecting /\ OneReading
  BY DEF RefreshInv
<1>1. ASSUME NEW w \in Workers, ReloadSettings(w) PROVE RefreshInv'
  <2>1. settings' = settings + 1 /\ settings' \in DOMAIN Profiles /\ settings <= settings'
        /\ settings' \in 1..settings'
    BY <1>0, <1>1, SettingsNumbered, RefreshAssumption DEF ReloadSettings, Collecting
  <2>2. Collecting'
    BY <1>0, <1>1, <2>1, StartCollects DEF ReloadSettings
  <2>3. words' = Profiles[settings'].local
    BY <1>1 DEF ReloadSettings
  <2>4. OneReading'
    BY <2>1, <2>3, OneReadingNamed DEF Allowed
  <2> QED BY <2>2, <2>4 DEF RefreshInv
<1>2. ASSUME NEW w \in Workers, HourlyTick(w) PROVE RefreshInv'
  <2>1. settings' = settings /\ words' = words /\ cached' = cached /\ Started(w, settings')
    BY <1>2 DEF HourlyTick
  <2>2. settings' \in DOMAIN Profiles /\ settings <= settings'
    BY <1>0, <2>1, SettingsNumbered DEF Collecting
  <2> QED BY <1>0, <2>1, <2>2, StartCollects, OneReadingNamed DEF RefreshInv
<1>3. ASSUME NEW w \in Workers, EndRefresh(w) PROVE RefreshInv'
  <2>1. /\ Faithful(worker[w], settings) /\ words' = worker[w].collected
        /\ UNCHANGED <<settings, cached>> /\ worker' = [worker EXCEPT ![w] = Idle]
    BY <1>0, <1>3 DEF EndRefresh, Collecting, Running
  <2>2. OneReading'
    BY <2>1, OneReadingNamed DEF Faithful
  <2>3. /\ worker' = [v \in Workers |-> worker'[v]] /\ worker'[w] = Idle
        /\ \A v \in Workers : v # w => worker'[v] = worker[v]
    BY <1>0, <2>1 DEF Collecting
  <2>4. Collecting'
    BY <1>0, <2>1, <2>3 DEF Collecting
  <2> QED BY <2>2, <2>4 DEF RefreshInv
<1>4. ASSUME NEW w \in Workers, NEW url \in Addresses, NEW answers \in BOOLEAN,
             FetchUrl(w, url, answers)
      PROVE  RefreshInv'
  BY <1>0, <1>4, FetchCollects, OneReadingNamed DEF RefreshInv, FetchUrl
<1>5. CASE UNCHANGED refreshVars
  BY <1>0, <1>5, OneReadingNamed DEF refreshVars, RefreshInv, Collecting
<1> QED BY <1>1, <1>2, <1>3, <1>4, <1>5 DEF RefreshNext, FetchSome

\* However many refreshes overlap, and in whatever order they end, the words in force
\* come from one reading of the settings.
THEOREM OneReadingHolds == RefreshSpec => []OneReading
<1>1. RefreshInv => OneReading
  BY DEF RefreshInv
<1> QED BY <1>1, RefreshInitHolds, RefreshStepHolds, PTL DEF RefreshSpec

\* The threads work on settings that were loaded, and on their urls.
THEOREM RefreshTypesKept == RefreshSpec => []RefreshTypeOK
<1>1. RefreshInv => RefreshTypeOK
  BY DEF RefreshInv, Collecting, RefreshTypeOK, Faithful, Running
<1> QED BY <1>1, RefreshInitHolds, RefreshStepHolds, PTL DEF RefreshSpec

-----------------------------------------------------------------------------
(* CloudWords: what is recorded is in force, and in the cache *)

CloudTables == DOMAIN lastUpdated = Urls /\ DOMAIN edition = Urls /\ DOMAIN cache = Urls
CloudInv == CloudTables /\ CloudTypeOK /\ RecordedInForce /\ CacheRevives

\* EditionsApart are told from no edition, and from a torn file.
LEMMA EditionsApart ==
    ASSUME NEW u \in Urls PROVE 1 \in DOMAIN Published[u] /\ None \notin DOMAIN Published[u]
                                /\ Torn \notin DOMAIN Published[u]
  BY CloudAssumption DEF None, Torn

\* Initially nothing is recorded.
LEMMA CloudInitHolds == CloudInit => CloudInv
<1> SUFFICES ASSUME CloudInit PROVE CloudInv
  OBVIOUS
<1>1. CloudTables
  BY DEF CloudInit, CloudTables
<1>2. section \in DOMAIN Sections /\ restarts \in 0..MaxRestarts
  BY CloudAssumption DEF CloudInit
<1>3. CloudTypeOK
  BY <1>2, EditionsApart DEF CloudInit, CloudTypeOK
<1> QED BY <1>1, <1>3 DEF CloudInv, RecordedInForce, CacheRevives, CloudInit

\* What a url that is read contributes holds every word no section ignores.
LEMMA ReadKeeps ==
    ASSUME CloudInv, NEW u \in Urls, NEW reached, Applies(u, reached)
    PROVE  Kept(u, Body(u, reached)) \subseteq Read(u, reached)
<1>1. Profile.ignored \subseteq EverIgnored
  BY DEF CloudInv, CloudTypeOK, Profile, EverIgnored
<1> QED BY <1>1 DEF Kept, Read

\* A refresh records only what it put in force and, if the network gave it, in the cache.
LEMMA RefreshRecords ==
    ASSUME CloudInv, NEW reached \in SUBSET Urls, Refresh(reached), NEW u \in Urls
    PROVE  /\ edition' = edition /\ section' = section /\ restarts' = restarts
           /\ lastUpdated'[u] \in {None} \cup DOMAIN Published[u]
           /\ cache'[u] \in {None, Torn} \cup DOMAIN Published[u]
           /\ lastUpdated'[u] # None => Kept(u, lastUpdated'[u]) \subseteq cloudWords'
           /\ lastUpdated'[u] # None /\ cache'[u] # Torn /\ Kept(u, lastUpdated'[u]) # {} =>
                 cache'[u] # None /\ Kept(u, lastUpdated'[u]) \subseteq WordsOf(u, cache'[u])
<1>1. /\ edition' = edition /\ section' = section /\ restarts' = restarts
      /\ cloudWords' = cloudWords \cup UNION {Read(v, reached) : v \in Profile.urls}
      /\ lastUpdated'[u] = IF u \in Profile.urls /\ Applies(u, reached) THEN Body(u, reached) ELSE lastUpdated[u]
      /\ cache'[u] = IF u \in Profile.urls \cap reached /\ Read(u, reached) # {} THEN edition[u] ELSE cache[u]
  BY DEF Refresh
<1>2. /\ edition[u] \in DOMAIN Published[u] /\ lastUpdated[u] \in {None} \cup DOMAIN Published[u]
      /\ cache[u] \in {None, Torn} \cup DOMAIN Published[u]
  BY DEF CloudInv, CloudTypeOK
<1>3. /\ lastUpdated[u] # None => Kept(u, lastUpdated[u]) \subseteq cloudWords
      /\ lastUpdated[u] # None /\ cache[u] # Torn /\ Kept(u, lastUpdated[u]) # {} =>
            cache[u] # None /\ Kept(u, lastUpdated[u]) \subseteq WordsOf(u, cache[u])
  BY DEF CloudInv, RecordedInForce, CacheRevives
<1>4. CASE u \in Profile.urls /\ Applies(u, reached)
  <2>1. /\ lastUpdated'[u] = Body(u, reached) /\ Body(u, reached) \in DOMAIN Published[u]
        /\ Kept(u, Body(u, reached)) \subseteq Read(u, reached)
    BY <1>1, <1>2, <1>4, ReadKeeps DEF Applies, Body
  <2>2. Kept(u, Body(u, reached)) \subseteq WordsOf(u, Body(u, reached))
    BY DEF Kept
  <2>3. CASE u \in reached
    <3>1. Body(u, reached) = edition[u]
      BY <2>3 DEF Body
    <3> QED BY <1>1, <1>2, <1>4, <2>1, <2>2, <2>3, <3>1, EditionsApart
  <2>4. CASE u \notin reached
    <3>1. Body(u, reached) = cache[u] /\ cache'[u] = cache[u]
      BY <1>1, <2>4 DEF Body
    <3> QED BY <1>1, <1>2, <1>4, <2>1, <2>2, <3>1, EditionsApart
  <2> QED BY <2>3, <2>4
<1>5. CASE ~(u \in Profile.urls /\ Applies(u, reached))
  <2>1. lastUpdated'[u] = lastUpdated[u]
    BY <1>1, <1>5
  <2>2. cache'[u] = cache[u]
    BY <1>1, <1>5 DEF Read
  <2> QED BY <1>1, <1>2, <1>3, <2>1, <2>2
<1> QED BY <1>4, <1>5

\* Every step keeps the invariant.
LEMMA CloudStepHolds == CloudInv /\ [CloudNext]_cloudVars => CloudInv'
<1> SUFFICES ASSUME CloudInv, [CloudNext]_cloudVars PROVE CloudInv'
  OBVIOUS
<1>1. ASSUME NEW reached \in SUBSET Urls, Refresh(reached) PROVE CloudInv'
  <2>1. CloudTables'
    BY <1>1 DEF Refresh, CloudInv, CloudTables
  <2>2. CloudTypeOK'
    BY <1>1, RefreshRecords DEF CloudInv, CloudTypeOK, Refresh
  <2>3. RecordedInForce' /\ CacheRevives'
    BY <1>1, RefreshRecords DEF RecordedInForce, CacheRevives, Kept, WordsOf
  <2> QED BY <2>1, <2>2, <2>3 DEF CloudInv
<1>2. CASE ReloadFilter
  <2>1. section' \in DOMAIN Sections
    BY <1>2, CloudAssumption DEF ReloadFilter, CloudInv, CloudTypeOK
  <2> QED BY <1>2, <2>1 DEF ReloadFilter, CloudInv, CloudTypeOK, CloudTables, RecordedInForce, CacheRevives
<1>3. ASSUME NEW u \in Urls, Publish(u) PROVE CloudInv'
  <2>1. edition[u] + 1 \in DOMAIN Published[u]
    BY <1>3, CloudAssumption DEF Publish, CloudInv, CloudTypeOK
  <2>2. edition' = [edition EXCEPT ![u] = edition[u] + 1]
        /\ UNCHANGED <<section, cloudWords, lastUpdated, cache, restarts>>
    BY <1>3 DEF Publish
  <2>3. CloudTables' /\ \A v \in Urls : edition'[v] \in DOMAIN Published[v]
    BY <2>1, <2>2 DEF CloudInv, CloudTypeOK, CloudTables
  <2> QED BY <2>2, <2>3 DEF CloudInv, CloudTypeOK, RecordedInForce, CacheRevives
<1>4. ASSUME NEW torn \in SUBSET Urls, Restart(torn) PROVE CloudInv'
  <2>1. restarts' \in 0..MaxRestarts
    BY <1>4, CloudAssumption DEF Restart, CloudInv, CloudTypeOK
  <2>2. /\ \A u \in Urls : lastUpdated'[u] = None
        /\ \A u \in Urls : cache'[u] \in {None, Torn} \cup DOMAIN Published[u]
        /\ section' = section /\ edition' = edition
    BY <1>4 DEF Restart, CloudInv, CloudTypeOK
  <2>3. CloudTables'
    BY <1>4 DEF Restart, CloudInv, CloudTables
  <2> QED BY <2>1, <2>2, <2>3 DEF CloudInv, CloudTypeOK, RecordedInForce, CacheRevives
<1>5. CASE UNCHANGED cloudVars
  BY <1>5 DEF cloudVars, CloudInv, CloudTypeOK, CloudTables, RecordedInForce, CacheRevives
<1> QED BY <1>1, <1>2, <1>3, <1>4, <1>5 DEF CloudNext

\* EditionsApart, dates and cache files are what they should be.
THEOREM CloudTypesKept == CloudSpec => []CloudTypeOK
<1>1. CloudInv => CloudTypeOK
  BY DEF CloudInv
<1> QED BY <1>1, CloudInitHolds, CloudStepHolds, PTL DEF CloudSpec

\* A date is recorded only with its words in force, whatever is reloaded in between.
THEOREM RecordedIsInForce == CloudSpec => []RecordedInForce
<1>1. CloudInv => RecordedInForce
  BY DEF CloudInv
<1> QED BY <1>1, CloudInitHolds, CloudStepHolds, PTL DEF CloudSpec

\* What is in force would come back from the cache, unless a crash tore it.
THEOREM CacheSuffices == CloudSpec => []CacheRevives
<1>1. CloudInv => CacheRevives
  BY DEF CloudInv
<1> QED BY <1>1, CloudInitHolds, CloudStepHolds, PTL DEF CloudSpec

\* A date recorded means words in force, and a cache that brings them back.
THEOREM DatesMeanWords == CloudSpec => []WordsRecorded
<1>1. RecordedInForce /\ CacheRevives => WordsRecorded
  BY DEF WordsRecorded
<1> QED BY <1>1, RecordedIsInForce, CacheSuffices, PTL

-----------------------------------------------------------------------------
(* ReleaseNotices: who is told of a release, for any releases and players  *)
Version == [numbers : Seq(Nat), pre : Seq({"number", "word"} \X Nat)]
Signs == {-1, 0, 1}

\* FirstOf is the sign of the first place where there is one.
LEMMA FirstDecides ==
    ASSUME NEW n \in Nat, NEW signs \in [1..n -> Signs]
    PROVE  \/ FirstOf(signs) = 0 /\ \A i \in 1..n : signs[i] = 0
           \/ \E k \in 1..n : /\ FirstOf(signs) = signs[k] /\ signs[k] # 0
                              /\ \A i \in 1..n : i < k => signs[i] = 0
<1> DEFINE differ == {i \in DOMAIN signs : signs[i] # 0}
<1>1. DOMAIN signs = 1..n
  OBVIOUS
<1>2. CASE differ = {}
  BY <1>1, <1>2 DEF FirstOf
<1>3. CASE differ # {}
  <2>1. \E x \in differ : \A y \in differ : x <= y
    <3>1. differ \in SUBSET Nat
      BY <1>1
    <3> HIDE DEF differ
    <3> QED BY <1>3, <3>1, Least
  <2> DEFINE k == Min(differ)
  <2>2. k \in differ /\ \A y \in differ : k <= y
    <3> HIDE DEF differ
    <3> QED BY <2>1 DEF Min
  <2>3. FirstOf(signs) = signs[k]
    BY <1>3 DEF FirstOf
  <2> HIDE DEF k
  <2>4. \A i \in 1..n : i < k => signs[i] = 0
    BY <1>1, <2>2
  <2> QED BY <1>1, <2>2, <2>3, <2>4
<1> QED BY <1>2, <1>3

\* The number at a place, 0 past the end.
LEMMA NumberAt ==
    ASSUME NEW s \in Seq(Nat), NEW i \in Nat
    PROVE  At(s, i) \in Nat /\ (i > Len(s) => At(s, i) = 0)
  BY DEF At

Longest(s, t) == IF Len(s) > Len(t) THEN Len(s) ELSE Len(t)
Numbers(s, t) == FirstOf([i \in 1..Longest(s, t) |-> Sign(At(s, i) - At(t, i))])
Identifiers(s, t) == FirstOf([i \in 1..Longest(s, t) |-> CompareIdentifiers(s, t, i)])

\* Where the numbers of two versions first differ.
Above(s, t, k) == At(s, k) > At(t, k) /\ \A i \in Nat \ {0} : i < k => At(s, i) = At(t, i)

\* The numbers decide at the first that differs, and are even when none does.
LEMMA NumbersDecide ==
    ASSUME NEW s \in Seq(Nat), NEW t \in Seq(Nat)
    PROVE  /\ Numbers(s, t) \in Signs
           /\ Numbers(s, t) = 0 <=> \A i \in Nat \ {0} : At(s, i) = At(t, i)
           /\ Numbers(s, t) = 1 <=> \E k \in Nat \ {0} : Above(s, t, k)
           /\ Numbers(s, t) = -1 <=> \E k \in Nat \ {0} : Above(t, s, k)
<1> DEFINE n == Longest(s, t)
           signs == [i \in 1..n |-> Sign(At(s, i) - At(t, i))]
<1>1. n \in Nat /\ n >= Len(s) /\ n >= Len(t)
  BY DEF Longest
<1>2. \A i \in Nat \ {0} : /\ At(s, i) \in Nat /\ At(t, i) \in Nat
                           /\ i \notin 1..n => At(s, i) = 0 /\ At(t, i) = 0
  <2> SUFFICES ASSUME NEW i \in Nat \ {0}
               PROVE  /\ At(s, i) \in Nat /\ At(t, i) \in Nat
                      /\ i \notin 1..n => At(s, i) = 0 /\ At(t, i) = 0
    OBVIOUS
  <2>1. At(s, i) \in Nat /\ (i > Len(s) => At(s, i) = 0) /\ At(t, i) \in Nat /\ (i > Len(t) => At(t, i) = 0)
    BY NumberAt
  <2>2. Len(s) \in Nat /\ Len(t) \in Nat
    OBVIOUS
  <2> HIDE DEF n
  <2>3. i \notin 1..n => i > Len(s) /\ i > Len(t)
    BY <1>1, <2>2
  <2> QED BY <2>1, <2>3
<1>3. \A i \in 1..n : /\ signs[i] \in Signs
                      /\ signs[i] = 0 <=> At(s, i) = At(t, i)
                      /\ signs[i] = 1 <=> At(s, i) > At(t, i)
                      /\ signs[i] = -1 <=> At(t, i) > At(s, i)
  <2> SUFFICES ASSUME NEW i \in 1..n
               PROVE  /\ signs[i] \in Signs
                      /\ signs[i] = 0 <=> At(s, i) = At(t, i)
                      /\ signs[i] = 1 <=> At(s, i) > At(t, i)
                      /\ signs[i] = -1 <=> At(t, i) > At(s, i)
    OBVIOUS
  <2>1. signs[i] = Sign(At(s, i) - At(t, i))
    OBVIOUS
  <2> HIDE DEF n, signs
  <2>2. At(s, i) \in Nat /\ At(t, i) \in Nat
    BY <1>1, <1>2
  <2> QED BY <2>1, <2>2 DEF Sign, Signs
<1>4. signs \in [1..n -> Signs] /\ Numbers(s, t) = FirstOf(signs)
  BY <1>3 DEF Numbers
<1> HIDE DEF n, signs
<1>5. \/ FirstOf(signs) = 0 /\ \A i \in 1..n : signs[i] = 0
      \/ \E k \in 1..n : /\ FirstOf(signs) = signs[k] /\ signs[k] # 0
                         /\ \A i \in 1..n : i < k => signs[i] = 0
  BY <1>1, <1>4, FirstDecides
<1>6. \A j, k \in Nat \ {0} : ~(Above(s, t, j) /\ Above(t, s, k))
  <2> SUFFICES ASSUME NEW j \in Nat \ {0}, NEW k \in Nat \ {0}, Above(s, t, j), Above(t, s, k)
               PROVE  FALSE
    OBVIOUS
  <2>1. /\ At(s, j) \in Nat /\ At(t, j) \in Nat /\ At(s, j) > At(t, j)
        /\ At(s, k) \in Nat /\ At(t, k) \in Nat /\ At(t, k) > At(s, k)
    BY <1>2 DEF Above
  <2>2. (k < j => At(s, k) = At(t, k)) /\ (j < k => At(t, j) = At(s, j))
    BY DEF Above
  <2> QED BY <2>1, <2>2
<1>7. CASE FirstOf(signs) = 0 /\ \A i \in 1..n : signs[i] = 0
  <2>1. \A i \in Nat \ {0} : At(s, i) = At(t, i)
    BY <1>2, <1>3, <1>7
  <2>2. \A k \in Nat \ {0} : ~Above(s, t, k) /\ ~Above(t, s, k)
    BY <1>2, <2>1 DEF Above
  <2> QED BY <1>4, <1>7, <2>1, <2>2 DEF Signs
<1>8. ASSUME NEW k \in 1..n, FirstOf(signs) = signs[k], signs[k] # 0,
             \A i \in 1..n : i < k => signs[i] = 0
      PROVE  /\ k \in Nat \ {0} /\ FirstOf(signs) \in {1, -1}
             /\ FirstOf(signs) = 1 => Above(s, t, k)
             /\ FirstOf(signs) = -1 => Above(t, s, k)
  <2>1. k \in Nat \ {0} /\ \A i \in Nat \ {0} : i < k => i \in 1..n
    BY <1>1
  <2>2. \A i \in Nat \ {0} : i < k => At(s, i) = At(t, i)
    BY <1>3, <1>8, <2>1
  <2> QED BY <1>3, <1>8, <2>1, <2>2 DEF Above, Signs
<1>9. CASE \E k \in 1..n : /\ FirstOf(signs) = signs[k] /\ signs[k] # 0
                           /\ \A i \in 1..n : i < k => signs[i] = 0
  <2>1. PICK k \in Nat \ {0} : /\ FirstOf(signs) \in {1, -1}
                               /\ FirstOf(signs) = 1 => Above(s, t, k)
                               /\ FirstOf(signs) = -1 => Above(t, s, k)
    BY <1>8, <1>9
  <2>2. ~\A i \in Nat \ {0} : At(s, i) = At(t, i)
    BY <1>2, <2>1 DEF Above
  <2> QED BY <1>4, <1>6, <2>1, <2>2 DEF Signs
<1> QED BY <1>5, <1>7, <1>9
\* Where the identifiers of two pre-releases first differ.
Identifier == {"number", "word"} \X Nat
Beats(x, y) == (x[1] = "word" /\ y[1] = "number") \/ (x[1] = y[1] /\ x[2] > y[2])
Outranks(s, t, k) ==
    /\ k <= Len(s)
    /\ k > Len(t) \/ Beats(s[k], t[k])
    /\ \A i \in Nat \ {0} : i < k => i <= Len(t) /\ s[i] = t[i]

\* What two identifiers at a place say of their versions.
LEMMA IdentifierDecides ==
    ASSUME NEW s \in Seq(Identifier), NEW t \in Seq(Identifier), NEW i \in 1..Longest(s, t)
    PROVE  /\ CompareIdentifiers(s, t, i) \in Signs
           /\ CompareIdentifiers(s, t, i) = 0 <=> i <= Len(s) /\ i <= Len(t) /\ s[i] = t[i]
           /\ CompareIdentifiers(s, t, i) = 1 <=> i <= Len(s) /\ (i > Len(t) \/ Beats(s[i], t[i]))
           /\ CompareIdentifiers(s, t, i) = -1 <=> i <= Len(t) /\ (i > Len(s) \/ Beats(t[i], s[i]))
<1>1. i \in Nat \ {0} /\ Len(s) \in Nat /\ Len(t) \in Nat /\ (i <= Len(s) \/ i <= Len(t))
  BY DEF Longest
<1>2. (i \in DOMAIN s <=> i <= Len(s)) /\ (i \in DOMAIN t <=> i <= Len(t))
  BY <1>1
<1>3. CASE i > Len(s)
  <2>1. CompareIdentifiers(s, t, i) = -1
    BY <1>1, <1>2, <1>3 DEF CompareIdentifiers
  <2> QED BY <1>1, <1>3, <2>1 DEF Signs
<1>4. CASE i <= Len(s) /\ i > Len(t)
  <2>1. CompareIdentifiers(s, t, i) = 1
    BY <1>1, <1>2, <1>4 DEF CompareIdentifiers
  <2> QED BY <1>1, <1>4, <2>1 DEF Signs
<1>5. CASE i <= Len(s) /\ i <= Len(t)
  <2> DEFINE x == s[i]
             y == t[i]
  <2>1. x \in Identifier /\ y \in Identifier
    BY <1>1, <1>2, <1>5
  <2>2. CompareIdentifiers(s, t, i) =
          IF x[1] # y[1] THEN (IF x[1] = "number" THEN -1 ELSE 1) ELSE Sign(x[2] - y[2])
    BY <1>2, <1>5 DEF CompareIdentifiers
  <2> HIDE DEF x, y
  <2>3. /\ x[1] \in {"number", "word"} /\ y[1] \in {"number", "word"} /\ x[2] \in Nat /\ y[2] \in Nat
        /\ x = y <=> x[1] = y[1] /\ x[2] = y[2]
    <3>1. PICK a \in {"number", "word"}, m \in Nat : x = <<a, m>>
      BY <2>1 DEF Identifier
    <3>2. PICK b \in {"number", "word"}, p \in Nat : y = <<b, p>>
      BY <2>1 DEF Identifier
    <3> QED BY <3>1, <3>2
  <2>4. /\ CompareIdentifiers(s, t, i) \in Signs
        /\ CompareIdentifiers(s, t, i) = 0 <=> x = y
        /\ CompareIdentifiers(s, t, i) = 1 <=> Beats(x, y)
        /\ CompareIdentifiers(s, t, i) = -1 <=> Beats(y, x)
    BY <2>2, <2>3 DEF Beats, Sign, Signs
  <2> QED BY <1>1, <1>5, <2>4 DEF x, y
<1> QED BY <1>1, <1>3, <1>4, <1>5

\* The identifiers decide at the first that differs, and are even when they are the same.
LEMMA IdentifiersDecide ==
    ASSUME NEW s \in Seq(Identifier), NEW t \in Seq(Identifier)
    PROVE  /\ Identifiers(s, t) \in Signs
           /\ Identifiers(s, t) = 0 <=> s = t
           /\ Identifiers(s, t) = 1 <=> \E k \in Nat \ {0} : Outranks(s, t, k)
           /\ Identifiers(s, t) = -1 <=> \E k \in Nat \ {0} : Outranks(t, s, k)
<1> DEFINE n == Longest(s, t)
           signs == [i \in 1..n |-> CompareIdentifiers(s, t, i)]
<1>1. n \in Nat /\ n >= Len(s) /\ n >= Len(t) /\ (n = Len(s) \/ n = Len(t)) /\ Len(s) \in Nat /\ Len(t) \in Nat
  BY DEF Longest
<1>2. \A i \in 1..n : /\ signs[i] \in Signs
                      /\ signs[i] = 0 <=> i <= Len(s) /\ i <= Len(t) /\ s[i] = t[i]
                      /\ signs[i] = 1 <=> i <= Len(s) /\ (i > Len(t) \/ Beats(s[i], t[i]))
                      /\ signs[i] = -1 <=> i <= Len(t) /\ (i > Len(s) \/ Beats(t[i], s[i]))
  BY IdentifierDecides
<1>3. signs \in [1..n -> Signs] /\ Identifiers(s, t) = FirstOf(signs)
  BY <1>2 DEF Identifiers
<1>4. \A i \in 1..Len(s) : s[i] \in Identifier
  BY <1>1
<1>5. \A i \in 1..Len(t) : t[i] \in Identifier
  BY <1>1
<1>6. \A x, y \in Identifier : ~(Beats(x, y) /\ Beats(y, x)) /\ ~Beats(x, x)
  BY DEF Beats, Identifier
<1>7. s = t <=> Len(s) = Len(t) /\ \A i \in 1..Len(s) : s[i] = t[i]
  BY <1>1
<1> HIDE DEF n, signs
<1>8. \/ FirstOf(signs) = 0 /\ \A i \in 1..n : signs[i] = 0
      \/ \E k \in 1..n : /\ FirstOf(signs) = signs[k] /\ signs[k] # 0
                         /\ \A i \in 1..n : i < k => signs[i] = 0
  BY <1>1, <1>3, FirstDecides
<1>9. \A j, k \in Nat \ {0} : ~(Outranks(s, t, j) /\ Outranks(t, s, k))
  <2> SUFFICES ASSUME NEW j \in Nat \ {0}, NEW k \in Nat \ {0}, Outranks(s, t, j), Outranks(t, s, k)
               PROVE  FALSE
    OBVIOUS
  <2>1. j <= Len(s) /\ k <= Len(t) /\ (j > Len(t) \/ Beats(s[j], t[j])) /\ (k > Len(s) \/ Beats(t[k], s[k]))
    BY DEF Outranks
  <2>2. (k < j => k <= Len(t) /\ s[k] = t[k]) /\ (j < k => j <= Len(s) /\ t[j] = s[j])
    BY DEF Outranks
  <2>3. (j <= Len(s) => s[j] \in Identifier) /\ (k <= Len(s) => s[k] \in Identifier)
        /\ (j <= Len(t) => t[j] \in Identifier) /\ (k <= Len(t) => t[k] \in Identifier)
    BY <1>1, <1>4, <1>5
  <2>4. CASE j = k
    BY <1>1, <1>6, <2>1, <2>3, <2>4
  <2>5. CASE j < k
    BY <1>1, <1>6, <2>1, <2>2, <2>3, <2>5
  <2>6. CASE k < j
    BY <1>1, <1>6, <2>1, <2>2, <2>3, <2>6
  <2> QED BY <2>4, <2>5, <2>6
<1>10. s = t => \A k \in Nat \ {0} : ~Outranks(s, t, k) /\ ~Outranks(t, s, k)
  BY <1>1, <1>4, <1>6 DEF Outranks
<1>11. CASE FirstOf(signs) = 0 /\ \A i \in 1..n : signs[i] = 0
  <2>1. s = t
    BY <1>1, <1>2, <1>7, <1>11
  <2> QED BY <1>3, <1>10, <1>11, <2>1 DEF Signs
<1>12. ASSUME NEW k \in 1..n, FirstOf(signs) = signs[k], signs[k] # 0,
              \A i \in 1..n : i < k => signs[i] = 0
       PROVE  /\ k \in Nat \ {0} /\ FirstOf(signs) \in {1, -1}
              /\ FirstOf(signs) = 1 => Outranks(s, t, k)
              /\ FirstOf(signs) = -1 => Outranks(t, s, k)
  <2>1. k \in Nat \ {0} /\ \A i \in Nat \ {0} : i < k => i \in 1..n
    BY <1>1
  <2>2. \A i \in Nat \ {0} : i < k => i <= Len(s) /\ i <= Len(t) /\ s[i] = t[i]
    BY <1>2, <1>12, <2>1
  <2> QED BY <1>2, <1>12, <2>1, <2>2 DEF Outranks, Signs
<1>13. CASE \E k \in 1..n : /\ FirstOf(signs) = signs[k] /\ signs[k] # 0
                            /\ \A i \in 1..n : i < k => signs[i] = 0
  <2>1. PICK k \in Nat \ {0} : /\ FirstOf(signs) \in {1, -1}
                               /\ FirstOf(signs) = 1 => Outranks(s, t, k)
                               /\ FirstOf(signs) = -1 => Outranks(t, s, k)
    BY <1>12, <1>13
  <2> QED BY <1>3, <1>9, <1>10, <2>1 DEF Signs
<1> QED BY <1>8, <1>11, <1>13

\* The order of the numbers chains.
LEMMA AboveChain ==
    ASSUME NEW s \in Seq(Nat), NEW t \in Seq(Nat), NEW u \in Seq(Nat), Numbers(s, t) = 1, Numbers(t, u) = 1
    PROVE  Numbers(s, u) = 1
<1>1. PICK j \in Nat \ {0} : Above(s, t, j)
  BY NumbersDecide
<1>2. PICK k \in Nat \ {0} : Above(t, u, k)
  BY NumbersDecide
<1>3. \A i \in Nat \ {0} : At(s, i) \in Nat /\ At(t, i) \in Nat /\ At(u, i) \in Nat
  BY NumberAt
<1>4. CASE j <= k
  <2>1. At(s, j) > At(t, j) /\ At(t, j) >= At(u, j)
    <3>1. At(s, j) > At(t, j)
      BY <1>1 DEF Above
    <3>2. At(t, j) >= At(u, j)
      <4>1. CASE j = k
        BY <1>2, <1>3, <4>1 DEF Above
      <4>2. CASE j < k
        BY <1>2, <1>3, <4>2 DEF Above
      <4> QED BY <1>4, <4>1, <4>2
    <3> QED BY <3>1, <3>2
  <2>2. \A i \in Nat \ {0} : i < j => At(s, i) = At(t, i) /\ At(t, i) = At(u, i)
    BY <1>1, <1>2, <1>4 DEF Above
  <2>3. Above(s, u, j)
    BY <1>3, <2>1, <2>2 DEF Above
  <2> QED BY <2>3, NumbersDecide
<1>5. CASE k < j
  <2>1. Above(s, u, k)
    BY <1>1, <1>2, <1>3, <1>5 DEF Above
  <2> QED BY <2>1, NumbersDecide
<1> QED BY <1>4, <1>5

\* The order of the identifiers chains.
LEMMA OutrankChain ==
    ASSUME NEW s \in Seq(Identifier), NEW t \in Seq(Identifier), NEW u \in Seq(Identifier),
           Identifiers(s, t) = 1, Identifiers(t, u) = 1
    PROVE  Identifiers(s, u) = 1
<1>1. PICK j \in Nat \ {0} : Outranks(s, t, j)
  BY IdentifiersDecide
<1>2. PICK k \in Nat \ {0} : Outranks(t, u, k)
  BY IdentifiersDecide
<1>3. Len(s) \in Nat /\ Len(t) \in Nat /\ Len(u) \in Nat
  OBVIOUS
<1>4. /\ \A i \in Nat \ {0} : i <= Len(s) => s[i] \in Identifier
      /\ \A i \in Nat \ {0} : i <= Len(t) => t[i] \in Identifier
      /\ \A i \in Nat \ {0} : i <= Len(u) => u[i] \in Identifier
  OBVIOUS
<1>5. \A x, y, z \in Identifier : Beats(x, y) /\ Beats(y, z) => Beats(x, z)
  BY DEF Beats, Identifier
<1>6. CASE j < k
  <2>1. Outranks(s, u, j)
    BY <1>1, <1>2, <1>3, <1>6 DEF Outranks
  <2> QED BY <2>1, IdentifiersDecide
<1>7. CASE k < j
  <2>1. Outranks(s, u, k)
    BY <1>1, <1>2, <1>3, <1>7 DEF Outranks
  <2> QED BY <2>1, IdentifiersDecide
<1>8. CASE j = k
  <2>1. /\ j <= Len(s) /\ j <= Len(t) /\ (j > Len(t) \/ Beats(s[j], t[j])) /\ (j > Len(u) \/ Beats(t[j], u[j]))
        /\ \A i \in Nat \ {0} : i < j => i <= Len(u) /\ s[i] = t[i] /\ t[i] = u[i]
    BY <1>1, <1>2, <1>8 DEF Outranks
  <2>2. j > Len(u) \/ Beats(s[j], u[j])
    BY <1>3, <1>4, <1>5, <2>1
  <2>3. Outranks(s, u, j)
    BY <1>3, <2>1, <2>2 DEF Outranks
  <2> QED BY <2>3, IdentifiersDecide
<1> QED BY <1>6, <1>7, <1>8

\* Compare, in the two orders it is made of.
LEMMA CompareIs ==
    ASSUME NEW a \in Version, NEW b \in Version
    PROVE  Compare(a, b) = IF Numbers(a.numbers, b.numbers) # 0 THEN Numbers(a.numbers, b.numbers)
                           ELSE IF a.pre = <<>> \/ b.pre = <<>>
                                THEN (IF a.pre = b.pre THEN 0 ELSE IF a.pre = <<>> THEN 1 ELSE -1)
                           ELSE Identifiers(a.pre, b.pre)
  BY DEF Compare, Numbers, Identifiers, Longest

\* Equal numbers compare alike with any other.
LEMMA SameNumbers ==
    ASSUME NEW s \in Seq(Nat), NEW t \in Seq(Nat), NEW u \in Seq(Nat), Numbers(s, t) = 0
    PROVE  Numbers(s, u) = Numbers(t, u) /\ Numbers(u, s) = Numbers(u, t)
<1>1. \A i \in Nat \ {0} : At(s, i) = At(t, i)
  BY NumbersDecide
<1>2. \A k \in Nat \ {0} : (Above(s, u, k) <=> Above(t, u, k)) /\ (Above(u, s, k) <=> Above(u, t, k))
  BY <1>1 DEF Above
<1>3. Numbers(s, u) \in Signs /\ Numbers(t, u) \in Signs /\ Numbers(u, s) \in Signs /\ Numbers(u, t) \in Signs
  BY NumbersDecide
<1>4. (Numbers(s, u) = 1 <=> Numbers(t, u) = 1) /\ (Numbers(s, u) = -1 <=> Numbers(t, u) = -1)
  BY <1>2, NumbersDecide
<1>5. (Numbers(u, s) = 1 <=> Numbers(u, t) = 1) /\ (Numbers(u, s) = -1 <=> Numbers(u, t) = -1)
  BY <1>2, NumbersDecide
<1> QED BY <1>3, <1>4, <1>5 DEF Signs

\* Compare orders the versions: any two of them one way round, and in chains.
THEOREM CompareOrders ==
  \A a, b, c \in Version :
    /\ Compare(a, b) \in Signs /\ Compare(b, a) = 0 - Compare(a, b) /\ Compare(a, a) = 0
    /\ Compare(a, b) = 1 /\ Compare(b, c) = 1 => Compare(a, c) = 1
<1> SUFFICES ASSUME NEW a \in Version, NEW b \in Version, NEW c \in Version
             PROVE  /\ Compare(a, b) \in Signs /\ Compare(b, a) = 0 - Compare(a, b) /\ Compare(a, a) = 0
                    /\ Compare(a, b) = 1 /\ Compare(b, c) = 1 => Compare(a, c) = 1
  OBVIOUS
<1>1. /\ a.numbers \in Seq(Nat) /\ b.numbers \in Seq(Nat) /\ c.numbers \in Seq(Nat)
      /\ a.pre \in Seq(Identifier) /\ b.pre \in Seq(Identifier) /\ c.pre \in Seq(Identifier)
  BY DEF Version, Identifier
<1>2. \A s, t \in Seq(Nat) : Numbers(s, t) \in Signs /\ Numbers(t, s) = 0 - Numbers(s, t) /\ Numbers(s, s) = 0
  <2> SUFFICES ASSUME NEW s \in Seq(Nat), NEW t \in Seq(Nat)
               PROVE  Numbers(s, t) \in Signs /\ Numbers(t, s) = 0 - Numbers(s, t) /\ Numbers(s, s) = 0
    OBVIOUS
  <2>1. /\ Numbers(s, t) \in Signs /\ Numbers(t, s) \in Signs /\ Numbers(s, s) = 0
        /\ Numbers(s, t) = 1 <=> Numbers(t, s) = -1
        /\ Numbers(s, t) = -1 <=> Numbers(t, s) = 1
    BY NumbersDecide
  <2> QED BY <2>1 DEF Signs
<1>3. \A s, t \in Seq(Identifier) : /\ Identifiers(s, t) \in Signs /\ Identifiers(t, s) = 0 - Identifiers(s, t)
                                    /\ Identifiers(s, s) = 0
  <2> SUFFICES ASSUME NEW s \in Seq(Identifier), NEW t \in Seq(Identifier)
               PROVE  /\ Identifiers(s, t) \in Signs /\ Identifiers(t, s) = 0 - Identifiers(s, t)
                      /\ Identifiers(s, s) = 0
    OBVIOUS
  <2>1. /\ Identifiers(s, t) \in Signs /\ Identifiers(t, s) \in Signs /\ Identifiers(s, s) = 0
        /\ Identifiers(s, t) = 1 <=> Identifiers(t, s) = -1
        /\ Identifiers(s, t) = -1 <=> Identifiers(t, s) = 1
    BY IdentifiersDecide
  <2> QED BY <2>1 DEF Signs
<1> DEFINE ab == Numbers(a.numbers, b.numbers)
           bc == Numbers(b.numbers, c.numbers)
           ac == Numbers(a.numbers, c.numbers)
<1>4. Compare(a, b) \in Signs /\ Compare(b, a) = 0 - Compare(a, b)
  <2>1. /\ ab \in Signs /\ Numbers(b.numbers, a.numbers) = 0 - ab
        /\ Identifiers(a.pre, b.pre) \in Signs /\ Identifiers(b.pre, a.pre) = 0 - Identifiers(a.pre, b.pre)
    BY <1>1, <1>2, <1>3
  <2>2. CASE ab # 0
    <3>1. Numbers(b.numbers, a.numbers) # 0
      BY <2>1, <2>2 DEF Signs
    <3>2. Compare(a, b) = ab /\ Compare(b, a) = Numbers(b.numbers, a.numbers)
      BY <2>2, <3>1, CompareIs
    <3> QED BY <2>1, <3>2
  <2>3. CASE ab = 0
    <3>1. Numbers(b.numbers, a.numbers) = 0
      BY <2>1, <2>3
    <3>2. CASE a.pre = <<>> \/ b.pre = <<>>
      BY <2>3, <3>1, <3>2, CompareIs DEF Signs
    <3>3. CASE a.pre # <<>> /\ b.pre # <<>>
      <4>1. Compare(a, b) = Identifiers(a.pre, b.pre) /\ Compare(b, a) = Identifiers(b.pre, a.pre)
        BY <2>3, <3>1, <3>3, CompareIs
      <4> QED BY <2>1, <4>1
    <3> QED BY <3>2, <3>3
  <2> QED BY <2>2, <2>3
<1>5. Compare(a, a) = 0
  BY <1>1, <1>2, <1>3, CompareIs
<1>6. ASSUME Compare(a, b) = 1, Compare(b, c) = 1 PROVE Compare(a, c) = 1
  <2>1. ab \in {0, 1} /\ bc \in {0, 1}
    BY <1>1, <1>2, <1>6, CompareIs DEF Signs
  <2>2. CASE ab = 1 \/ bc = 1
    <3>1. ac = 1
      BY <1>1, <2>1, <2>2, AboveChain, SameNumbers
    <3> QED BY <3>1, CompareIs
  <2>3. CASE ab = 0 /\ bc = 0
    <3>1. ac = 0
      BY <1>1, <2>3, SameNumbers
    <3>2. /\ b.pre # <<>> /\ (a.pre = <<>> \/ (a.pre # <<>> /\ Identifiers(a.pre, b.pre) = 1))
          /\ c.pre # <<>> /\ Identifiers(b.pre, c.pre) = 1
      <4>1. IF a.pre = <<>> \/ b.pre = <<>>
            THEN (IF a.pre = b.pre THEN 0 ELSE IF a.pre = <<>> THEN 1 ELSE -1) = 1
            ELSE Identifiers(a.pre, b.pre) = 1
        BY <1>6, <2>3, CompareIs
      <4>2. IF b.pre = <<>> \/ c.pre = <<>>
            THEN (IF b.pre = c.pre THEN 0 ELSE IF b.pre = <<>> THEN 1 ELSE -1) = 1
            ELSE Identifiers(b.pre, c.pre) = 1
        BY <1>6, <2>3, CompareIs
      <4> QED BY <4>1, <4>2
    <3>3. a.pre # <<>> => Identifiers(a.pre, c.pre) = 1
      BY <1>1, <3>2, OutrankChain
    <3> QED BY <3>1, <3>2, <3>3, CompareIs
  <2> QED BY <2>1, <2>2, <2>3
<1> QED BY <1>4, <1>5, <1>6

\* The place before one of a list.
LEMMA OneBefore ==
    ASSUME NEW m \in Nat \ {0}, NEW d \in Nat \ {0}, NEW l \in Nat, m + d + 1 \in 1..l
    PROVE  m + (d - 1) + 1 = m + d /\ m + d \in 1..(l - 1) /\ m + d \in 1..l
OBVIOUS

\* Each release of the list ranks above the one before.
EachAboveTheLast == \A i \in 1..(Len(Ascending) - 1) : Compare(Ascending[i + 1], Ascending[i]) = 1

\* Then any release ranks above those before it, and those only.
LEMMA ListedAsRanked ==
    ASSUME EachAboveTheLast, NEW i \in DOMAIN Ascending, NEW j \in DOMAIN Ascending,
           Compare(Ascending[i], Ascending[j]) = 1
    PROVE  i > j
<1>1. Ascending \in Seq(Version) /\ Len(Ascending) \in Nat /\ DOMAIN Ascending = 1..Len(Ascending)
  BY NoticesAssumption DEF Version
<1>2. \A m \in DOMAIN Ascending : Ascending[m] \in Version
  BY <1>1
<1> DEFINE Wrong == {d \in Nat : \E m \in DOMAIN Ascending :
                       /\ m + d + 1 \in DOMAIN Ascending
                       /\ Compare(Ascending[m + d + 1], Ascending[m]) # 1}
<1>3. Wrong = {}
  <2> SUFFICES ASSUME Wrong # {} PROVE FALSE
    OBVIOUS
  <2>1. PICK d \in Wrong : \A e \in Wrong : d <= e
    <3>1. Wrong \in SUBSET Nat
      OBVIOUS
    <3> HIDE DEF Wrong
    <3> QED BY <3>1, Least
  <2>2. PICK m \in DOMAIN Ascending : /\ m + d + 1 \in DOMAIN Ascending
                                      /\ Compare(Ascending[m + d + 1], Ascending[m]) # 1
    OBVIOUS
  <2>3. d \in Nat /\ m \in Nat /\ m >= 1
    BY <1>1
  <2>4. d # 0
    BY <1>1, <2>2, <2>3 DEF EachAboveTheLast
  <2>5. d - 1 \in Nat /\ d - 1 \notin Wrong
    <3>1. d - 1 \in Nat /\ ~(d <= d - 1)
      BY <2>3, <2>4
    <3> HIDE DEF Wrong
    <3>2. d - 1 \notin Wrong
      <4> SUFFICES ASSUME d - 1 \in Wrong PROVE FALSE
        OBVIOUS
      <4>1. d <= d - 1
        BY <2>1
      <4> QED BY <3>1, <4>1
    <3> QED BY <3>1, <3>2
  <2>6. m + (d - 1) + 1 = m + d /\ m + d \in DOMAIN Ascending /\ m + d \in 1..(Len(Ascending) - 1)
    <3>1. Len(Ascending) \in Nat /\ DOMAIN Ascending = 1..Len(Ascending)
      BY <1>1
    <3>2. m + d + 1 \in DOMAIN Ascending
      BY <2>2
    <3> HIDE DEF Wrong
    <3>3. m + d + 1 \in 1..Len(Ascending)
      BY <3>1, <3>2
    <3>4. d \in Nat \ {0} /\ m \in Nat \ {0}
      BY <2>3, <2>4
    <3>5. m + (d - 1) + 1 = m + d /\ m + d \in 1..(Len(Ascending) - 1) /\ m + d \in 1..Len(Ascending)
      BY <3>1, <3>3, <3>4, OneBefore
    <3> QED BY <3>1, <3>5
  <2>7. Compare(Ascending[m + d], Ascending[m]) = 1
    BY <2>5, <2>6
  <2>8. Compare(Ascending[m + d + 1], Ascending[m + d]) = 1
    BY <2>6 DEF EachAboveTheLast
  <2> QED BY <1>2, <2>2, <2>6, <2>7, <2>8, CompareOrders
<1>4. CASE i = j
  BY <1>2, <1>4, CompareOrders
<1>5. CASE i < j
  <2>1. j - i - 1 \in Nat /\ i + (j - i - 1) + 1 = j
    BY <1>1, <1>5
  <2>2. Compare(Ascending[j], Ascending[i]) = 1
    BY <1>3, <2>1
  <2>3. 0 - Compare(Ascending[i], Ascending[j]) = -1
    OBVIOUS
  <2> QED BY <1>2, <2>2, <2>3, CompareOrders
<1> QED BY <1>1, <1>4, <1>5

Releases == (DOMAIN Ascending) \X Editions

\* What an administrator holds, with what NOTIFIED says of it.
TellingsKept ==
  /\ started \in BOOLEAN /\ current \in DOMAIN Ascending /\ found \in Nat /\ notified \subseteq Admins
  /\ told \in [Admins -> [release : {NoRelease} \cup Releases, finding : Nat, times : Nat]]
  /\ \A p \in Admins : told[p].times <= found
  /\ \A p \in notified : /\ told[p].finding = found
                         /\ available # NoRelease => told[p].release = available
  /\ available # NoRelease =>
       /\ started
       /\ \A p \in Admins \ notified : told[p].times < found
       /\ (present \cap privileged) \ promoted \subseteq notified

Newer(release) == release # NoRelease => release[1] > current

NoticesInv ==
  /\ NoticesTypeOK /\ TellingsKept
  /\ present \cup privileged \subseteq Admins
  /\ EachAboveTheLast => Newer(available) /\ OnlyNewerTold

\* No release has the place of none.
LEMMA ReleasesAreSome == ASSUME NEW r \in Releases PROVE r # NoRelease
  BY NoticesAssumption DEF Releases, NoRelease

\* What is newer than the version that runs has a higher place.
LEMMA NewerIsHigher ==
    ASSUME EachAboveTheLast, current \in DOMAIN Ascending, NEW r \in Releases, IsNewer(r)
    PROVE  r[1] > current
  BY ListedAsRanked DEF IsNewer, Releases

\* Telling some players of a release, in a finding.
LEMMA Telling ==
    ASSUME NEW players \in SUBSET Admins, NEW release \in {NoRelease} \cup Releases, NEW finding \in Nat,
           NEW already \in SUBSET Admins, told \in [Admins -> [release : {NoRelease} \cup Releases, finding : Nat, times : Nat]],
           NEW toTell, toTell = {p \in players \cap privileged : release # NoRelease /\ p \notin already},
           told' = [p \in Admins |-> IF p \in toTell
                       THEN [release |-> release, finding |-> finding, times |-> told[p].times + 1]
                       ELSE told[p]]
    PROVE  /\ told' \in [Admins -> [release : {NoRelease} \cup Releases, finding : Nat, times : Nat]]
           /\ \A p \in toTell : /\ told'[p].release = release /\ told'[p].finding = finding
                             /\ told'[p].times = told[p].times + 1
           /\ \A p \in Admins \ toTell : told'[p] = told[p]
<1> DEFINE entry(p) == [release |-> release, finding |-> finding, times |-> told[p].times + 1]
<1>1. told' = [p \in Admins |-> IF p \in toTell THEN entry(p) ELSE told[p]]
  OBVIOUS
<1>2. toTell \subseteq Admins
  OBVIOUS
<1>3. \A p \in Admins : entry(p) \in [release : {NoRelease} \cup Releases, finding : Nat, times : Nat]
  OBVIOUS
<1>4. \A p \in Admins : /\ entry(p).release = release /\ entry(p).finding = finding
                        /\ entry(p).times = told[p].times + 1
  OBVIOUS
<1> HIDE DEF entry
<1> QED BY <1>1, <1>2, <1>3, <1>4

\* Initially nobody was told.
LEMMA NoticesInitHolds == NoticesInit => NoticesInv
<1> SUFFICES ASSUME NoticesInit PROVE NoticesInv
  OBVIOUS
<1>1. told \in [Admins -> [release : {NoRelease} \cup Releases, finding : Nat, times : Nat]]
  BY DEF NoticesInit
<1>2. \A p \in Admins : told[p].times = 0
  BY DEF NoticesInit
<1>3. found = 0 /\ found \in 0..MaxFound
  BY NoticesAssumption DEF NoticesInit
<1> QED BY <1>1, <1>2, <1>3 DEF NoticesInit, NoticesInv, NoticesTypeOK, TellingsKept, OnlyNewerTold, Newer, Releases

\* A check that finds another release tells everybody on line of it.
LEMMA CheckTells ==
    ASSUME NoticesInv, Check PROVE NoticesInv'
<1>0. served \in Releases
  BY DEF NoticesInv, NoticesTypeOK, Releases
<1>1. CASE ~IsNewer(served)
  <2>1. available' = NoRelease /\ UNCHANGED <<found, promoted, notified, told, started, current, served, present, privileged>>
    BY <1>1 DEF Check
  <2> QED BY <2>1 DEF NoticesInv, NoticesTypeOK, TellingsKept, OnlyNewerTold, Newer, Releases
<1>2. CASE IsNewer(served) /\ available = served
  <2>1. available' = available /\ UNCHANGED <<found, promoted, notified, told, started, current, served, present, privileged>>
    BY <1>2 DEF Check
  <2> QED BY <2>1 DEF NoticesInv, NoticesTypeOK, TellingsKept, OnlyNewerTold, Newer, Releases
<1>3. CASE IsNewer(served) /\ available # served
  <2>1. /\ started /\ available' = served /\ found < MaxFound /\ found' = found + 1 /\ promoted' = {}
        /\ Notified(present, served, found', {})
        /\ UNCHANGED <<started, current, served, present, privileged>>
    BY <1>3 DEF Check
  <2>2. found \in Nat /\ found' \in Nat /\ found' \in 0..MaxFound /\ present \in SUBSET Admins
    BY <2>1, NoticesAssumption DEF NoticesInv, TellingsKept
  <2>3. served # NoRelease
    BY <1>0, ReleasesAreSome
  <2> DEFINE toTell == present \cap privileged
  <2>4. /\ notified' = toTell
        /\ told' \in [Admins -> [release : {NoRelease} \cup Releases, finding : Nat, times : Nat]]
        /\ \A p \in toTell : /\ told'[p].release = served /\ told'[p].finding = found'
                          /\ told'[p].times = told[p].times + 1
        /\ \A p \in Admins \ toTell : told'[p] = told[p]
    <3>1. toTell = {p \in present \cap privileged : served # NoRelease /\ p \notin {}}
      BY <2>3
    <3>2. told \in [Admins -> [release : {NoRelease} \cup Releases, finding : Nat, times : Nat]]
      BY DEF NoticesInv, TellingsKept
    <3> HIDE DEF toTell
    <3>3. served \in {NoRelease} \cup Releases /\ {} \in SUBSET Admins
      BY <1>0
    <3>4. /\ notified' = toTell
          /\ told' = [p \in Admins |-> IF p \in toTell
                        THEN [release |-> served, finding |-> found', times |-> told[p].times + 1]
                        ELSE told[p]]
      BY <2>1, <3>1 DEF Notified
    <3> QED BY <2>2, <3>1, <3>2, <3>3, <3>4, Telling
  <2>5. toTell \subseteq Admins
    BY <2>2
  <2> HIDE DEF toTell
  <2>6. \A p \in Admins : told[p].times \in Nat /\ told[p].times <= found
    BY DEF NoticesInv, TellingsKept
  <2>7. TellingsKept'
    <3>1. \A p \in Admins : told'[p].times <= found' /\ (p \notin toTell => told'[p].times < found')
      BY <2>1, <2>2, <2>4, <2>5, <2>6
    <3>2. (present' \cap privileged') \ promoted' \subseteq notified'
      BY <2>1, <2>4 DEF toTell
    <3> QED BY <2>1, <2>2, <2>4, <2>5, <3>1, <3>2 DEF NoticesInv, TellingsKept
  <2>8. NoticesTypeOK'
    <3>1. \A p \in Admins : told'[p].times \in 0..found'
      BY <2>2, <2>7 DEF TellingsKept
    <3> QED BY <1>0, <2>1, <2>2, <2>4, <2>5, <3>1 DEF NoticesInv, NoticesTypeOK, Releases
  <2>9. ASSUME EachAboveTheLast PROVE Newer(available)' /\ OnlyNewerTold'
    <3>1. served[1] > current
      BY <1>0, <1>3, <2>9, NewerIsHigher DEF NoticesInv, TellingsKept
    <3>2. \A p \in Admins : told'[p].times > 0 => told'[p].release[1] > current
      BY <2>4, <2>5, <2>9, <3>1 DEF NoticesInv, OnlyNewerTold
    <3> QED BY <2>1, <3>1, <3>2 DEF Newer, OnlyNewerTold
  <2> QED BY <2>1, <2>7, <2>8, <2>9 DEF NoticesInv, EachAboveTheLast
<1> QED BY <1>1, <1>2, <1>3

\* Whoever joins is told of the release that is available, once.
LEMMA JoinTells ==
    ASSUME NoticesInv, NEW p \in Admins, Joins(p) PROVE NoticesInv'
<1>1. /\ present' = present \cup {p} /\ promoted' = promoted \ {p}
      /\ UNCHANGED <<started, current, served, available, privileged, found>>
  BY DEF Joins
<1>2. CASE ~started
  <2>1. available = NoRelease /\ UNCHANGED <<notified, told>>
    BY <1>2 DEF Joins, NoticesInv, TellingsKept
  <2> QED BY <1>1, <2>1 DEF NoticesInv, NoticesTypeOK, TellingsKept, OnlyNewerTold, Newer, Releases
<1>3. CASE started
  <2> DEFINE toTell == {q \in {p} \cap privileged : available # NoRelease /\ q \notin notified}
  <2>1. available \in {NoRelease} \cup Releases /\ notified \in SUBSET Admins /\ found \in Nat
        /\ told \in [Admins -> [release : {NoRelease} \cup Releases, finding : Nat, times : Nat]]
    BY DEF NoticesInv, NoticesTypeOK, TellingsKept, Releases
  <2>2. Notified({p}, available, found, notified)
    BY <1>3 DEF Joins
  <2>3. /\ notified' = notified \cup toTell
        /\ told' \in [Admins -> [release : {NoRelease} \cup Releases, finding : Nat, times : Nat]]
        /\ \A q \in toTell : /\ told'[q].release = available /\ told'[q].finding = found
                          /\ told'[q].times = told[q].times + 1
        /\ \A q \in Admins \ toTell : told'[q] = told[q]
    <3>1. {p} \in SUBSET Admins
      OBVIOUS
    <3>2. toTell = {q \in {p} \cap privileged : available # NoRelease /\ q \notin notified}
      OBVIOUS
    <3>3. /\ notified' = notified \cup toTell
          /\ told' = [q \in Admins |-> IF q \in toTell
                        THEN [release |-> available, finding |-> found, times |-> told[q].times + 1]
                        ELSE told[q]]
      BY <2>2 DEF Notified
    <3> HIDE DEF toTell
    <3> QED BY <2>1, <3>1, <3>2, <3>3, Telling
  <2>4. /\ toTell \subseteq Admins \ notified /\ (available = NoRelease => toTell = {})
        /\ available # NoRelease /\ p \in privileged => p \in notified \cup toTell
    OBVIOUS
  <2> HIDE DEF toTell
  <2>5. \A q \in Admins : told[q].times \in Nat /\ told[q].times <= found
    BY DEF NoticesInv, TellingsKept
  <2>6. available # NoRelease => \A q \in Admins \ notified : told[q].times < found
    BY DEF NoticesInv, TellingsKept
  <2>7. TellingsKept'
    <3>1. \A q \in Admins : told'[q].times <= found
      BY <2>1, <2>3, <2>4, <2>5, <2>6
    <3>2. available # NoRelease => \A q \in Admins \ notified' : told'[q].times < found
      BY <2>3, <2>4, <2>6
    <3>3. available # NoRelease => (present' \cap privileged) \ promoted' \subseteq notified'
      BY <1>1, <2>3, <2>4 DEF NoticesInv, TellingsKept
    <3>4. \A q \in notified' : /\ told'[q].finding = found
                               /\ available # NoRelease => told'[q].release = available
      BY <2>3, <2>4 DEF NoticesInv, TellingsKept
    <3> QED BY <1>1, <2>1, <2>3, <2>4, <3>1, <3>2, <3>3, <3>4 DEF NoticesInv, TellingsKept
  <2>8. NoticesTypeOK'
    <3>1. \A q \in Admins : told'[q].times \in 0..found'
      BY <1>1, <2>1, <2>7 DEF TellingsKept
    <3> QED BY <1>1, <2>1, <2>3, <2>4, <3>1 DEF NoticesInv, NoticesTypeOK
  <2>9. ASSUME EachAboveTheLast PROVE Newer(available)' /\ OnlyNewerTold'
    <3>1. available # NoRelease => available[1] > current
      BY <2>9 DEF NoticesInv, Newer
    <3>2. \A q \in Admins : told'[q].times > 0 => told'[q].release[1] > current
      BY <2>3, <2>4, <2>9, <3>1 DEF NoticesInv, OnlyNewerTold
    <3> QED BY <1>1, <3>1, <3>2 DEF Newer, OnlyNewerTold
  <2> QED BY <1>1, <2>7, <2>8, <2>9 DEF NoticesInv, EachAboveTheLast
<1> QED BY <1>2, <1>3

\* Every step keeps the invariant.
LEMMA NoticesStepHolds == NoticesInv /\ [NoticesNext]_noticeVars => NoticesInv'
<1> SUFFICES ASSUME NoticesInv, [NoticesNext]_noticeVars PROVE NoticesInv'
  OBVIOUS
<1>1. CASE Check
  BY <1>1, CheckTells
<1>2. ASSUME NEW p \in Admins, Joins(p) PROVE NoticesInv'
  BY <1>2, JoinTells
<1>3. ASSUME NEW p \in Admins, Leaves(p) PROVE NoticesInv'
  BY <1>3 DEF Leaves, NoticesInv, NoticesTypeOK, TellingsKept, OnlyNewerTold, Newer, Releases
<1>4. ASSUME NEW p \in Admins, Permit(p) PROVE NoticesInv'
  BY <1>4 DEF Permit, NoticesInv, NoticesTypeOK, TellingsKept, OnlyNewerTold, Newer, Releases
<1>5. ASSUME NEW payload \in Releases, Release(payload) PROVE NoticesInv'
  BY <1>5 DEF Release, NoticesInv, NoticesTypeOK, TellingsKept, OnlyNewerTold, Newer, Releases
<1>6. CASE UNCHANGED noticeVars
  BY <1>6 DEF noticeVars, NoticesInv, NoticesTypeOK, TellingsKept, OnlyNewerTold, Newer, Releases
<1> QED BY <1>1, <1>2, <1>3, <1>4, <1>5, <1>6 DEF NoticesNext, Releases

\* Whatever is published, withdrawn and found again, and whoever leaves, rejoins or
\* changes rights meanwhile: every administrator is told of the release that is
\* available, once in a finding.
THEOREM EveryAdminTold == NoticesSpec => [](NoticesTypeOK /\ AdminsTold)
<1>1. NoticesInv => NoticesTypeOK /\ AdminsTold
  BY DEF NoticesInv, TellingsKept, AdminsTold
<1> QED BY <1>1, NoticesInitHolds, NoticesStepHolds, PTL DEF NoticesSpec

\* And where the releases are listed as semver.org orders them, of nothing but newer ones.
THEOREM ToldOnlyOfTheNewer == EachAboveTheLast => (NoticesSpec => []ToldOfTheNewer)
<1>1. NoticesInv /\ EachAboveTheLast => ToldOfTheNewer
  BY DEF NoticesInv, TellingsKept, AdminsTold, ToldOfTheNewer
<1>2. NoticesInit /\ EachAboveTheLast => NoticesInv /\ ToldOfTheNewer
  BY <1>1, NoticesInitHolds
<1> SUFFICES ASSUME EachAboveTheLast PROVE NoticesSpec => []ToldOfTheNewer
  OBVIOUS
<1>3. NoticesInv => ToldOfTheNewer
  BY <1>1
<1> QED BY <1>3, NoticesInitHolds, NoticesStepHolds, PTL DEF NoticesSpec

-----------------------------------------------------------------------------
(* ChatLog: every line written once, in its place and in time              *)

\* The remainder and the quotient of a number.
LEMMA Remainder ==
    ASSUME NEW n \in Nat, NEW m \in Nat \ {0}
    PROVE  n % m \in 0..(m - 1) /\ n \div m \in Nat /\ n = m * (n \div m) + (n % m)
  OBVIOUS

\* A quotient and a remainder determine each other.
LEMMA QuotientUnique ==
    ASSUME NEW a \in Int, NEW b \in Int, NEW m \in Nat \ {0}, NEW r \in 0..(m - 1), NEW s \in 0..(m - 1),
           m * a + r = m * b + s
    PROVE  a = b /\ r = s
<1>1. CASE a < b
  <2>1. m * (b - a) >= m /\ m * (b - a) = m * b - m * a
    BY <1>1
  <2> QED BY <2>1, <1>1
<1>2. CASE b < a
  <2>1. m * (a - b) >= m /\ m * (a - b) = m * a - m * b
    BY <1>2
  <2> QED BY <2>1, <1>2
<1>3. CASE a = b
  BY <1>3
<1> QED BY <1>1, <1>2, <1>3

\* A counter begins its interval again, or is one further in it.
LEMMA NextInInterval ==
    ASSUME NEW n \in Nat, NEW m \in Nat \ {0}
    PROVE  (n + 1) % m = 0 \/ (n + 1) % m = (n % m) + 1
<1> DEFINE a == n \div m
           b == (n + 1) \div m
           r == n % m
           s == (n + 1) % m
<1>1. a \in Nat /\ r \in 0..(m - 1) /\ n = m * a + r
  BY Remainder
<1>2. b \in Nat /\ s \in 0..(m - 1) /\ n + 1 = m * b + s
  <2>1. n + 1 \in Nat
    OBVIOUS
  <2> QED BY <2>1, Remainder
<1> HIDE DEF a, b, r, s
<1>3. CASE r + 1 < m
  <2>1. r + 1 \in 0..(m - 1) /\ m * a + (r + 1) = m * b + s
    BY <1>1, <1>2, <1>3
  <2>2. r + 1 = s
    BY <1>1, <1>2, <2>1, QuotientUnique
  <2> QED BY <2>2 DEF r, s
<1>4. CASE r + 1 = m
  <2>1. 0 \in 0..(m - 1) /\ m * (a + 1) + 0 = m * b + s
    <3>1. m * (a + 1) = m * a + m
      BY <1>1
    <3> QED BY <1>1, <1>2, <1>4, <3>1
  <2>2. 0 = s
    BY <1>1, <1>2, <2>1, QuotientUnique
  <2> QED BY <2>2 DEF s
<1> QED BY <1>1, <1>3, <1>4

\* The day of a moment, and the days as moments pass.
LEMMA DayOf ==
    ASSUME NEW t \in Nat
    PROVE  /\ t \div DayTicks \in Nat
           /\ (t \div DayTicks) * DayTicks <= t /\ t < (t \div DayTicks) * DayTicks + DayTicks
<1>1. DayTicks \in Nat \ {0}
  BY LogAssumption
<1> QED BY <1>1, Remainder

\* A later moment is not of an earlier day.
LEMMA DaysRise ==
    ASSUME NEW s \in Nat, NEW t \in Nat, s <= t
    PROVE  s \div DayTicks <= t \div DayTicks
<1> DEFINE a == s \div DayTicks
           b == t \div DayTicks
<1>1. /\ a \in Nat /\ a * DayTicks <= s /\ b \in Nat /\ t < b * DayTicks + DayTicks
      /\ DayTicks \in Nat \ {0}
  BY DayOf, LogAssumption
<1> HIDE DEF a, b
<1>2. CASE a >= b + 1
  <2>1. a * DayTicks >= (b + 1) * DayTicks /\ (b + 1) * DayTicks = b * DayTicks + DayTicks
    BY <1>1, <1>2
  <2>2. a * DayTicks \in Nat /\ b * DayTicks \in Nat
    BY <1>1
  <2> QED BY <1>1, <2>1, <2>2
<1>3. CASE a <= b
  BY <1>3 DEF a, b
<1> QED BY <1>1, <1>2, <1>3

Rising(s) == \A i, j \in DOMAIN s : i < j => s[i] < s[j]

\* What the files hold and what waits, of the lines logged so far; times are those of
\* the files, and each line that is nowhere is lost or expired.
Shaped(files, times, waiting, logged, now) ==
    /\ now \in Nat /\ logged \in Seq(Nat) /\ \A l \in DOMAIN logged : logged[l] <= now
    /\ waiting \in Seq(DOMAIN logged) /\ files \in [Days -> Seq(DOMAIN logged)]
    /\ times \in [Days -> Nat \cup {-1}]
Dated(files, times, logged, now) ==
    /\ \A d \in Days : files[d] # <<>> => times[d] # -1
    /\ \A d \in Days : times[d] # -1 => times[d] \div DayTicks = d /\ times[d] <= now
    /\ \A d \in Days : \A l \in Lines(files[d]) : logged[l] <= times[d]
Ordered(files, waiting) ==
    /\ Rising(waiting) /\ \A d \in Days : Rising(files[d])
    /\ \A d, e \in Days : d < e => \A l \in Lines(files[d]), m \in Lines(files[e]) : l < m
    /\ \A d \in Days : \A l \in Lines(files[d]), m \in Lines(waiting) : l < m
Filed(files) == UNION {Lines(files[d]) : d \in Days}
Accounts(files, times, waiting, lost, expired, logged, now) ==
    /\ Shaped(files, times, waiting, logged, now) /\ Dated(files, times, logged, now)
    /\ Ordered(files, waiting)
    /\ DOMAIN logged = Lines(waiting) \cup Filed(files) \cup lost \cup expired

\* The lines are numbered from 1.
LEMMA ShapedIs ==
    ASSUME NEW files, NEW times, NEW waiting, NEW logged, NEW now, Shaped(files, times, waiting, logged, now)
    PROVE  /\ now \in Nat /\ logged \in Seq(Nat) /\ Len(logged) \in Nat /\ DOMAIN logged = 1..Len(logged)
           /\ DOMAIN logged \in SUBSET Nat
           /\ \A l \in DOMAIN logged : logged[l] \in Nat /\ logged[l] <= now
           /\ waiting \in Seq(DOMAIN logged)
           /\ files \in [Days -> Seq(DOMAIN logged)] /\ times \in [Days -> Nat \cup {-1}]
<1>1. /\ now \in Nat /\ logged \in Seq(Nat) /\ \A l \in DOMAIN logged : logged[l] <= now
      /\ waiting \in Seq(DOMAIN logged)
      /\ files \in [Days -> Seq(DOMAIN logged)] /\ times \in [Days -> Nat \cup {-1}]
  BY Zenon DEF Shaped
<1>2. /\ Len(logged) \in Nat /\ DOMAIN logged = 1..Len(logged)
      /\ \A l \in DOMAIN logged : logged[l] \in Nat
  <2>1. logged \in Seq(Nat)
    BY <1>1
  <2> QED BY <2>1
<1>3. DOMAIN logged \in SUBSET Nat
  BY <1>2
<1> QED BY <1>1, <1>2, <1>3, Zenon

\* A sequence in two parts.
LEMMA PartsOf ==
    ASSUME NEW S \in SUBSET Nat, NEW s \in Seq(S), NEW n \in 0..Len(s)
    PROVE  /\ SubSeq(s, 1, n) \in Seq(S) /\ SubSeq(s, n + 1, Len(s)) \in Seq(S)
           /\ Lines(s) = Lines(SubSeq(s, 1, n)) \cup Lines(SubSeq(s, n + 1, Len(s)))
           /\ Rising(s) => Rising(SubSeq(s, 1, n)) /\ Rising(SubSeq(s, n + 1, Len(s)))
<1> DEFINE a == SubSeq(s, 1, n)
           b == SubSeq(s, n + 1, Len(s))
<1>1. a \in Seq(S) /\ Len(a) = n /\ \A i \in 1..n : a[i] = s[i]
  <2>1. SubSeq(s, 1, n) \in Seq(S)
    BY SubSeqProperties
  <2> QED BY <2>1, SubSeqProperties
<1>2. b \in Seq(S) /\ Len(b) = Len(s) - n /\ \A i \in 1..(Len(s) - n) : b[i] = s[n + i]
  BY SubSeqProperties
<1> HIDE DEF a, b
<1>3. DOMAIN a = 1..n /\ DOMAIN b = 1..(Len(s) - n) /\ DOMAIN s = 1..Len(s) /\ Len(s) \in Nat /\ n \in Nat
  BY <1>1, <1>2
<1>4. Lines(a) \cup Lines(b) \subseteq Lines(s)
  <2>1. \A i \in DOMAIN a : i \in DOMAIN s /\ a[i] = s[i]
    BY <1>1, <1>3
  <2>2. \A i \in DOMAIN b : n + i \in DOMAIN s /\ b[i] = s[n + i]
    BY <1>2, <1>3
  <2> QED BY <2>1, <2>2 DEF Lines, ToSet
<1>5. Lines(s) \subseteq Lines(a) \cup Lines(b)
  <2> SUFFICES ASSUME NEW i \in 1..Len(s) PROVE s[i] \in Lines(a) \cup Lines(b)
    BY <1>3 DEF Lines, ToSet
  <2>1. CASE i <= n
    BY <1>1, <1>3, <2>1 DEF Lines, ToSet
  <2>2. CASE i > n
    <3>1. i - n \in 1..(Len(s) - n) /\ n + (i - n) = i
      BY <1>3, <2>2
    <3>2. b[i - n] = s[i]
      BY <1>2, <3>1
    <3> QED BY <1>3, <3>1, <3>2 DEF Lines, ToSet
  <2> QED BY <1>3, <2>1, <2>2
<1>6. Rising(s) => Rising(a)
  BY <1>1, <1>3 DEF Rising
<1>7. Rising(s) => Rising(b)
  <2> SUFFICES ASSUME Rising(s), NEW i \in 1..(Len(s) - n), NEW j \in 1..(Len(s) - n), i < j PROVE b[i] < b[j]
    BY <1>3 DEF Rising
  <2>1. n + i \in DOMAIN s /\ n + j \in DOMAIN s /\ n + i < n + j
    BY <1>3
  <2>2. s[n + i] < s[n + j]
    BY <2>1 DEF Rising
  <2> QED BY <1>2, <2>2
<1> QED BY <1>1, <1>2, <1>4, <1>5, <1>6, <1>7 DEF a, b

\* One sequence behind another.
LEMMA Joined ==
    ASSUME NEW S \in SUBSET Nat, NEW s \in Seq(S), NEW t \in Seq(S)
    PROVE  /\ s \o t \in Seq(S) /\ Lines(s \o t) = Lines(s) \cup Lines(t)
           /\ Rising(s) /\ Rising(t) /\ (\A l \in Lines(s), m \in Lines(t) : l < m) => Rising(s \o t)
<1> DEFINE a == s \o t
<1>1. /\ a \in Seq(S) /\ Len(a) = Len(s) + Len(t)
      /\ \A i \in 1..Len(s) : a[i] = s[i]
      /\ \A i \in 1..Len(t) : a[Len(s) + i] = t[i]
  BY ConcatProperties
<1> HIDE DEF a
<1>2. DOMAIN a = 1..(Len(s) + Len(t)) /\ DOMAIN s = 1..Len(s) /\ DOMAIN t = 1..Len(t)
      /\ Len(s) \in Nat /\ Len(t) \in Nat
  BY <1>1
<1>3. \A i \in DOMAIN a : \/ i \in DOMAIN s /\ a[i] = s[i]
                          \/ i - Len(s) \in DOMAIN t /\ a[i] = t[i - Len(s)] /\ i > Len(s)
  <2> SUFFICES ASSUME NEW i \in DOMAIN a
               PROVE  \/ i \in DOMAIN s /\ a[i] = s[i]
                      \/ i - Len(s) \in DOMAIN t /\ a[i] = t[i - Len(s)] /\ i > Len(s)
    OBVIOUS
  <2>1. CASE i <= Len(s)
    BY <1>1, <1>2, <2>1
  <2>2. CASE i > Len(s)
    <3>1. i - Len(s) \in 1..Len(t) /\ Len(s) + (i - Len(s)) = i
      BY <1>2, <2>2
    <3> QED BY <1>1, <1>2, <2>2, <3>1
  <2> QED BY <1>2, <2>1, <2>2
<1>4. Lines(a) \subseteq Lines(s) \cup Lines(t)
  BY <1>3 DEF Lines, ToSet
<1>5. Lines(s) \cup Lines(t) \subseteq Lines(a)
  <2>1. \A i \in DOMAIN s : i \in DOMAIN a /\ a[i] = s[i]
    BY <1>1, <1>2
  <2>2. \A i \in DOMAIN t : Len(s) + i \in DOMAIN a /\ a[Len(s) + i] = t[i]
    BY <1>1, <1>2
  <2> QED BY <2>1, <2>2 DEF Lines, ToSet
<1>6. ASSUME Rising(s), Rising(t), \A l \in Lines(s), m \in Lines(t) : l < m PROVE Rising(a)
  <2> SUFFICES ASSUME NEW i \in DOMAIN a, NEW j \in DOMAIN a, i < j PROVE a[i] < a[j]
    BY DEF Rising
  <2>1. (\A k \in DOMAIN s : s[k] \in Lines(s)) /\ (\A k \in DOMAIN t : t[k] \in Lines(t))
    BY DEF Lines, ToSet
  <2>2. CASE i \in DOMAIN s /\ j \in DOMAIN s /\ a[i] = s[i] /\ a[j] = s[j]
    BY <1>6, <2>2 DEF Rising
  <2>3. CASE i \in DOMAIN s /\ a[i] = s[i] /\ j - Len(s) \in DOMAIN t /\ a[j] = t[j - Len(s)]
    BY <1>6, <2>1, <2>3
  <2>4. CASE i - Len(s) \in DOMAIN t /\ a[i] = t[i - Len(s)] /\ j - Len(s) \in DOMAIN t /\ a[j] = t[j - Len(s)]
    <3>1. i - Len(s) < j - Len(s)
      BY <1>2
    <3> QED BY <1>6, <2>4, <3>1 DEF Rising
  <2>5. CASE i > Len(s) /\ j \in DOMAIN s
    BY <1>2, <2>5
  <2> QED BY <1>3, <2>2, <2>3, <2>4, <2>5
<1> QED BY <1>1, <1>4, <1>5, <1>6 DEF a

\* Time passes.
LEMMA HoldsLater ==
    ASSUME NEW files, NEW times, NEW waiting, NEW lost, NEW expired, NEW logged, NEW now, NEW later \in Nat,
           Accounts(files, times, waiting, lost, expired, logged, now), now <= later
    PROVE  Accounts(files, times, waiting, lost, expired, logged, later)
<1>1. Shaped(files, times, waiting, logged, later)
  <2>1. now \in Nat /\ \A l \in DOMAIN logged : logged[l] \in Nat /\ logged[l] <= now
    BY ShapedIs DEF Accounts
  <2>2. \A l \in DOMAIN logged : logged[l] <= later
    BY <2>1
  <2> QED BY <2>2 DEF Accounts, Shaped
<1>2. Dated(files, times, logged, later)
  <2>1. now \in Nat /\ times \in [Days -> Nat \cup {-1}] /\ \A d \in Days : times[d] # -1 => times[d] <= now
    BY DEF Accounts, Shaped, Dated
  <2>2. \A d \in Days : times[d] # -1 => times[d] <= later
    BY <2>1
  <2> QED BY <2>2 DEF Accounts, Dated
<1> QED BY <1>1, <1>2 DEF Accounts

\* A write puts a beginning of what waits behind the lines of the day; the rest is lost.
LEMMA HoldsWritten ==
    ASSUME NEW files, NEW times, NEW waiting, NEW lost, NEW expired, NEW logged, NEW now,
           Accounts(files, times, waiting, lost, expired, logged, now), now <= MaxTime,
           NEW n \in 0..Len(waiting), NEW day, day = now \div DayTicks
    PROVE  /\ day \in Days
           /\ Accounts([files EXCEPT ![day] = files[day] \o SubSeq(waiting, 1, n)], [times EXCEPT ![day] = now],
                    <<>>, lost \cup Lines(SubSeq(waiting, n + 1, Len(waiting))), expired, logged, now)
<1> DEFINE front == SubSeq(waiting, 1, n)
           rest == SubSeq(waiting, n + 1, Len(waiting))
           whole == files[day] \o front
           newFiles == [files EXCEPT ![day] = whole]
           newTimes == [times EXCEPT ![day] = now]
           S == DOMAIN logged
<1>1. now \in Nat /\ S \in SUBSET Nat /\ waiting \in Seq(S) /\ files \in [Days -> Seq(S)]
      /\ times \in [Days -> Nat \cup {-1}]
  BY ShapedIs DEF Accounts
<1>2. day \in Days /\ day \in Nat
  <2>1. day \in Nat /\ MaxTime \in Nat /\ day <= MaxTime \div DayTicks /\ MaxTime \div DayTicks \in Nat
    BY <1>1, DayOf, DaysRise, LogAssumption
  <2> QED BY <2>1 DEF Days
<1>3. /\ front \in Seq(S) /\ Lines(waiting) = Lines(front) \cup Lines(rest)
      /\ Rising(front)
  BY <1>1, PartsOf DEF Accounts, Ordered
<1>4. files[day] \in Seq(S) /\ \A l \in Lines(files[day]), m \in Lines(front) : l < m
  BY <1>1, <1>2, <1>3 DEF Accounts, Ordered
<1>5. /\ whole \in Seq(S) /\ Lines(whole) = Lines(files[day]) \cup Lines(front)
      /\ Rising(whole)
  <2>1. Rising(files[day])
    BY <1>2 DEF Accounts, Ordered
  <2> HIDE DEF front, S
  <2> QED BY <1>1, <1>3, <1>4, <2>1, Joined
<1> HIDE DEF front, rest, whole
<1>6. /\ newFiles \in [Days -> Seq(S)] /\ newFiles[day] = whole /\ \A d \in Days : d # day => newFiles[d] = files[d]
      /\ newTimes \in [Days -> Nat \cup {-1}] /\ newTimes[day] = now /\ \A d \in Days : d # day => newTimes[d] = times[d]
  BY <1>1, <1>2, <1>5 DEF Accounts, Shaped
\* No file of a later day has been written.
<1>7. \A d \in Days : d > day => files[d] = <<>>
  <2> SUFFICES ASSUME NEW d \in Days, d > day, files[d] # <<>> PROVE FALSE
    OBVIOUS
  <2>1. times[d] \in Nat /\ times[d] \div DayTicks = d /\ times[d] <= now
    BY DEF Accounts, Dated, Shaped
  <2>2. d <= day
    BY <1>1, <2>1, DaysRise
  <2>3. d \in Int
    BY DEF Days
  <2> QED BY <1>2, <2>2, <2>3
<1>8. Lines(<<>>) = {}
  BY DEF Lines, ToSet
<1> HIDE DEF newFiles, newTimes
<1>9. \A d \in Days : newTimes[d] # -1 => newTimes[d] \div DayTicks = d /\ newTimes[d] <= now
  <2> SUFFICES ASSUME NEW d \in Days, newTimes[d] # -1 PROVE newTimes[d] \div DayTicks = d /\ newTimes[d] <= now
    OBVIOUS
  <2>1. CASE d = day
    <3>1. newTimes[d] = now /\ now <= now
      BY <1>1, <1>6, <2>1
    <3> QED BY <2>1, <3>1
  <2>2. CASE d # day
    <3>1. newTimes[d] = times[d]
      BY <1>6, <2>2
    <3> QED BY <3>1 DEF Accounts, Dated
  <2> QED BY <2>1, <2>2
<1>10. \A d \in Days : \A l \in Lines(newFiles[d]) : logged[l] <= newTimes[d]
  <2>1. \A l \in S : logged[l] <= now
    BY DEF Accounts, Shaped
  <2>2. Lines(whole) \subseteq S
    BY <1>5 DEF Lines, ToSet
  <2> QED BY <1>6, <2>1, <2>2 DEF Accounts, Dated
<1>11. \A d, e \in Days : d < e => \A l \in Lines(newFiles[d]), m \in Lines(newFiles[e]) : l < m
  <2> SUFFICES ASSUME NEW d \in Days, NEW e \in Days, d < e, NEW l \in Lines(newFiles[d]), NEW m \in Lines(newFiles[e])
               PROVE  l < m
    OBVIOUS
  <2>1. d \in Int /\ e \in Int
    BY DEF Days
  <2>2. CASE d # day /\ e # day
    BY <1>6, <2>2 DEF Accounts, Ordered
  <2>3. CASE d = day
    <3>1. newFiles[e] = <<>>
      BY <1>2, <1>6, <1>7, <2>1, <2>3
    <3> QED BY <1>8, <3>1
  <2>4. CASE e = day
    <3>1. l \in Lines(files[d]) /\ m \in Lines(files[e]) \cup Lines(front)
      BY <1>5, <1>6, <2>1, <2>4
    <3> QED BY <1>3, <3>1 DEF Accounts, Ordered
  <2> QED BY <2>2, <2>3, <2>4
<1>12. S = Lines(<<>>) \cup Filed(newFiles)
             \cup (lost \cup Lines(rest)) \cup expired
  <2>1. S = Lines(waiting) \cup Filed(files) \cup lost \cup expired
    BY DEF Accounts
  <2>2. Filed(newFiles) = Filed(files) \cup Lines(front)
    <3>1. \A d \in Days : Lines(files[d]) \subseteq Lines(newFiles[d]) /\ Lines(newFiles[d]) \subseteq Lines(files[d]) \cup Lines(front)
      BY <1>5, <1>6
    <3>2. Lines(front) \subseteq Lines(newFiles[day])
      BY <1>5, <1>6
    <3> QED BY <1>2, <3>1, <3>2 DEF Filed
  <2> QED BY <1>3, <1>8, <2>1, <2>2
<1>13. Rising(<<>>) /\ \A d \in Days : Rising(newFiles[d])
  BY <1>5, <1>6 DEF Accounts, Ordered, Rising
<1>14. \A d \in Days : newFiles[d] # <<>> => newTimes[d] # -1
  BY <1>1, <1>6 DEF Accounts, Dated
<1>15. Accounts(newFiles, newTimes, <<>>, lost \cup Lines(rest), expired, logged, now)
  <2>1. Shaped(newFiles, newTimes, <<>>, logged, now)
    <3>1. <<>> \in Seq(DOMAIN logged)
      OBVIOUS
    <3> QED BY <1>6, <3>1 DEF Accounts, Shaped
  <2>2. Dated(newFiles, newTimes, logged, now)
    BY <1>9, <1>10, <1>14 DEF Dated
  <2>3. Ordered(newFiles, <<>>)
    BY <1>8, <1>11, <1>13 DEF Ordered
  <2> QED BY <1>12, <2>1, <2>2, <2>3 DEF Accounts
<1> QED BY <1>2, <1>15 DEF newFiles, newTimes, whole, rest, front

\* Files are deleted.
LEMMA HoldsDeleted ==
    ASSUME NEW files, NEW times, NEW waiting, NEW lost, NEW expired, NEW logged, NEW now, NEW old \in SUBSET Days,
           Accounts(files, times, waiting, lost, expired, logged, now)
    PROVE  Accounts([d \in Days |-> IF d \in old THEN <<>> ELSE files[d]],
                 [d \in Days |-> IF d \in old THEN -1 ELSE times[d]], waiting, lost,
                 expired \cup UNION {Lines(files[d]) : d \in old}, logged, now)
<1> DEFINE left == [d \in Days |-> IF d \in old THEN <<>> ELSE files[d]]
           leftTimes == [d \in Days |-> IF d \in old THEN -1 ELSE times[d]]
<1>1. /\ left \in [Days -> Seq(DOMAIN logged)] /\ leftTimes \in [Days -> Nat \cup {-1}]
      /\ \A d \in Days : IF d \in old THEN left[d] = <<>> /\ leftTimes[d] = -1
                         ELSE left[d] = files[d] /\ leftTimes[d] = times[d]
  BY DEF Accounts, Shaped
<1>2. Lines(<<>>) = {} /\ Rising(<<>>)
  BY DEF Lines, ToSet, Rising
<1> HIDE DEF left, leftTimes
<1>3. Filed(files) = Filed(left) \cup UNION {Lines(files[d]) : d \in old}
  <2>1. \A d \in Days : Lines(left[d]) \subseteq Lines(files[d]) /\ (d \notin old => Lines(left[d]) = Lines(files[d]))
    BY <1>1, <1>2
  <2> QED BY <2>1 DEF Filed
<1>4. DOMAIN logged = Lines(waiting) \cup Filed(left) \cup lost
                        \cup (expired \cup UNION {Lines(files[d]) : d \in old})
  BY <1>3 DEF Accounts
<1>5. \A d \in Days : left[d] # <<>> => d \notin old
  BY <1>1
<1>6. \A d \in Days : \A l \in Lines(left[d]) : d \notin old /\ l \in Lines(files[d])
  BY <1>1, <1>2
<1>7. Accounts(left, leftTimes, waiting, lost, expired \cup UNION {Lines(files[d]) : d \in old}, logged, now)
  BY <1>1, <1>2, <1>4, <1>5, <1>6 DEF Accounts, Shaped, Dated, Ordered
<1> QED BY <1>7 DEF left, leftTimes

\* What waits is forgotten.
LEMMA HoldsForgotten ==
    ASSUME NEW files, NEW times, NEW waiting, NEW lost, NEW expired, NEW logged, NEW now,
           Accounts(files, times, waiting, lost, expired, logged, now)
    PROVE  Accounts(files, times, <<>>, lost \cup Lines(waiting), expired, logged, now)
<1>1. Lines(<<>>) = {} /\ Rising(<<>>)
  BY DEF Lines, ToSet, Rising
<1>2. Ordered(files, <<>>) /\ <<>> \in Seq(DOMAIN logged)
  BY <1>1 DEF Accounts, Ordered
<1> QED BY <1>1, <1>2 DEF Accounts, Shaped

\* A line is logged.
LEMMA HoldsLogged ==
    ASSUME NEW files, NEW times, NEW waiting, NEW lost, NEW expired, NEW logged, NEW now,
           Accounts(files, times, waiting, lost, expired, logged, now)
    PROVE  Accounts(files, times, Append(waiting, Len(logged) + 1), lost, expired, Append(logged, now), now)
<1> DEFINE l == Len(logged) + 1
           more == Append(logged, now)
           queue == Append(waiting, l)
<1>1. /\ logged \in Seq(Nat) /\ now \in Nat /\ DOMAIN logged = 1..Len(logged) /\ Len(logged) \in Nat
      /\ waiting \in Seq(DOMAIN logged)
  BY ShapedIs DEF Accounts
<1>2. /\ more \in Seq(Nat) /\ DOMAIN more = 1..l /\ l \in Nat /\ l \notin DOMAIN logged
      /\ DOMAIN more = DOMAIN logged \cup {l} /\ more[l] = now
      /\ \A i \in DOMAIN logged : more[i] = logged[i]
  BY <1>1, AppendProperties
<1>3. /\ queue \in Seq(DOMAIN more) /\ Lines(queue) = Lines(waiting) \cup {l}
      /\ DOMAIN queue = DOMAIN waiting \cup {Len(waiting) + 1} /\ queue[Len(waiting) + 1] = l
      /\ \A i \in DOMAIN waiting : queue[i] = waiting[i] /\ waiting[i] \in DOMAIN logged
  <2>1. waiting \in Seq(DOMAIN more) /\ l \in DOMAIN more
    BY <1>1, <1>2
  <2> HIDE DEF l
  <2>2. /\ queue \in Seq(DOMAIN more) /\ Len(queue) = Len(waiting) + 1 /\ Len(waiting) \in Nat
        /\ DOMAIN waiting = 1..Len(waiting) /\ DOMAIN queue = 1..(Len(waiting) + 1)
        /\ queue[Len(waiting) + 1] = l
        /\ \A i \in DOMAIN waiting : queue[i] = waiting[i] /\ waiting[i] \in DOMAIN logged
    BY <1>1, <2>1, AppendProperties
  <2>3. DOMAIN queue = DOMAIN waiting \cup {Len(waiting) + 1}
    BY <2>2
  <2>4. Lines(queue) = Lines(waiting) \cup {l}
    BY <2>2, <2>3 DEF Lines, ToSet
  <2> QED BY <2>2, <2>3, <2>4
<1>4. \A d \in Days : files[d] \in Seq(DOMAIN more) /\ Lines(files[d]) \subseteq DOMAIN logged
  <2> SUFFICES ASSUME NEW d \in Days PROVE files[d] \in Seq(DOMAIN more) /\ Lines(files[d]) \subseteq DOMAIN logged
    OBVIOUS
  <2>1. files[d] \in Seq(DOMAIN logged) /\ DOMAIN logged \subseteq DOMAIN more
    BY <1>2, ShapedIs DEF Accounts
  <2> DEFINE A == DOMAIN logged
             B == DOMAIN more
  <2> HIDE DEF A, B
  <2>2. files[d] \in Seq(A) /\ A \subseteq B
    BY <2>1 DEF A, B
  <2>3. files[d] \in Seq(B) /\ Lines(files[d]) \subseteq A
    BY <2>2 DEF Lines, ToSet
  <2> QED BY <2>3 DEF A, B
<1>5. files \in [Days -> Seq(DOMAIN more)]
  BY <1>4 DEF Accounts, Shaped
<1>6. \A i \in DOMAIN logged : i < l
  BY <1>1
<1> HIDE DEF l, more, queue
<1>7. Rising(queue)
  <2> SUFFICES ASSUME NEW i \in DOMAIN queue, NEW j \in DOMAIN queue, i < j PROVE queue[i] < queue[j]
    BY DEF Rising
  <2>1. DOMAIN waiting = 1..Len(waiting) /\ Len(waiting) \in Nat
    BY <1>1
  <2>2. i \in DOMAIN waiting
    BY <1>3, <2>1
  <2>3. CASE j \in DOMAIN waiting
    BY <1>3, <2>2, <2>3 DEF Accounts, Ordered, Rising
  <2>4. CASE j = Len(waiting) + 1
    BY <1>3, <1>6, <2>2, <2>4
  <2> QED BY <1>3, <2>3, <2>4
<1>8. \A d \in Days : \A k \in Lines(files[d]), m \in Lines(queue) : k < m
  BY <1>3, <1>4, <1>6 DEF Accounts, Ordered
<1>9. \A d \in Days : \A k \in Lines(files[d]) : more[k] <= times[d]
  BY <1>2, <1>4 DEF Accounts, Dated
<1>10. DOMAIN more = Lines(queue) \cup Filed(files) \cup lost \cup expired
  BY <1>2, <1>3 DEF Accounts
<1>11. \A k \in DOMAIN more : more[k] <= now
  <2>1. \A k \in DOMAIN logged : logged[k] <= now
    BY ShapedIs DEF Accounts
  <2>2. now <= now
    BY <1>1
  <2> QED BY <1>2, <2>1, <2>2
<1>12. Accounts(files, times, queue, lost, expired, more, now)
  BY <1>1, <1>2, <1>3, <1>5, <1>7, <1>8, <1>9, <1>10, <1>11 DEF Accounts, Shaped, Dated, Ordered
<1> QED BY <1>12 DEF l, more, queue

\* The timing: what is written when, and what is deleted when.
Window == retention * DayTicks
Prompt == failures = 0 /\ up => \A l \in Lines(pending) : time - loggedAt[l] <= ticks % FlushInterval
Begun == failures = 0 => \A d \in Days : \A l \in Lines(logFiles[d]) : d * DayTicks <= loggedAt[l] + FlushInterval
Outlived == \A l \in gone.expired : time - loggedAt[l] > Window
Swept == up /\ retention > 0 =>
    \A d \in Days : modified[d] # -1 => modified[d] >= time - Window - (ticks % CleanupInterval)

LogInv ==
    /\ Accounts(logFiles, modified, pending, gone.lost, gone.expired, loggedAt, time)
    /\ retention \in Int /\ time <= MaxTime /\ ticks \in 0..time /\ up \in BOOLEAN /\ failures \in Nat
    /\ gone = [lost |-> gone.lost, expired |-> gone.expired]
    /\ ~up => pending = <<>>
    /\ Prompt /\ Begun /\ Outlived /\ Swept

\* What the log holds at a moment, if nothing happens until then.
HoldsAt(at) == Accounts(logFiles, modified, pending, gone.lost, gone.expired, loggedAt, at)

\* A flush writes what waits or a beginning of it, or nothing.
LEMMA FlushIs ==
    ASSUME NEW at, Len(pending) \in Nat, NEW flush \in Flushes(at)
    PROVE  \/ flush = Untouched(FALSE) /\ pending = <<>>
           \/ flush = Untouched(TRUE)
           \/ \E n \in 0..Len(pending) : flush = WrittenUpTo(at, n)
<1>1. CASE pending = <<>>
  BY <1>1 DEF Flushes
<1>2. CASE pending # <<>>
  <2>1. \/ flush = WrittenUpTo(at, Len(pending))
        \/ flush = Untouched(TRUE)
        \/ \E n \in 0..(Len(pending) - 1) : flush = WrittenUpTo(at, n)
    BY <1>2, Zenon DEF Flushes
  <2>2. Len(pending) \in 0..Len(pending) /\ \A n \in 0..(Len(pending) - 1) : n \in 0..Len(pending)
    OBVIOUS
  <2> QED BY <2>1, <2>2, Zenon
<1> QED BY <1>1, <1>2

\* A flush leaves everything somewhere, and what it writes is of the day.
LEMMA FlushHolds ==
    ASSUME NEW at, HoldsAt(at), at <= MaxTime, NEW flush \in Flushes(at) \cup {Untouched(FALSE)}
    PROVE  /\ Accounts(flush.files, flush.times, flush.left, gone.lost \cup flush.lost, gone.expired, loggedAt, at)
           /\ flush.failed \in BOOLEAN /\ flush.left \in {<<>>, pending}
           /\ flush \in Flushes(at) /\ ~flush.failed => flush.left = <<>>
           /\ \A d \in Days : flush.times[d] \in {modified[d], at}
           /\ \A d \in Days : \A l \in Lines(flush.files[d]) :
                l \in Lines(logFiles[d]) \/ (d = at \div DayTicks /\ l \in Lines(pending))
<1>0. Len(pending) \in Nat
  BY ShapedIs DEF HoldsAt, Accounts
<1>1. CASE flush \in {Untouched(TRUE), Untouched(FALSE)}
  <2>1. /\ flush.files = logFiles /\ flush.times = modified /\ flush.left = pending /\ flush.lost = {}
        /\ flush.failed \in BOOLEAN
    <3>1. CASE flush = Untouched(TRUE)
      BY <3>1 DEF Untouched
    <3>2. CASE flush = Untouched(FALSE)
      BY <3>2 DEF Untouched
    <3> QED BY <1>1, <3>1, <3>2
  <2>2. flush \in Flushes(at) /\ ~flush.failed => flush.left = <<>>
    <3>1. CASE pending = <<>>
      BY <2>1, <3>1
    <3>2. CASE pending # <<>>
      <4>1. flush \in Flushes(at) =>
              flush = Untouched(TRUE) \/ \E n \in 0..Len(pending) : flush = WrittenUpTo(at, n)
        BY <1>0, <3>2, FlushIs
      <4>2. Untouched(TRUE).failed = TRUE /\ \A n \in 0..Len(pending) : WrittenUpTo(at, n).left = <<>>
        BY DEF Untouched, WrittenUpTo
      <4> QED BY <4>1, <4>2
    <3> QED BY <3>1, <3>2
  <2>3. gone.lost \cup {} = gone.lost
    OBVIOUS
  <2> QED BY <2>1, <2>2, <2>3 DEF HoldsAt
<1>2. ASSUME NEW n \in 0..Len(pending), flush = WrittenUpTo(at, n)
      PROVE  /\ Accounts(flush.files, flush.times, flush.left, gone.lost \cup flush.lost, gone.expired, loggedAt, at)
             /\ flush.failed \in BOOLEAN /\ flush.left = <<>>
             /\ \A d \in Days : flush.times[d] \in {modified[d], at}
             /\ \A d \in Days : \A l \in Lines(flush.files[d]) :
                  l \in Lines(logFiles[d]) \/ (d = at \div DayTicks /\ l \in Lines(pending))
  <2> DEFINE day == at \div DayTicks
             front == SubSeq(pending, 1, n)
             rest == SubSeq(pending, n + 1, Len(pending))
             S == DOMAIN loggedAt
  <2>1. /\ flush.files = [logFiles EXCEPT ![day] = logFiles[day] \o front]
        /\ flush.times = [modified EXCEPT ![day] = at] /\ flush.left = <<>> /\ flush.lost = Lines(rest)
        /\ flush.failed \in BOOLEAN
    BY <1>2 DEF WrittenUpTo
  <2>2. /\ day \in Days
        /\ Accounts([logFiles EXCEPT ![day] = logFiles[day] \o front], [modified EXCEPT ![day] = at],
                 <<>>, gone.lost \cup Lines(rest), gone.expired, loggedAt, at)
    BY HoldsWritten DEF HoldsAt
  <2>3. /\ S \in SUBSET Nat /\ pending \in Seq(S) /\ logFiles \in [Days -> Seq(S)]
        /\ modified \in [Days -> Nat \cup {-1}]
    BY ShapedIs DEF HoldsAt, Accounts
  <2>4. front \in Seq(S) /\ Lines(front) \subseteq Lines(pending)
    BY <2>3, PartsOf
  <2> HIDE DEF front, rest, S, day
  <2>5. Lines(logFiles[day] \o front) = Lines(logFiles[day]) \cup Lines(front)
    BY <2>2, <2>3, <2>4, Joined
  <2>6. \A d \in Days : /\ flush.files[d] = IF d = day THEN logFiles[day] \o front ELSE logFiles[d]
                        /\ flush.times[d] \in {modified[d], at}
    BY <2>1, <2>3
  <2> QED BY <2>1, <2>2, <2>4, <2>5, <2>6 DEF day
<1>3. CASE \E n \in 0..Len(pending) : flush = WrittenUpTo(at, n)
  BY <1>2, <1>3
<1>4. \/ flush \in {Untouched(TRUE), Untouched(FALSE)}
      \/ \E n \in 0..Len(pending) : flush = WrittenUpTo(at, n)
  BY <1>0, FlushIs
<1> QED BY <1>1, <1>3, <1>4

\* What is kept of it.
LEMMA KeptHolds ==
    ASSUME NEW files, NEW times, NEW left, NEW lost, NEW old \in SUBSET Days, NEW at,
           Accounts(files, times, left, gone.lost \cup lost, gone.expired, loggedAt, at),
           time' = at, loggedAt' = loggedAt, pending' = left,
           logFiles' = [d \in Days |-> IF d \in old THEN <<>> ELSE files[d]],
           modified' = [d \in Days |-> IF d \in old THEN -1 ELSE times[d]],
           gone' = [lost |-> gone.lost \cup lost,
                    expired |-> gone.expired \cup UNION {Lines(files[d]) : d \in old}]
    PROVE  /\ HoldsAt(time)' /\ (gone = [lost |-> gone.lost, expired |-> gone.expired])'
           /\ gone'.expired = gone.expired \cup UNION {Lines(files[d]) : d \in old}
           /\ \A d \in Days : \A l \in Lines(logFiles'[d]) : l \in Lines(files[d])
           /\ \A d \in Days : modified'[d] # -1 => d \notin old /\ modified'[d] = times[d]
<1>1. gone'.lost = gone.lost \cup lost /\ gone'.expired = gone.expired \cup UNION {Lines(files[d]) : d \in old}
  OBVIOUS
<1>2. Accounts([d \in Days |-> IF d \in old THEN <<>> ELSE files[d]],
            [d \in Days |-> IF d \in old THEN -1 ELSE times[d]], left, gone.lost \cup lost,
            gone.expired \cup UNION {Lines(files[d]) : d \in old}, loggedAt, at)
  BY HoldsDeleted
<1>3. HoldsAt(time)'
  BY <1>1, <1>2 DEF HoldsAt
<1>4. Lines(<<>>) = {}
  BY DEF Lines, ToSet
<1>5. \A d \in Days : \A l \in Lines(logFiles'[d]) : l \in Lines(files[d])
  BY <1>4
<1>6. \A d \in Days : modified'[d] # -1 => d \notin old /\ modified'[d] = times[d]
  OBVIOUS
<1> QED BY <1>1, <1>3, <1>5, <1>6

\* What is deleted is old.
LEMMA DeletedAreOld ==
    ASSUME NEW files, NEW times, NEW left, NEW lost, NEW at,
           Accounts(files, times, left, gone.lost \cup lost, gone.expired, loggedAt, at),
           Outlived, time \in Nat, time <= at, retention \in Int,
           NEW old, old \subseteq Expired(times, at)
    PROVE  \A l \in gone.expired \cup UNION {Lines(files[d]) : d \in old} : at - loggedAt[l] > Window
<1>1. at \in Nat /\ \A l \in DOMAIN loggedAt : loggedAt[l] \in Nat
  BY ShapedIs DEF Accounts
<1>2. Window \in Int
  <2>1. DayTicks \in Nat
    BY LogAssumption
  <2> QED BY <2>1 DEF Window
<1>3. gone.expired \subseteq DOMAIN loggedAt
  BY DEF Accounts
<1>4. ASSUME NEW l \in gone.expired PROVE at - loggedAt[l] > Window
  <2>1. time - loggedAt[l] > Window /\ loggedAt[l] \in Nat
    BY <1>1, <1>3 DEF Outlived
  <2> QED BY <1>1, <1>2, <2>1
<1>5. ASSUME NEW d \in old, NEW l \in Lines(files[d]) PROVE at - loggedAt[l] > Window
  <2>1. d \in Days /\ times[d] < at - Window /\ times[d] # -1
    BY DEF Expired, Window
  <2>2. times[d] \in Nat
    <3>1. times \in [Days -> Nat \cup {-1}]
      BY ShapedIs DEF Accounts
    <3> QED BY <2>1, <3>1
  <2>3. loggedAt[l] <= times[d]
    BY <2>1 DEF Accounts, Dated
  <2>4. l \in DOMAIN loggedAt
    <3>1. files \in [Days -> Seq(DOMAIN loggedAt)]
      BY ShapedIs DEF Accounts
    <3>2. files[d] \in Seq(DOMAIN loggedAt)
      BY <2>1, <3>1
    <3> QED BY <3>2 DEF Lines, ToSet
  <2> QED BY <1>1, <1>2, <2>1, <2>2, <2>3, <2>4
<1> QED BY <1>4, <1>5

\* Initially there are no lines.
LEMMA LogInitHolds == LogInit => LogInv
<1> SUFFICES ASSUME LogInit PROVE LogInv
  OBVIOUS
<1>1. Lines(<<>>) = {} /\ Rising(<<>>)
  BY DEF Lines, ToSet, Rising
<1>2. Shaped(logFiles, modified, pending, loggedAt, time)
  <2>1. <<>> \in Seq(Nat) /\ DOMAIN <<>> = {} /\ <<>> \in Seq({})
    OBVIOUS
  <2>2. logFiles \in [Days -> Seq({})] /\ modified \in [Days -> Nat \cup {-1}]
    BY <2>1 DEF LogInit
  <2> QED BY <2>1, <2>2 DEF LogInit, Shaped
<1>3. Dated(logFiles, modified, loggedAt, time)
  BY <1>1 DEF LogInit, Dated
<1>4. Ordered(logFiles, pending)
  BY <1>1 DEF LogInit, Ordered
<1>5. DOMAIN loggedAt = Lines(pending) \cup Filed(logFiles) \cup gone.lost \cup gone.expired
  BY <1>1 DEF LogInit, Filed
<1>6. retention \in Int /\ time <= MaxTime /\ ticks \in 0..time
  BY LogAssumption DEF LogInit
<1>7. Prompt /\ Begun /\ Outlived /\ Swept
  BY <1>1 DEF LogInit, Prompt, Begun, Outlived, Swept
<1> QED BY <1>2, <1>3, <1>4, <1>5, <1>6, <1>7 DEF LogInit, LogInv, Accounts

\* The numbers the timing is about.
LEMMA Measures ==
    ASSUME LogInv
    PROVE  /\ time \in Nat /\ ticks \in Nat /\ Window \in Int /\ (retention > 0 => Window > 0)
           /\ FlushInterval \in Nat \ {0} /\ CleanupInterval \in Nat \ {0} /\ MaxTime \in Nat
           /\ ticks % FlushInterval \in 0..(FlushInterval - 1) /\ ticks % CleanupInterval \in Nat
           /\ (ticks + 1) % FlushInterval \in 0..(FlushInterval - 1) /\ (ticks + 1) % CleanupInterval \in Nat
           /\ \A l \in DOMAIN loggedAt : loggedAt[l] \in Nat
           /\ Lines(pending) \subseteq DOMAIN loggedAt
           /\ modified \in [Days -> Nat \cup {-1}] /\ logFiles \in [Days -> Seq(DOMAIN loggedAt)]
           /\ \A d \in Days : Lines(logFiles[d]) \subseteq DOMAIN loggedAt
<1>1. /\ time \in Nat /\ Len(loggedAt) \in Nat /\ \A l \in DOMAIN loggedAt : loggedAt[l] \in Nat
      /\ pending \in Seq(DOMAIN loggedAt)
      /\ modified \in [Days -> Nat \cup {-1}] /\ logFiles \in [Days -> Seq(DOMAIN loggedAt)]
  BY ShapedIs DEF LogInv, Accounts
<1>2. ticks \in Nat /\ retention \in Int
  BY <1>1 DEF LogInv
<1>3. /\ FlushInterval \in Nat \ {0} /\ CleanupInterval \in Nat \ {0} /\ MaxTime \in Nat /\ DayTicks \in Nat \ {0}
  BY LogAssumption
<1>4. Window \in Int /\ (retention > 0 => Window > 0)
  BY <1>2, <1>3 DEF Window
<1>5. ticks + 1 \in Nat
  BY <1>2
<1>6. /\ ticks % FlushInterval \in 0..(FlushInterval - 1) /\ ticks % CleanupInterval \in Nat
      /\ (ticks + 1) % FlushInterval \in 0..(FlushInterval - 1) /\ (ticks + 1) % CleanupInterval \in Nat
  BY <1>2, <1>3, <1>5, Remainder
<1>7. Lines(pending) \subseteq DOMAIN loggedAt
  BY DEF LogInv, Accounts
<1>8. \A d \in Days : Lines(logFiles[d]) \subseteq DOMAIN loggedAt
  BY DEF LogInv, Accounts, Filed
<1> QED BY <1>1, <1>2, <1>3, <1>4, <1>6, <1>7, <1>8

\* What a flush writes at a moment was begun within an interval of the day's begin.
LEMMA BegunKept ==
    ASSUME LogInv, up, NEW at \in Nat, at <= time + 1, failures = 0, NEW d \in Days,
           NEW l, l \in Lines(logFiles[d]) \/ (d = at \div DayTicks /\ l \in Lines(pending))
    PROVE  d * DayTicks <= loggedAt[l] + FlushInterval
<1>1. CASE l \in Lines(logFiles[d])
  BY <1>1 DEF LogInv, Begun
<1>2. CASE d = at \div DayTicks /\ l \in Lines(pending)
  <2>1. d * DayTicks <= at
    BY <1>2, DayOf
  <2>2. time - loggedAt[l] <= ticks % FlushInterval /\ loggedAt[l] \in Nat
    BY <1>2, Measures DEF LogInv, Prompt
  <2>3. d * DayTicks \in Int
    <3>1. d \in Int /\ DayTicks \in Int
      BY LogAssumption DEF Days
    <3> QED BY <3>1
  <2> DEFINE x == d * DayTicks
             y == ticks % FlushInterval
  <2>4. time \in Nat /\ y \in 0..(FlushInterval - 1) /\ FlushInterval \in Nat
    BY Measures
  <2> HIDE DEF x, y
  <2>5. x <= at /\ x \in Int /\ time - loggedAt[l] <= y
    BY <2>1, <2>2, <2>3 DEF x, y
  <2>6. x <= loggedAt[l] + FlushInterval
    BY <2>2, <2>4, <2>5
  <2> QED BY <2>6 DEF x
<1> QED BY <1>1, <1>2

\* A tick.
LEMMA TickKeeps == ASSUME LogInv, LogTick PROVE LogInv'
<1> DEFINE at == time + 1
           sweep == (ticks + 1) % CleanupInterval = 0
           write == (ticks + 1) % FlushInterval = 0
<1>0. /\ up /\ time < MaxTime /\ time' = at /\ ticks' = ticks + 1
      /\ UNCHANGED <<retention, up, loggedAt>>
  BY DEF LogTick
<1>1. /\ time \in Nat /\ at \in Nat /\ at <= MaxTime /\ ticks + 1 \in 0..at /\ time <= at
      /\ HoldsAt(at) /\ retention \in Int
  <2>1. time \in Nat /\ MaxTime \in Nat
    BY Measures
  <2>2. at \in Nat /\ time <= at /\ at <= MaxTime /\ ticks + 1 \in 0..at
    BY <1>0, <2>1 DEF LogInv
  <2> HIDE DEF at
  <2>3. HoldsAt(at)
    BY <2>2, HoldsLater DEF LogInv, HoldsAt
  <2> QED BY <2>1, <2>2, <2>3 DEF LogInv
<1>2. PICK flush \in (IF write THEN Flushes(at) ELSE {Untouched(FALSE)}) :
         Keeps(flush, IF sweep THEN Expired(flush.times, at) ELSE {})
  BY <1>0 DEF LogTick
<1> DEFINE old == IF sweep THEN Expired(flush.times, at) ELSE {}
<1> HIDE DEF at, sweep, write
<1>3. /\ Accounts(flush.files, flush.times, flush.left, gone.lost \cup flush.lost, gone.expired, loggedAt, at)
      /\ flush.failed \in BOOLEAN /\ flush.left \in {<<>>, pending}
      /\ flush \in Flushes(at) /\ ~flush.failed => flush.left = <<>>
      /\ \A d \in Days : flush.times[d] \in {modified[d], at}
      /\ \A d \in Days : \A l \in Lines(flush.files[d]) :
           l \in Lines(logFiles[d]) \/ (d = at \div DayTicks /\ l \in Lines(pending))
  <2>1. flush \in Flushes(at) \cup {Untouched(FALSE)}
    BY <1>2
  <2> QED BY <1>1, <2>1, FlushHolds
<1>4. /\ old \in SUBSET Days /\ old \subseteq Expired(flush.times, at)
      /\ (sweep => old = Expired(flush.times, at))
  BY DEF Expired
<1>5. Keeps(flush, old)
  BY <1>2
<1> HIDE DEF old
<1>6. /\ pending' = flush.left
      /\ logFiles' = [d \in Days |-> IF d \in old THEN <<>> ELSE flush.files[d]]
      /\ modified' = [d \in Days |-> IF d \in old THEN -1 ELSE flush.times[d]]
      /\ gone' = [lost |-> gone.lost \cup flush.lost,
                  expired |-> gone.expired \cup UNION {Lines(flush.files[d]) : d \in old}]
      /\ failures' = failures + (IF flush.failed THEN 1 ELSE 0)
  BY <1>5 DEF Keeps
<1>7. /\ HoldsAt(time)' /\ (gone = [lost |-> gone.lost, expired |-> gone.expired])'
      /\ gone'.expired = gone.expired \cup UNION {Lines(flush.files[d]) : d \in old}
      /\ \A d \in Days : \A l \in Lines(logFiles'[d]) : l \in Lines(flush.files[d])
      /\ \A d \in Days : modified'[d] # -1 => d \notin old /\ modified'[d] = flush.times[d]
  BY <1>0, <1>3, <1>4, <1>6, KeptHolds
<1>8. failures' \in Nat /\ (failures' = 0 => failures = 0 /\ ~flush.failed)
  BY <1>3, <1>6 DEF LogInv
<1>9. Window' = Window
  BY <1>0 DEF Window
<1>10. Outlived'
  <2>1. \A l \in gone.expired \cup UNION {Lines(flush.files[d]) : d \in old} : at - loggedAt[l] > Window
    <3>1. Outlived
      BY DEF LogInv
    <3> QED BY <1>1, <1>3, <1>4, <3>1, DeletedAreOld
  <2> QED BY <1>0, <1>7, <1>9, <2>1 DEF Outlived
<1>11. Begun'
  <2> SUFFICES ASSUME failures' = 0, NEW d \in Days, NEW l \in Lines(logFiles'[d])
               PROVE  d * DayTicks <= loggedAt[l] + FlushInterval
    BY <1>0 DEF Begun
  <2>1. l \in Lines(logFiles[d]) \/ (d = at \div DayTicks /\ l \in Lines(pending))
    BY <1>3, <1>7
  <2>2. at <= time + 1
    BY <1>1 DEF at
  <2> QED BY <1>0, <1>1, <1>8, <2>1, <2>2, BegunKept
<1>12. Prompt'
  <2> SUFFICES ASSUME failures' = 0, NEW l \in Lines(pending')
               PROVE  at - loggedAt[l] <= (ticks + 1) % FlushInterval
    BY <1>0 DEF Prompt
  <2>1. pending' # <<>>
    BY DEF Lines, ToSet
  <2>2. ~write
    BY <1>2, <1>3, <1>6, <1>8, <2>1
  <2>3. l \in Lines(pending)
    BY <1>3, <1>6, <2>1
  <2>4. time - loggedAt[l] <= ticks % FlushInterval /\ loggedAt[l] \in Nat
    BY <1>0, <1>8, <2>3, Measures DEF LogInv, Prompt
  <2>5. (ticks + 1) % FlushInterval = (ticks % FlushInterval) + 1
    BY <2>2, Measures, NextInInterval DEF write
  <2>6. ticks % FlushInterval \in Nat
    BY Measures
  <2> QED BY <1>1, <2>4, <2>5, <2>6 DEF at
<1>13. Swept'
  <2> SUFFICES ASSUME retention > 0, NEW d \in Days, modified'[d] # -1
               PROVE  modified'[d] >= at - Window - ((ticks + 1) % CleanupInterval)
    BY <1>0, <1>9 DEF Swept
  <2>1. d \notin old /\ modified'[d] = flush.times[d] /\ flush.times[d] \in {modified[d], at} /\ flush.times[d] # -1
    BY <1>3, <1>7
  <2>2. Window \in Int /\ Window > 0 /\ (ticks + 1) % CleanupInterval \in Nat /\ ticks % CleanupInterval \in Nat
        /\ CleanupInterval \in Nat \ {0} /\ ticks \in Nat
    BY Measures
  <2> DEFINE y == ticks % CleanupInterval
             z == (ticks + 1) % CleanupInterval
  <2>3. y \in Nat /\ z \in Nat /\ (z = 0 \/ z = y + 1)
    BY <2>2, NextInInterval
  <2>4. flush.times[d] \in Nat
    <3>1. modified \in [Days -> Nat \cup {-1}]
      BY Measures
    <3> QED BY <1>1, <2>1, <3>1
  <2>5. CASE z = 0
    <3>1. ~(flush.times[d] < at - Window)
      <4>1. sweep
        BY <2>5 DEF sweep
      <4> QED BY <1>4, <2>1, <4>1 DEF Expired, Window
    <3> HIDE DEF y, z
    <3>2. modified'[d] >= at - Window - z
      BY <1>1, <2>1, <2>2, <2>4, <2>5, <3>1
    <3> QED BY <3>2 DEF z
  <2>6. CASE z = y + 1
    <3>1. flush.times[d] = modified[d] => modified[d] >= time - Window - y
      BY <1>0, <2>1 DEF LogInv, Swept
    <3> HIDE DEF y, z
    <3>2. modified'[d] >= at - Window - z
      BY <1>1, <2>1, <2>2, <2>3, <2>4, <2>6, <3>1 DEF at
    <3> QED BY <3>2 DEF z
  <2> QED BY <2>3, <2>5, <2>6
<1> QED BY <1>0, <1>1, <1>7, <1>8, <1>10, <1>11, <1>12, <1>13 DEF LogInv, HoldsAt

\* The server stops: what a flush leaves in memory is lost.
LEMMA CloseKeeps == ASSUME LogInv, CloseLog PROVE LogInv'
<1>0. up /\ up' = FALSE /\ UNCHANGED <<retention, ticks, time, loggedAt>>
  BY DEF CloseLog
<1>1. PICK flush \in Flushes(time) : Keeps([flush EXCEPT !.left = <<>>, !.lost = @ \cup Lines(flush.left)], {})
  BY DEF CloseLog
<1>2. time \in Nat /\ time <= MaxTime /\ HoldsAt(time) /\ retention \in Int
  BY Measures DEF LogInv, HoldsAt
<1>3. /\ Accounts(flush.files, flush.times, flush.left, gone.lost \cup flush.lost, gone.expired, loggedAt, time)
      /\ flush.failed \in BOOLEAN
      /\ \A d \in Days : \A l \in Lines(flush.files[d]) :
           l \in Lines(logFiles[d]) \/ (d = time \div DayTicks /\ l \in Lines(pending))
  BY <1>2, FlushHolds
<1> DEFINE lost == flush.lost \cup Lines(flush.left)
<1>4. Accounts(flush.files, flush.times, <<>>, gone.lost \cup lost, gone.expired, loggedAt, time)
  <2>1. Accounts(flush.files, flush.times, <<>>, (gone.lost \cup flush.lost) \cup Lines(flush.left),
              gone.expired, loggedAt, time)
    BY <1>3, HoldsForgotten
  <2>2. (gone.lost \cup flush.lost) \cup Lines(flush.left) = gone.lost \cup lost
    OBVIOUS
  <2> HIDE DEF lost
  <2> QED BY <2>1, <2>2
<1>5. /\ pending' = <<>>
      /\ logFiles' = [d \in Days |-> IF d \in {} THEN <<>> ELSE flush.files[d]]
      /\ modified' = [d \in Days |-> IF d \in {} THEN -1 ELSE flush.times[d]]
      /\ gone' = [lost |-> gone.lost \cup lost,
                  expired |-> gone.expired \cup UNION {Lines(flush.files[d]) : d \in {}}]
      /\ failures' = failures + (IF flush.failed THEN 1 ELSE 0)
  <2> DEFINE closed == [flush EXCEPT !.left = <<>>, !.lost = @ \cup Lines(flush.left)]
  <2>1. /\ closed.left = <<>> /\ closed.lost = lost /\ closed.files = flush.files
        /\ closed.times = flush.times /\ closed.failed = flush.failed
    <3>1. \/ flush = Untouched(TRUE) \/ flush = Untouched(FALSE)
          \/ \E n \in 0..Len(pending) : flush = WrittenUpTo(time, n)
      <4>1. Len(pending) \in Nat
        BY ShapedIs DEF LogInv, Accounts
      <4> QED BY <4>1, FlushIs
    <3>2. flush = [left |-> flush.left, lost |-> flush.lost, files |-> flush.files,
                   times |-> flush.times, failed |-> flush.failed]
      BY <3>1 DEF Untouched, WrittenUpTo
    <3> QED BY <3>2
  <2>2. Keeps(closed, {})
    BY <1>1
  <2> HIDE DEF closed, lost
  <2> QED BY <2>1, <2>2 DEF Keeps
<1> HIDE DEF lost
<1>6. /\ HoldsAt(time)' /\ (gone = [lost |-> gone.lost, expired |-> gone.expired])'
      /\ gone'.expired = gone.expired \cup UNION {Lines(flush.files[d]) : d \in {}}
      /\ \A d \in Days : \A l \in Lines(logFiles'[d]) : l \in Lines(flush.files[d])
  <2>1. {} \in SUBSET Days /\ time' = time /\ loggedAt' = loggedAt
    BY <1>0
  <2> QED BY <1>4, <1>5, <2>1, KeptHolds
<1>7. failures' \in Nat /\ (failures' = 0 => failures = 0)
  BY <1>3, <1>5 DEF LogInv
<1>8. Outlived' /\ Prompt' /\ Swept'
  BY <1>0, <1>6 DEF LogInv, Outlived, Prompt, Swept, Window
<1>9. Begun'
  <2> SUFFICES ASSUME failures' = 0, NEW d \in Days, NEW l \in Lines(logFiles'[d])
               PROVE  d * DayTicks <= loggedAt[l] + FlushInterval
    BY <1>0 DEF Begun
  <2>1. l \in Lines(logFiles[d]) \/ (d = time \div DayTicks /\ l \in Lines(pending))
    BY <1>3, <1>6
  <2>2. time <= time + 1
    BY <1>2
  <2> QED BY <1>0, <1>2, <1>7, <2>1, <2>2, BegunKept
<1> QED BY <1>0, <1>2, <1>5, <1>6, <1>7, <1>8, <1>9 DEF LogInv, HoldsAt

\* A line is logged.
LEMMA LineKeeps == ASSUME LogInv, LogLine PROVE LogInv'
<1> DEFINE l == Len(loggedAt) + 1
<1>1. /\ up /\ loggedAt' = Append(loggedAt, time) /\ pending' = Append(pending, l)
      /\ UNCHANGED <<retention, ticks, logFiles, modified, time, up, gone, failures>>
  BY DEF LogLine
<1>2. Accounts(logFiles, modified, pending, gone.lost, gone.expired, loggedAt, time)
  BY DEF LogInv
<1>3. Accounts(logFiles, modified, Append(pending, l), gone.lost, gone.expired, Append(loggedAt, time), time)
  BY <1>2, HoldsLogged
<1>4. /\ time \in Nat /\ loggedAt \in Seq(Nat) /\ Len(loggedAt) \in Nat /\ DOMAIN loggedAt = 1..Len(loggedAt)
      /\ pending \in Seq(DOMAIN loggedAt)
  BY <1>2, ShapedIs DEF Accounts
<1>5. /\ loggedAt'[l] = time /\ \A k \in DOMAIN loggedAt : loggedAt'[k] = loggedAt[k]
  BY <1>1, <1>4, AppendProperties
<1>6. \A k \in Lines(pending') : k \in Lines(pending) \/ k = l
  <2> DEFINE A == DOMAIN loggedAt
             S == A \cup {l}
  <2>0. pending \in Seq(A)
    BY <1>4
  <2> HIDE DEF A, l
  <2>1. pending \in Seq(S) /\ l \in S
    BY <2>0
  <2> HIDE DEF S
  <2>2. /\ Len(pending') = Len(pending) + 1 /\ Len(pending) \in Nat /\ pending' \in Seq(S)
        /\ pending'[Len(pending) + 1] = l
        /\ \A i \in 1..Len(pending) : pending'[i] = pending[i]
    BY <1>1, <2>1, AppendProperties
  <2>3. DOMAIN pending' = 1..(Len(pending) + 1) /\ DOMAIN pending = 1..Len(pending)
    BY <2>1, <2>2
  <2> QED BY <2>2, <2>3 DEF Lines, ToSet
<1> HIDE DEF l
<1>7. ticks % FlushInterval \in 0..(FlushInterval - 1) /\ FlushInterval \in Nat \ {0}
      /\ Lines(pending) \subseteq DOMAIN loggedAt
      /\ \A d \in Days : Lines(logFiles[d]) \subseteq DOMAIN loggedAt
  BY Measures
<1>8. Prompt'
  <2> SUFFICES ASSUME failures = 0, NEW k \in Lines(pending') PROVE time - loggedAt'[k] <= ticks % FlushInterval
    BY <1>1 DEF Prompt
  <2>1. CASE k \in Lines(pending)
    BY <1>1, <1>5, <1>7, <2>1 DEF LogInv, Prompt
  <2>2. CASE k = l
    <3>1. time - loggedAt'[k] = 0
      BY <1>4, <1>5, <2>2
    <3>2. ticks % FlushInterval >= 0
      BY <1>7
    <3> QED BY <3>1, <3>2
  <2> QED BY <1>6, <2>1, <2>2
<1>9. Begun'
  BY <1>1, <1>5, <1>7 DEF LogInv, Begun
<1>10. Outlived' /\ Swept'
  <2>1. gone.expired \subseteq DOMAIN loggedAt
    BY <1>2 DEF Accounts
  <2> QED BY <1>1, <1>5, <2>1 DEF LogInv, Outlived, Swept, Window
<1> QED BY <1>1, <1>3, <1>8, <1>9, <1>10 DEF LogInv

\* A crash: what waits is lost.
LEMMA CrashKeeps == ASSUME LogInv, CrashLog PROVE LogInv'
<1>1. /\ up' = FALSE /\ pending' = <<>> /\ failures' = failures + 1
      /\ gone' = [lost |-> gone.lost \cup Lines(pending), expired |-> gone.expired]
      /\ UNCHANGED <<retention, ticks, logFiles, modified, time, loggedAt>>
  BY DEF CrashLog, LogInv
<1>2. Accounts(logFiles, modified, <<>>, gone.lost \cup Lines(pending), gone.expired, loggedAt, time)
  BY HoldsForgotten DEF LogInv
<1>3. gone'.lost = gone.lost \cup Lines(pending) /\ gone'.expired = gone.expired
  BY <1>1
<1>4. failures' \in Nat /\ failures' # 0
  BY <1>1 DEF LogInv
<1>5. Prompt' /\ Begun' /\ Outlived' /\ Swept'
  BY <1>1, <1>3, <1>4 DEF LogInv, Prompt, Begun, Outlived, Swept, Window
<1> QED BY <1>1, <1>2, <1>3, <1>4, <1>5 DEF LogInv

\* Time passes while the server is down.
LEMMA DowntimeKeeps == ASSUME LogInv, Downtime PROVE LogInv'
<1> DEFINE at == time + 1
<1>1. /\ ~up /\ time < MaxTime /\ time' = at
      /\ UNCHANGED <<retention, pending, ticks, logFiles, modified, up, loggedAt, gone, failures>>
  BY DEF Downtime
<1>2. time \in Nat /\ MaxTime \in Nat /\ at \in Nat /\ time <= at /\ at <= MaxTime /\ ticks \in 0..at /\ Window \in Int
  BY <1>1, Measures DEF LogInv
<1> HIDE DEF at
<1>3. HoldsAt(at)
  BY <1>2, HoldsLater DEF LogInv, HoldsAt
<1>4. Outlived'
  <2> SUFFICES ASSUME NEW l \in gone.expired PROVE at - loggedAt[l] > Window
    BY <1>1 DEF Outlived, Window
  <2>1. time - loggedAt[l] > Window /\ loggedAt[l] \in Nat
    BY Measures DEF LogInv, Outlived, Accounts
  <2> QED BY <1>2, <2>1
<1>5. Prompt' /\ Begun' /\ Swept'
  BY <1>1 DEF LogInv, Prompt, Begun, Swept
<1> QED BY <1>1, <1>2, <1>3, <1>4, <1>5 DEF LogInv, HoldsAt

\* The server starts: the files that expired meanwhile are deleted.
LEMMA StartKeeps == ASSUME LogInv, StartLog PROVE LogInv'
<1> DEFINE old == Expired(modified, time)
<1>1. /\ ~up /\ up' = TRUE /\ ticks' = 0 /\ UNCHANGED <<retention, time, loggedAt>>
      /\ Keeps(Untouched(FALSE), old)
  BY DEF StartLog
<1>2. old \in SUBSET Days
  BY DEF Expired
<1>3. gone.lost \cup {} = gone.lost
  OBVIOUS
<1>4. /\ pending' = pending /\ failures' = failures
      /\ logFiles' = [d \in Days |-> IF d \in old THEN <<>> ELSE logFiles[d]]
      /\ modified' = [d \in Days |-> IF d \in old THEN -1 ELSE modified[d]]
      /\ gone' = [lost |-> gone.lost \cup {},
                  expired |-> gone.expired \cup UNION {Lines(logFiles[d]) : d \in old}]
  <2> DEFINE still == Untouched(FALSE)
  <2>1. /\ still.left = pending /\ still.lost = {} /\ still.files = logFiles
        /\ still.times = modified /\ still.failed = FALSE
    BY DEF Untouched
  <2>2. Keeps(still, old) /\ failures \in Nat
    BY <1>1 DEF LogInv
  <2> HIDE DEF still, old
  <2> QED BY <2>1, <2>2 DEF Keeps
<1>5. Accounts(logFiles, modified, pending, gone.lost \cup {}, gone.expired, loggedAt, time)
  BY <1>3 DEF LogInv
<1>6. /\ HoldsAt(time)' /\ (gone = [lost |-> gone.lost, expired |-> gone.expired])'
      /\ gone'.expired = gone.expired \cup UNION {Lines(logFiles[d]) : d \in old}
      /\ \A d \in Days : \A l \in Lines(logFiles'[d]) : l \in Lines(logFiles[d])
      /\ \A d \in Days : modified'[d] # -1 => d \notin old /\ modified'[d] = modified[d]
  <2> HIDE DEF old
  <2> QED BY <1>1, <1>2, <1>4, <1>5, KeptHolds
<1>7. time \in Nat /\ retention \in Int /\ Window \in Int /\ Outlived /\ pending = <<>>
      /\ modified \in [Days -> Nat \cup {-1}] /\ CleanupInterval \in Nat \ {0}
  BY <1>1, Measures DEF LogInv
<1>8. Outlived'
  <2>1. \A l \in gone.expired \cup UNION {Lines(logFiles[d]) : d \in old} : time - loggedAt[l] > Window
    <3>1. old \subseteq Expired(modified, time) /\ time <= time
      BY <1>7
    <3> HIDE DEF old
    <3> QED BY <1>5, <1>7, <3>1, DeletedAreOld
  <2> HIDE DEF old
  <2> QED BY <1>1, <1>6, <2>1 DEF Outlived, Window
<1>9. Prompt' /\ Begun'
  <2>1. Lines(<<>>) = {}
    BY DEF Lines, ToSet
  <2> QED BY <1>1, <1>4, <1>6, <1>7, <2>1 DEF LogInv, Prompt, Begun
<1>10. Swept'
  <2> SUFFICES ASSUME retention > 0, NEW d \in Days, modified'[d] # -1
               PROVE  modified'[d] >= time - Window - (0 % CleanupInterval)
    BY <1>1 DEF Swept, Window
  <2>1. modified[d] # -1 /\ ~(modified[d] < time - Window) /\ modified'[d] = modified[d]
    BY <1>6 DEF Expired, Window
  <2>2. modified[d] \in Nat
    BY <1>7, <2>1
  <2>3. 0 % CleanupInterval \in 0..(CleanupInterval - 1)
    BY <1>7, Remainder
  <2> DEFINE z == 0 % CleanupInterval
  <2>4. z \in Nat
    BY <1>7, <2>3
  <2> HIDE DEF z
  <2>5. modified'[d] >= time - Window - z
    BY <1>7, <2>1, <2>2, <2>4
  <2> QED BY <2>5 DEF z
<1>11. ticks' \in 0..time
  BY <1>1, <1>7
<1> HIDE DEF old
<1> QED BY <1>1, <1>4, <1>6, <1>7, <1>8, <1>9, <1>10, <1>11 DEF LogInv, HoldsAt

\* Every step keeps the invariant.
LEMMA LogStepHolds == LogInv /\ [LogNext]_logVars => LogInv'
<1> SUFFICES ASSUME LogInv, [LogNext]_logVars PROVE LogInv'
  OBVIOUS
<1>1. CASE UNCHANGED logVars
  BY <1>1 DEF logVars, LogInv, Prompt, Begun, Outlived, Swept, Window
<1> QED BY <1>1, LineKeeps, TickKeeps, CloseKeeps, CrashKeeps, DowntimeKeeps, StartKeeps DEF LogNext

\* The greatest of some positions.
LEMMA MaxIs ==
    ASSUME NEW n \in Nat, NEW S \in SUBSET (1..n), S # {}
    PROVE  Max(S) \in S /\ \A y \in S : Max(S) >= y
<1> DEFINE T == {n - y : y \in S}
<1>1. T \in SUBSET Nat /\ T # {}
  <2>1. \A y \in S : y \in Int /\ n - y \in Nat
    OBVIOUS
  <2> QED BY <2>1
<1> HIDE DEF T
<1>2. PICK t \in T : \A u \in T : t <= u
  BY <1>1, Least
<1> USE DEF T
<1>3. PICK x \in S : t = n - x
  OBVIOUS
<1>4. ASSUME NEW y \in S PROVE n - y \in T /\ y \in Nat
  <2>1. y \in 1..n
    OBVIOUS
  <2> QED BY <2>1 DEF T
<1>5. \A y \in S : x >= y
  BY <1>2, <1>3, <1>4
<1> QED BY <1>5 DEF Max

\* A fold from the left is defined: the table f says what an element makes of a value.
IsFold(g, f, q, base, n) ==
    g = [S \in SUBSET (1..n) |-> IF S = {} THEN base ELSE f[<<g[S \ {Max(S)}], q[Max(S)]>>]]

\* The recursion of FoldLeft has a solution, whatever the table.
LEMMA FoldIsDefined ==
    ASSUME NEW D, NEW E, NEW f \in [D \X E -> D], NEW base \in D, NEW n \in Nat, NEW q \in [1..n -> E]
    PROVE  \E g \in [SUBSET (1..n) -> D] : IsFold(g, f, q, base, n)
<1> DEFINE Step(g, S) == IF S = {} THEN base ELSE f[<<g[S \ {Max(S)}], q[Max(S)]>>]
           Is(k) == k <= n => \E g \in [SUBSET (1..k) -> D] : IsFold(g, f, q, base, k)
           Wrong == {k \in Nat : ~Is(k)}
<1>1. SUFFICES ASSUME Wrong # {} PROVE FALSE
  <2>1. n \notin Wrong => Is(n)
    OBVIOUS
  <2>2. n <= n
    OBVIOUS
  <2> HIDE DEF Wrong
  <2> QED BY <2>1, <2>2
<1>2. PICK k \in Wrong : \A j \in Wrong : k <= j
  <2>1. Wrong \in SUBSET Nat
    OBVIOUS
  <2> HIDE DEF Wrong
  <2> QED BY <1>1, <2>1, Least
<1>0. k \in Nat /\ k <= n
  OBVIOUS
<1>3. CASE k = 0
  <2> DEFINE g == [S \in SUBSET (1..0) |-> base]
  <2>1. \A S \in SUBSET (1..0) : S = {}
    OBVIOUS
  <2>2. g = [S \in SUBSET (1..0) |-> Step(g, S)]
    BY <2>1
  <2>3. IsFold(g, f, q, base, 0) /\ g \in [SUBSET (1..0) -> D]
    BY <2>2 DEF IsFold
  <2> HIDE DEF g, Step
  <2> QED BY <1>3, <2>3
<1>4. CASE k # 0
  <2> DEFINE j == k - 1
  <2>1. j \in Nat /\ k = j + 1 /\ k \in Nat /\ j \notin Wrong /\ j <= n
    <3>1. k \in Nat
      OBVIOUS
    <3>2. j \in Nat /\ j < k
      BY <1>4, <3>1
    <3>3. j \notin Wrong
      <4> HIDE DEF Wrong, j
      <4> QED BY <1>2, <3>1, <3>2
    <3> HIDE DEF Wrong
    <3> QED BY <1>0, <3>1, <3>2, <3>3
  <2> HIDE DEF j
  <2>2. \E g \in [SUBSET (1..j) -> D] : IsFold(g, f, q, base, j)
    BY <2>1
  <2> HIDE DEF Step
  <2>3. PICK g \in [SUBSET (1..j) -> D] : IsFold(g, f, q, base, j)
    BY <2>2
  <2> DEFINE h == [S \in SUBSET (1..k) |-> IF k \in S THEN f[<<g[S \ {k}], q[k]>>] ELSE g[S]]
  <2>7. h \in [SUBSET (1..k) -> D]
    <3> SUFFICES ASSUME NEW S \in SUBSET (1..k) PROVE (IF k \in S THEN f[<<g[S \ {k}], q[k]>>] ELSE g[S]) \in D
      OBVIOUS
    <3>1. CASE k \in S
      <4>1. S \ {k} \in SUBSET (1..j) /\ k \in 1..n
        BY <1>0, <1>4, <2>1
      <4>2. <<g[S \ {k}], q[k]>> \in D \X E
        BY <4>1
      <4> QED BY <3>1, <4>2
    <3>2. CASE k \notin S
      <4>1. S \in SUBSET (1..j)
        BY <2>1, <3>2
      <4> QED BY <3>2, <4>1
    <3> QED BY <3>1, <3>2
  <2>4. ASSUME NEW S \in SUBSET (1..k) PROVE h[S] = Step(h, S)
    <3>1. CASE S = {}
      <4>1. S \in SUBSET (1..j) /\ k \notin S
        BY <3>1
      <4>2. g[S] = Step(g, S)
        BY <2>3, <4>1 DEF IsFold, Step
      <4> QED BY <3>1, <4>1, <4>2 DEF Step
    <3>2. CASE k \in S
      <4>1. S \ {k} \in SUBSET (1..j) /\ S \ {k} \in SUBSET (1..k) /\ k \notin S \ {k}
        BY <2>1
      <4>2. Max(S) = k
        <5>1. Max(S) \in S /\ Max(S) >= k
          BY <2>1, <3>2, MaxIs
        <5>2. Max(S) \in 1..k
          BY <5>1
        <5> QED BY <5>1, <5>2, <2>1
      <4>3. h[S \ {k}] = g[S \ {k}]
        BY <4>1
      <4> QED BY <3>2, <4>2, <4>3 DEF Step
    <3>3. CASE k \notin S /\ S # {}
      <4>1. S \in SUBSET (1..j)
        BY <2>1, <3>3
      <4>2. Max(S) \in S
        BY <2>1, <3>3, MaxIs
      <4>3. h[S] = g[S] /\ h[S \ {Max(S)}] = g[S \ {Max(S)}]
        BY <3>3
      <4>4. g[S] = Step(g, S)
        BY <2>3, <4>1 DEF IsFold, Step
      <4> QED BY <3>3, <4>3, <4>4 DEF Step
    <3> QED BY <3>1, <3>2, <3>3
  <2>5. h = [S \in SUBSET (1..k) |-> Step(h, S)]
    BY <2>4
  <2> HIDE DEF h
  <2>6. IsFold(h, f, q, base, k)
    BY <2>5 DEF IsFold, Step
  <2> QED BY <2>6, <2>7
<1> QED BY <1>3, <1>4

\* The positions up to a position.
LEMMA Beginnings ==
    ASSUME NEW n \in Nat, NEW k \in 0..(n - 1)
    PROVE  /\ 1..(k + 1) \in SUBSET (1..n) /\ 1..(k + 1) # {}
           /\ Max(1..(k + 1)) = k + 1 /\ (1..(k + 1)) \ {k + 1} = 1..k
<1> DEFINE S == 1..(k + 1)
<1>1. S \in SUBSET (1..n) /\ S # {} /\ k + 1 \in S
  <2>1. k \in Nat /\ k + 1 <= n /\ k + 1 \in S
    OBVIOUS
  <2>2. \A i \in S : i \in 1..n
    BY <2>1
  <2> QED BY <2>1, <2>2
<1>2. Max(S) = k + 1
  <2>1. Max(S) \in S /\ Max(S) >= k + 1
    BY <1>1, MaxIs
  <2> QED BY <2>1
<1>3. S \ {k + 1} = 1..k
  OBVIOUS
<1> QED BY <1>1, <1>2, <1>3

\* What holds of the beginning and of each next, holds of all.
LEMMA Throughout ==
    ASSUME NEW n \in Nat, NEW P \in SUBSET (0..n), 0 \in P, \A k \in 0..(n - 1) : k \in P => k + 1 \in P
    PROVE  P = 0..n
<1> DEFINE Wrong == (0..n) \ P
<1>1. SUFFICES ASSUME Wrong # {} PROVE FALSE
  OBVIOUS
<1>2. PICK k \in Wrong : \A j \in Wrong : k <= j
  <2>1. Wrong \in SUBSET Nat
    OBVIOUS
  <2> HIDE DEF Wrong
  <2> QED BY <1>1, <2>1, Least
<1>3. k \in Nat /\ k # 0 /\ k <= n /\ k \notin P
  OBVIOUS
<1>4. k - 1 \in 0..(n - 1) /\ k - 1 \in 0..n /\ (k - 1) + 1 = k /\ k - 1 < k
  BY <1>3
<1>5. k - 1 \notin Wrong
  <2> HIDE DEF Wrong
  <2> QED BY <1>2, <1>3, <1>4
<1> QED BY <1>3, <1>4, <1>5

-----------------------------------------------------------------------------
\* The files one after the other.
InFiles == FoldLeft(LAMBDA s, d : s \o logFiles[d], <<>>, [i \in 1..Cardinality(Days) |-> i - 1])
IsInFiles(g, n) ==
    g = [S \in SUBSET (1..n) |-> IF S = {} THEN <<>> ELSE g[S \ {Max(S)}] \o logFiles[[i \in 1..n |-> i - 1][Max(S)]]]

\* The files are joined one by one.
LEMMA FilesOneByOne ==
    ASSUME NEW T \in SUBSET Nat, logFiles \in [Days -> Seq(T)], NEW n \in Nat, n = Cardinality(Days), Days = 0..(n - 1)
    PROVE  \E v : v[0] = <<>> /\ (\A k \in 0..(n - 1) : v[k + 1] = v[k] \o logFiles[k]) /\ InFiles = v[n]
<1> DEFINE D == Seq(T)
           q == [i \in 1..n |-> i - 1]
           f == [sd \in D \X Days |-> sd[1] \o logFiles[sd[2]]]
           iter == CHOOSE g : IsInFiles(g, n)
<1>1. f \in [D \X Days -> D]
  <2> SUFFICES ASSUME NEW sd \in D \X Days PROVE sd[1] \o logFiles[sd[2]] \in D
    OBVIOUS
  <2>1. sd[1] \in Seq(T) /\ logFiles[sd[2]] \in Seq(T)
    OBVIOUS
  <2> QED BY <2>1, ConcatProperties
<1>2. q \in [1..n -> Days] /\ <<>> \in D
  <2>1. \A i \in 1..n : i - 1 \in 0..(n - 1)
    OBVIOUS
  <2>2. q \in [1..n -> Days]
    <3> HIDE DEF D
    <3> QED BY <2>1
  <2>3. <<>> \in D
    OBVIOUS
  <2> HIDE DEF q, D
  <2> QED BY <2>2, <2>3
<1>3. PICK g \in [SUBSET (1..n) -> D] : IsFold(g, f, q, <<>>, n)
  <2> HIDE DEF D, q, f
  <2> QED BY <1>1, <1>2, FoldIsDefined
<1>4. IsInFiles(g, n)
  <2>1. ASSUME NEW S \in SUBSET (1..n), S # {} PROVE f[<<g[S \ {Max(S)}], q[Max(S)]>>] = g[S \ {Max(S)}] \o logFiles[q[Max(S)]]
    <3>1. Max(S) \in 1..n
      BY <2>1, MaxIs
    <3>2. q[Max(S)] \in Days
      BY <1>2, <3>1
    <3>3. g[S \ {Max(S)}] \in D
      BY <1>3
    <3> HIDE DEF q, D
    <3> QED BY <3>2, <3>3
  <2>2. g = [S \in SUBSET (1..n) |-> IF S = {} THEN <<>> ELSE f[<<g[S \ {Max(S)}], q[Max(S)]>>]]
    BY <1>3 DEF IsFold
  <2> HIDE DEF f, D
  <2>3. g = [S \in SUBSET (1..n) |-> IF S = {} THEN <<>> ELSE g[S \ {Max(S)}] \o logFiles[q[Max(S)]]]
    BY <2>1, <2>2, Zenon
  <2> QED BY <2>3 DEF IsInFiles
<1>5. IsInFiles(iter, n)
  BY <1>4
<1>6. InFiles = iter[1..n]
  BY DEF InFiles, FoldLeft, MapThenFoldSet, IsInFiles
<1> HIDE DEF iter
<1> DEFINE v == [k \in 0..n |-> iter[1..k]]
<1>7. v[0] = <<>>
  <2>1. 1..0 = {} /\ {} \in SUBSET (1..n) /\ 0 \in 0..n
    OBVIOUS
  <2> QED BY <1>5, <2>1 DEF IsInFiles
<1>8. ASSUME NEW k \in 0..(n - 1) PROVE v[k + 1] = v[k] \o logFiles[k]
  <2>0. k \in 0..n /\ k + 1 \in 0..n /\ k + 1 \in 1..n /\ (k + 1) - 1 = k
    OBVIOUS
  <2>1. /\ 1..(k + 1) \in SUBSET (1..n) /\ 1..(k + 1) # {}
        /\ Max(1..(k + 1)) = k + 1 /\ (1..(k + 1)) \ {k + 1} = 1..k
    BY Beginnings
  <2>2. iter[1..(k + 1)] = iter[1..k] \o logFiles[q[k + 1]]
    BY <1>5, <2>1 DEF IsInFiles
  <2> QED BY <2>0, <2>2
<1>9. v[n] = iter[1..n]
  OBVIOUS
<1> HIDE DEF v
<1> QED BY <1>6, <1>7, <1>8, <1>9

\* One file after the other, and then what waits, is a rising sequence.
LEMMA FilesInOrder == ASSUME LogInv PROVE LinesInOrder
<1> DEFINE A == DOMAIN loggedAt
           n == Cardinality(Days)
           Before(k) == UNION {Lines(logFiles[d]) : d \in 0..(k - 1)}
<1>1. A \in SUBSET Nat /\ logFiles \in [Days -> Seq(A)] /\ pending \in Seq(A)
  BY ShapedIs DEF LogInv, Accounts
<1>2. Ordered(logFiles, pending)
  BY DEF LogInv, Accounts
<1>3. n \in Nat /\ Days = 0..(n - 1)
  <2> DEFINE m == MaxTime \div DayTicks
  <2>1. m \in Nat
    BY LogAssumption, DayOf
  <2> HIDE DEF m
  <2>2. Cardinality(0..m) = m + 1
    <3>1. Cardinality(0..m) = IF 0 > m THEN 0 ELSE m - 0 + 1
      BY <2>1, FS_Interval
    <3> QED BY <2>1, <3>1
  <2>3. Days = 0..m
    BY DEF Days, m
  <2> QED BY <2>1, <2>2, <2>3
<1> HIDE DEF A, n
<1>4. PICK v : v[0] = <<>> /\ (\A k \in 0..(n - 1) : v[k + 1] = v[k] \o logFiles[k]) /\ InFiles = v[n]
  <2>1. n = Cardinality(Days)
    BY DEF n
  <2> HIDE DEF Before
  <2> QED BY <1>1, <1>3, <2>1, FilesOneByOne, Zenon
<1> DEFINE P == {k \in 0..n : v[k] \in Seq(A) /\ Rising(v[k]) /\ Lines(v[k]) = Before(k)}
<1>5. 0 \in P
  <2>1. <<>> \in Seq(A)
    OBVIOUS
  <2>2. Rising(<<>>) /\ Lines(<<>>) = {}
    BY DEF Rising, Lines, ToSet
  <2>3. Before(0) = {} /\ 0 \in 0..n
    BY <1>3
  <2> QED BY <1>4, <2>1, <2>2, <2>3
<1>6. ASSUME NEW k \in 0..(n - 1), k \in P PROVE k + 1 \in P
  <2>1. k \in Days /\ k + 1 \in 0..n /\ k \in Nat
    BY <1>3
  <2>2. v[k] \in Seq(A) /\ Rising(v[k]) /\ Lines(v[k]) = Before(k) /\ v[k + 1] = v[k] \o logFiles[k]
    BY <1>4, <1>6
  <2>3. logFiles[k] \in Seq(A) /\ Rising(logFiles[k])
    BY <1>1, <1>2, <2>1 DEF Ordered
  <2>4. \A d \in 0..(k - 1) : d \in Days /\ d < k
    BY <1>3, <2>1
  <2>5. \A l \in Before(k), m \in Lines(logFiles[k]) : l < m
    BY <1>2, <2>1, <2>4 DEF Ordered
  <2>6. Before(k + 1) = Before(k) \cup Lines(logFiles[k])
    <3>1. 0..((k + 1) - 1) = (0..(k - 1)) \cup {k}
      BY <2>1
    <3> QED BY <3>1
  <2> HIDE DEF Before
  <2> DEFINE s == v[k]
             t == logFiles[k]
  <2>7. s \in Seq(A) /\ t \in Seq(A) /\ Rising(s) /\ Rising(t) /\ \A l \in Lines(s), m \in Lines(t) : l < m
    BY <2>2, <2>3, <2>5
  <2> HIDE DEF s, t
  <2>8. s \o t \in Seq(A) /\ Lines(s \o t) = Lines(s) \cup Lines(t) /\ Rising(s \o t)
    BY <1>1, <2>7, Joined
  <2>9. v[k + 1] \in Seq(A) /\ Lines(v[k + 1]) = Before(k) \cup Lines(logFiles[k]) /\ Rising(v[k + 1])
    BY <2>2, <2>8 DEF s, t
  <2> QED BY <2>1, <2>6, <2>9
<1>7. v[n] \in Seq(A) /\ Rising(v[n]) /\ Lines(v[n]) = Before(n)
  <2>1. P \in SUBSET (0..n) /\ n \in 0..n
    BY <1>3
  <2> HIDE DEF P
  <2>2. P = 0..n
    BY <1>3, <1>5, <1>6, <2>1, Throughout
  <2> USE DEF P
  <2>3. n \in P
    BY <2>1, <2>2
  <2> QED BY <2>3
<1>8. \A l \in Before(n), m \in Lines(pending) : l < m
  BY <1>2, <1>3 DEF Ordered
<1>9. Rising(InFiles \o pending)
  <2> HIDE DEF Before
  <2>1. InFiles \in Seq(A) /\ Rising(InFiles) /\ Lines(InFiles) = Before(n)
    BY <1>4, <1>7
  <2>2. Rising(pending)
    BY <1>2 DEF Ordered
  <2> QED BY <1>1, <1>8, <2>1, <2>2, Joined
<1> QED BY <1>9 DEF LinesInOrder, InFiles, Rising

\* Nothing waits or stays too long.
LEMMA TimesKept == ASSUME LogInv PROVE WrittenInTime
<1>1. /\ time \in Nat /\ Window \in Int /\ DayTicks \in Nat \ {0} /\ FlushInterval \in Nat \ {0}
      /\ CleanupInterval \in Nat \ {0} /\ ticks \in Nat /\ retention \in Int
      /\ ticks % FlushInterval \in 0..(FlushInterval - 1)
      /\ ticks % CleanupInterval \in 0..(CleanupInterval - 1)
  BY Measures, Remainder, LogAssumption DEF LogInv
<1>2. \A l \in DOMAIN loggedAt : loggedAt[l] \in Nat
  BY Measures
<1>3. ASSUME failures = 0, NEW l \in Lines(pending) PROVE time - loggedAt[l] < FlushInterval
  <2>1. up
    <3>1. Lines(<<>>) = {}
      BY DEF Lines, ToSet
    <3> QED BY <1>3, <3>1 DEF LogInv
  <2>2. l \in DOMAIN loggedAt
    BY Measures
  <2>3. time - loggedAt[l] <= ticks % FlushInterval
    BY <1>3, <2>1 DEF LogInv, Prompt
  <2> DEFINE y == ticks % FlushInterval
  <2> HIDE DEF y
  <2>4. time - loggedAt[l] <= y /\ y \in 0..(FlushInterval - 1) /\ loggedAt[l] \in Nat
    BY <1>1, <1>2, <2>2, <2>3 DEF y
  <2> QED BY <1>1, <2>4
<1>4. \A l \in gone.expired : time - loggedAt[l] > retention * DayTicks
  BY DEF LogInv, Outlived, Window
<1>5. ASSUME up, failures = 0, retention > 0, NEW d \in Days, NEW l \in Lines(logFiles[d])
      PROVE  time - loggedAt[l] <= (retention + 1) * DayTicks + FlushInterval + CleanupInterval
  <2> DEFINE x == d * DayTicks
             y == ticks % CleanupInterval
  <2>1. logFiles[d] # <<>>
    BY DEF Lines, ToSet
  <2>2. modified[d] # -1 /\ modified[d] \div DayTicks = d /\ modified[d] \in Nat /\ l \in DOMAIN loggedAt
    BY <2>1, Measures DEF LogInv, Accounts, Dated
  <2>3. modified[d] < x + DayTicks /\ x \in Int
    <3>1. x \in Int
      BY <1>1 DEF Days
    <3> QED BY <2>2, <3>1, DayOf
  <2>4. modified[d] >= time - Window - y
    BY <1>5, <2>2 DEF LogInv, Swept
  <2>5. x <= loggedAt[l] + FlushInterval
    BY <1>5 DEF LogInv, Begun
  <2>6. (retention + 1) * DayTicks = Window + DayTicks
    BY <1>1 DEF Window
  <2>7. y \in 0..(CleanupInterval - 1)
    BY <1>1
  <2> HIDE DEF x, y
  <2>8. time - loggedAt[l] <= Window + DayTicks + FlushInterval + CleanupInterval
    BY <1>1, <1>2, <2>2, <2>3, <2>4, <2>5, <2>7
  <2> QED BY <2>6, <2>8
<1> QED BY <1>3, <1>4, <1>5 DEF WrittenInTime

\* The log's types.
LEMMA LogTyped == ASSUME LogInv PROVE LogTypeOK
<1>1. pending \in Seq(DOMAIN loggedAt) /\ modified \in [Days -> Nat \cup {-1}] /\ time \in Nat
  BY ShapedIs DEF LogInv, Accounts
<1>2. ASSUME NEW d \in Days, logFiles[d] # <<>> PROVE modified[d] \in (d * DayTicks)..time
  <2>1. modified[d] \in Nat /\ modified[d] \div DayTicks = d /\ modified[d] <= time
    BY <1>1, <1>2 DEF LogInv, Accounts, Dated
  <2>2. d * DayTicks <= modified[d] /\ d * DayTicks \in Int
    <3>1. d \in Int /\ DayTicks \in Int
      BY LogAssumption DEF Days
    <3>2. (modified[d] \div DayTicks) * DayTicks <= modified[d]
      BY <2>1, DayOf
    <3> QED BY <2>1, <3>1, <3>2
  <2> DEFINE x == d * DayTicks
  <2> HIDE DEF x
  <2>3. x \in Int /\ x <= modified[d]
    BY <2>2 DEF x
  <2>4. modified[d] \in x..time
    BY <1>1, <2>1, <2>3
  <2> QED BY <2>4 DEF x
<1>3. \A d \in Days : modified[d] # -1 => modified[d] \div DayTicks = d
  BY DEF LogInv, Accounts, Dated
<1> QED BY <1>1, <1>2, <1>3 DEF LogTypeOK, LogInv

\* Every line logged is written once, in its place and in time, or its loss has a cause:
\* a write that failed, a crash, or the deletion of its expired file (ChatLogService.tick,
\* flush, deleteExpired, close), for all intervals, retentions and failures.
THEOREM LogAccountedFor == LogSpec => []LogAccounted
<1>1. LogInit => LogInv
  BY LogInitHolds
<1>2. LogInv /\ [LogNext]_logVars => LogInv'
  BY LogStepHolds
<1>3. LogInv => LogAccounted
  <2> SUFFICES ASSUME LogInv PROVE LogAccounted
    OBVIOUS
  <2>1. EveryLineAccounted
    <3>1. Accounts(logFiles, modified, pending, gone.lost, gone.expired, loggedAt, time)
      BY DEF LogInv
    <3>2. DOMAIN loggedAt = Lines(pending) \cup Filed(logFiles) \cup gone.lost \cup gone.expired
      BY <3>1, Zenon DEF Accounts
    <3> QED BY <3>2, Zenon DEF Filed, EveryLineAccounted
  <2> QED BY <2>1, LogTyped, FilesInOrder, TimesKept DEF LogAccounted
<1> QED BY <1>1, <1>2, <1>3, PTL DEF LogSpec

-----------------------------------------------------------------------------
(* Configuration: what is reloaded, and what the files keep, for any resources *)

\* A section loads exactly if a reload does not name it.
LEMMA LoadsUnlessNamed ==
    ASSUME NEW files, ReadsSettings(files), ReadsChannels(files),
           NEW f \in {"settings", "Normal", "function", "filter", "lang"}
    PROVE  f \in Failed(files) <=> ~Loads(f, files)
<1>1. Parses(files["settings"]) /\ Parses(files["Normal"])
  BY DEF ReadsSettings, ReadsChannels, Parses
<1>2. CASE f = "lang"
  BY <1>2 DEF Failed, Loads, Parses, Named
<1>3. CASE f \in {"function", "filter"}
  BY <1>3 DEF Failed, Loads, Named
<1>4. CASE f \in {"settings", "Normal"}
  BY <1>1, <1>4 DEF Failed, Loads, Named
<1> QED BY <1>2, <1>3, <1>4

\* A reload is believed (config.rs: reload_from_folder): what it does not name is in force
\* as the file has it, and what it names is what was in force before, whatever the files.
THEOREM ReloadsAreHonest == ConfigSpec => ReloadHonest
<1> DEFINE Honest ==
      /\ report'.kind = "failed" => UNCHANGED running
      /\ report'.kind = "reloaded" => \A f \in {"settings", "Normal", "function", "filter", "lang"} :
           running'[f] = IF f \in report'.failed THEN running[f] ELSE Says(f, disk'[f])
<1>1. ConfigNext => Honest
  <2>1. ASSUME ReloadConfiguration PROVE Honest
    <3>1. CASE ReadsSettings(disk') /\ ReadsChannels(disk')
      <4>1. report'.kind = "reloaded" /\ report'.failed = Failed(disk')
        BY <2>1, <3>1 DEF ReloadConfiguration
      <4>2. ASSUME NEW f \in {"settings", "Normal", "function", "filter", "lang"}
            PROVE  running'[f] = IF Loads(f, disk') THEN Says(f, disk'[f]) ELSE running[f]
        <5>1. f \in Files /\ f # "Custom"
          BY DEF Files, Reconciled, SeededOnly
        <5> QED BY <2>1, <3>1, <5>1 DEF ReloadConfiguration
      <4>3. ASSUME NEW f \in {"settings", "Normal", "function", "filter", "lang"}
            PROVE  f \in Failed(disk') <=> ~Loads(f, disk')
        BY <3>1, LoadsUnlessNamed
      <4> QED BY <4>1, <4>2, <4>3
    <3>2. CASE ~(ReadsSettings(disk') /\ ReadsChannels(disk'))
      BY <2>1, <3>2 DEF ReloadConfiguration
    <3> QED BY <3>1, <3>2
  <2>2. ASSUME Load PROVE Honest
    <3>1. report'.kind \in {"loaded", "refused"}
      BY <2>2 DEF Load
    <3> QED BY <3>1
  <2>3. ASSUME NEW e \in Edits, Write(e[1], e[2]) PROVE Honest
    BY <2>3 DEF Write, NoReport
  <2>4. ASSUME NEW installed, Stop(installed) PROVE Honest
    BY <2>4 DEF Stop, NoReport
  <2>5. ASSUME NEW n \in DOMAIN Order, NEW torn \in {"bare", "broken"}, Kill(n, torn) PROVE Honest
    BY <2>5 DEF Kill, NoReport
  <2> QED BY <2>1, <2>2, <2>3, <2>4, <2>5 DEF ConfigNext
<1>2. [ConfigNext]_configVars => [Honest]_configVars
  BY <1>1
<1> QED BY <1>2, PTL DEF ConfigSpec, ReloadHonest

\* What it is to begin a path, and the path above a path.
LEMMA Begins ==
    ASSUME NEW q \in Seq(STRING), NEW p \in Seq(STRING)
    PROVE  /\ IsPrefix(q, p) <=> Len(q) <= Len(p) /\ \A i \in 1..Len(q) : q[i] = p[i]
           /\ IsPrefix(p, p) /\ IsPrefix(<<>>, p)
<1>1. ASSUME NEW s \in Seq(STRING), NEW t \in Seq(STRING), Len(s) <= Len(t)
      PROVE  SubSeq(s, 1, Len(s)) = SubSeq(t, 1, Len(s)) <=> \A i \in 1..Len(s) : s[i] = t[i]
  <2> DEFINE a == SubSeq(s, 1, Len(s))
             b == SubSeq(t, 1, Len(s))
             n == Len(s)
  <2>1. n \in Nat /\ 1 \in 1..(n + 1) /\ n \in 0..Len(s) /\ n \in 0..Len(t)
    BY <1>1
  <2>2. a \in Seq(STRING) /\ Len(a) = n /\ \A i \in 1..n : a[i] = s[i]
    BY <2>1, SubSeqProperties
  <2>3. b \in Seq(STRING) /\ Len(b) = n /\ \A i \in 1..n : b[i] = t[i]
    BY <2>1, SubSeqProperties
  <2> HIDE DEF a, b, n
  <2>4. a = b <=> \A i \in 1..n : a[i] = b[i]
    BY <2>2, <2>3, SeqEqual
  <2> QED BY <2>2, <2>3, <2>4 DEF a, b, n
<1>2. IsPrefix(q, p) <=> Len(q) <= Len(p) /\ \A i \in 1..Len(q) : q[i] = p[i]
  BY <1>1 DEF IsPrefix
<1>3. IsPrefix(p, p) /\ IsPrefix(<<>>, p)
  BY <1>1 DEF IsPrefix
<1> QED BY <1>2, <1>3

\* The path above a path is that path without its last part.
LEMMA AboveIs ==
    ASSUME NEW p \in Seq(STRING), p # <<>>
    PROVE  /\ Front(p) \in Seq(STRING) /\ Len(Front(p)) = Len(p) - 1 /\ Len(p) \in Nat \ {0}
           /\ \A i \in 1..(Len(p) - 1) : Front(p)[i] = p[i]
<1>1. Len(p) \in Nat \ {0}
  BY EmptySeq
<1>2. /\ SubSeq(p, 1, Len(p) - 1) \in Seq(STRING) /\ Len(SubSeq(p, 1, Len(p) - 1)) = Len(p) - 1
      /\ \A i \in 1..(Len(p) - 1) : SubSeq(p, 1, Len(p) - 1)[i] = p[i]
  <2> DEFINE n == Len(p) - 1
  <2>1. n \in Nat /\ 1 \in 1..(n + 1) /\ n \in 0..Len(p)
    BY <1>1
  <2> HIDE DEF n
  <2>2. /\ SubSeq(p, 1, n) \in Seq(STRING) /\ Len(SubSeq(p, 1, n)) = n
        /\ \A i \in 1..n : SubSeq(p, 1, n)[i] = p[i]
    BY <2>1, SubSeqProperties
  <2> QED BY <2>2 DEF n
<1> QED BY <1>1, <1>2 DEF Front

\* Whatever begins a path is that path or begins the one above; beginnings of a path
\* begin each other.
LEMMA BeginsAbove ==
    ASSUME NEW q \in Seq(STRING), NEW p \in Seq(STRING), p # <<>>
    PROVE  IsPrefix(q, p) <=> q = p \/ IsPrefix(q, Front(p))
<1>1. /\ Front(p) \in Seq(STRING) /\ Len(Front(p)) = Len(p) - 1 /\ Len(p) \in Nat \ {0} /\ Len(q) \in Nat
      /\ \A i \in 1..(Len(p) - 1) : Front(p)[i] = p[i]
  BY AboveIs
<1>2. ASSUME IsPrefix(q, p), q # p PROVE IsPrefix(q, Front(p))
  <2>1. Len(q) <= Len(p) /\ \A i \in 1..Len(q) : q[i] = p[i]
    BY <1>2, Begins
  <2>2. Len(q) # Len(p)
    BY <1>2, <2>1, SeqEqual
  <2>3. Len(q) <= Len(Front(p)) /\ \A i \in 1..Len(q) : q[i] = Front(p)[i]
    BY <1>1, <2>1, <2>2
  <2> QED BY <1>1, <2>3, Begins
<1>3. ASSUME IsPrefix(q, Front(p)) PROVE IsPrefix(q, p)
  <2>1. Len(q) <= Len(p) - 1 /\ \A i \in 1..Len(q) : q[i] = Front(p)[i]
    BY <1>1, <1>3, Begins
  <2>2. Len(q) <= Len(p) /\ \A i \in 1..Len(q) : q[i] = p[i]
    BY <1>1, <2>1
  <2> QED BY <2>2, Begins
<1>4. IsPrefix(p, p)
  BY Begins
<1> QED BY <1>2, <1>3, <1>4

\* Of two paths that begin a third, one begins the other.
LEMMA BeginsEachOther ==
    ASSUME NEW q \in Seq(STRING), NEW r \in Seq(STRING), NEW p \in Seq(STRING), IsPrefix(q, p), IsPrefix(r, p)
    PROVE  IsPrefix(q, r) \/ IsPrefix(r, q)
<1>1. Len(q) \in Nat /\ Len(r) \in Nat
  OBVIOUS
<1>2. /\ \A i \in 1..Len(q) : q[i] = p[i]
      /\ \A i \in 1..Len(r) : r[i] = p[i]
  BY Begins
<1>3. CASE Len(q) <= Len(r)
  <2>1. \A i \in 1..Len(q) : q[i] = r[i]
    BY <1>1, <1>2, <1>3
  <2> QED BY <1>3, <2>1, Begins
<1>4. CASE Len(r) <= Len(q)
  <2>1. \A i \in 1..Len(r) : r[i] = q[i]
    BY <1>1, <1>2, <1>4
  <2> QED BY <1>4, <2>1, Begins
<1> QED BY <1>1, <1>3, <1>4

\* Beginning is transitive, and goes both ways only between equals.
LEMMA BeginsThrough ==
    ASSUME NEW q \in Seq(STRING), NEW r \in Seq(STRING), NEW p \in Seq(STRING), IsPrefix(q, r), IsPrefix(r, p)
    PROVE  IsPrefix(q, p) /\ (IsPrefix(r, q) => q = r)
<1>1. Len(q) \in Nat /\ Len(r) \in Nat /\ Len(p) \in Nat
  OBVIOUS
<1>2. Len(q) <= Len(r) /\ Len(r) <= Len(p) /\ (\A i \in 1..Len(q) : q[i] = r[i]) /\ (\A i \in 1..Len(r) : r[i] = p[i])
  BY Begins
<1>3. Len(q) <= Len(p) /\ \A i \in 1..Len(q) : q[i] = p[i]
  BY <1>1, <1>2
<1>4. ASSUME IsPrefix(r, q) PROVE q = r
  <2>1. Len(r) <= Len(q)
    BY <1>4, Begins
  <2> QED BY <1>1, <1>2, <2>1, SeqEqual
<1> QED BY <1>3, <1>4, Begins

\* A tree holds what begins its paths, as mappings.
LEMMA TreeBegins ==
    ASSUME NEW tree, IsTree(tree), NEW p \in DOMAIN tree, NEW q \in Seq(STRING), IsPrefix(q, p)
    PROVE  q \in DOMAIN tree /\ (q # p => tree[q] = "map")
<1> DEFINE Bad == {r \in DOMAIN tree : IsPrefix(q, r) /\ ~(q \in DOMAIN tree /\ (q # r => tree[q] = "map"))}
           Lengths == {Len(r) : r \in Bad}
<1>0. DOMAIN tree \subseteq Seq(STRING)
  BY DEF IsTree
<1>1. SUFFICES ASSUME Bad # {} PROVE FALSE
  OBVIOUS
<1>2. PICK r \in Bad : \A s \in Bad : Len(r) <= Len(s)
  <2>1. Lengths \in SUBSET Nat /\ Lengths # {}
    <3>1. \A s \in Bad : Len(s) \in Nat
      BY <1>0
    <3> HIDE DEF Bad
    <3> QED BY <1>1, <3>1
  <2>2. PICK n \in Lengths : \A m \in Lengths : n <= m
    <3> HIDE DEF Lengths
    <3> QED BY <2>1, Least
  <2> HIDE DEF Bad
  <2> QED BY <2>2
<1>3. r \in DOMAIN tree /\ r \in Seq(STRING) /\ IsPrefix(q, r) /\ ~(q \in DOMAIN tree /\ (q # r => tree[q] = "map"))
  BY <1>0
<1>4. r # <<>> /\ q # r
  <2>1. q # r
    BY <1>3
  <2>2. ASSUME r = <<>> PROVE FALSE
    <3>1. Len(q) <= Len(r) /\ Len(q) \in Nat
      BY <1>3, Begins
    <3>2. Len(r) = 0
      BY <2>2
    <3>3. Len(q) = 0
      BY <3>1, <3>2
    <3> QED BY <2>1, <2>2, <3>3, EmptySeq
  <2> QED BY <2>1, <2>2
<1>5. IsPrefix(q, Front(r)) /\ Len(Front(r)) = Len(r) - 1 /\ Len(r) \in Nat
  BY <1>3, <1>4, AboveIs, BeginsAbove
<1>6. Front(r) \in DOMAIN tree /\ tree[Front(r)] = "map"
  BY <1>3, <1>4 DEF IsTree
<1>7. Front(r) \notin Bad
  <2> HIDE DEF Bad
  <2> QED BY <1>2, <1>5
<1> QED BY <1>3, <1>5, <1>6, <1>7

\* The parts of reconcile_map: the keys of the schema in use, those declared, the value
\* of a declared key, the keys at or below a scalar, and the lists.
UsedIn(d, s, u) == {r \in DOMAIN s \cap DOMAIN u : r \notin DOMAIN d /\ Front(r) \in DOMAIN d /\ d[Front(r)] = "map"}
DeclaredIn(d, s, u) == DOMAIN d \cup {p \in DOMAIN s : \E r \in UsedIn(d, s, u) : IsPrefix(r, p)}
ValueIn(d, s, p) == IF p \in DOMAIN d THEN d[p] ELSE s[p]
KeptIn(d, s, u) == {p \in DOMAIN u : \E q \in DeclaredIn(d, s, u) \cap DOMAIN u :
                                       IsScalar(ValueIn(d, s, q)) /\ IsPrefix(q, p)}
KeptListIn(d, s, u, p) == p \in DOMAIN u /\ ValueIn(d, s, p) \in Lists /\ u[p] \in Lists

\* reconcile_map in terms of those parts.
LEMMA ReconcileIs ==
    ASSUME NEW d, NEW s, NEW u
    PROVE  Reconcile(d, s, u) =
             [p \in DeclaredIn(d, s, u) \cup KeptIn(d, s, u) |->
                IF p \in KeptIn(d, s, u) \/ KeptListIn(d, s, u, p) THEN u[p] ELSE ValueIn(d, s, p)]
  BY Zenon DEF Reconcile, UsedIn, DeclaredIn, ValueIn, KeptIn, KeptListIn

\* The paths of a tree, and of its root.
Rooted(tree) == IsTree(tree) /\ tree[<<>>] = "map"

\* What a tree is, in the form the steps use it.
LEMMA TreeIs ==
    ASSUME NEW tree, IsTree(tree)
    PROVE  /\ DOMAIN tree \subseteq Seq(STRING) /\ <<>> \in DOMAIN tree
           /\ \A p \in DOMAIN tree : p # <<>> => Front(p) \in DOMAIN tree /\ tree[Front(p)] = "map"
  BY DEF IsTree

\* Where a declared key stands: in the resource, or below a key of the schema in use,
\* and then no path of the resource is at or below that key.
LEMMA DeclaredIs ==
    ASSUME NEW d, NEW s, NEW u, Rooted(d), Rooted(s), IsTree(u), NEW p \in DeclaredIn(d, s, u), p \notin DOMAIN d
    PROVE  /\ p \in DOMAIN s /\ p \in Seq(STRING) /\ ValueIn(d, s, p) = s[p] /\ p # <<>>
           /\ \E r \in UsedIn(d, s, u) : /\ IsPrefix(r, p) /\ r \in Seq(STRING) /\ r # <<>>
                                         /\ \A x \in Seq(STRING) : IsPrefix(r, x) => x \notin DOMAIN d
<1>1. /\ DOMAIN s \subseteq Seq(STRING) /\ DOMAIN d \subseteq Seq(STRING) /\ <<>> \in DOMAIN d
  BY TreeIs DEF Rooted
<1>2. PICK r \in UsedIn(d, s, u) : IsPrefix(r, p)
  BY DEF DeclaredIn
<1>3. p \in DOMAIN s /\ p \in Seq(STRING) /\ p # <<>> /\ ValueIn(d, s, p) = s[p]
  BY <1>1 DEF DeclaredIn, ValueIn
<1>4. r \in Seq(STRING) /\ r # <<>> /\ r \notin DOMAIN d
  BY <1>1 DEF UsedIn
<1>5. \A x \in Seq(STRING) : IsPrefix(r, x) => x \notin DOMAIN d
  BY <1>4, TreeBegins DEF Rooted
<1> QED BY <1>2, <1>3, <1>4, <1>5

\* No scalar stands above a declared key.
LEMMA DeclaredAbove ==
    ASSUME NEW d, NEW s, NEW u, Rooted(d), Rooted(s), IsTree(u), "map" \notin Lists,
           NEW p \in DeclaredIn(d, s, u), p # <<>>
    PROVE  /\ p \in Seq(STRING) /\ Front(p) \in DeclaredIn(d, s, u) /\ ValueIn(d, s, Front(p)) = "map"
           /\ \A q \in DeclaredIn(d, s, u) : IsPrefix(q, Front(p)) => ~IsScalar(ValueIn(d, s, q))
<1>1. /\ DOMAIN s \subseteq Seq(STRING) /\ DOMAIN d \subseteq Seq(STRING) /\ IsTree(d) /\ IsTree(s)
      /\ DeclaredIn(d, s, u) \subseteq Seq(STRING)
  BY TreeIs DEF Rooted, DeclaredIn
<1>2. p \in Seq(STRING) /\ Front(p) \in Seq(STRING) /\ Len(Front(p)) = Len(p) - 1 /\ Len(p) \in Nat
  BY <1>1, AboveIs
<1>3. ASSUME NEW q \in DeclaredIn(d, s, u), IsPrefix(q, Front(p)) PROVE ValueIn(d, s, q) = "map"
  <2>1. q \in Seq(STRING) /\ IsPrefix(q, p) /\ q # p
    <3>1. q \in Seq(STRING)
      BY <1>1
    <3>2. Len(q) <= Len(Front(p)) /\ Len(q) \in Nat
      BY <1>2, <1>3, <3>1, Begins
    <3>3. q # p
      BY <1>2, <3>2
    <3>4. IsPrefix(q, p)
      BY <1>2, <1>3, <3>1, BeginsAbove
    <3> QED BY <3>1, <3>3, <3>4
  <2>2. CASE p \in DOMAIN d
    <3>1. q \in DOMAIN d /\ d[q] = "map"
      BY <1>1, <2>1, <2>2, TreeBegins
    <3> QED BY <3>1 DEF ValueIn
  <2>3. CASE p \notin DOMAIN d
    <3>1. PICK r \in UsedIn(d, s, u) : /\ IsPrefix(r, p) /\ r \in Seq(STRING) /\ r # <<>>
                                       /\ \A x \in Seq(STRING) : IsPrefix(r, x) => x \notin DOMAIN d
      BY <2>3, DeclaredIs
    <3>2. p \in DOMAIN s
      BY <2>3, DeclaredIs
    <3>3. CASE q \in DOMAIN d
      <4>1. ~IsPrefix(r, q)
        BY <2>1, <3>1, <3>3
      <4>2. IsPrefix(q, r) /\ q # r
        <5>1. IsPrefix(r, r)
          BY <3>1, Begins
        <5> QED BY <1>2, <2>1, <3>1, <4>1, <5>1, BeginsEachOther
      <4>3. IsPrefix(q, Front(r)) /\ Front(r) \in DOMAIN d /\ d[Front(r)] = "map"
        BY <2>1, <3>1, <4>2, BeginsAbove DEF UsedIn
      <4>4. q \in DOMAIN d /\ d[q] = "map"
        BY <1>1, <2>1, <4>3, TreeBegins
      <4> QED BY <4>4 DEF ValueIn
    <3>4. CASE q \notin DOMAIN d
      <4>1. q \in DOMAIN s /\ s[q] = "map"
        BY <1>1, <2>1, <3>2, TreeBegins
      <4> QED BY <3>4, <4>1 DEF ValueIn
    <3> QED BY <3>3, <3>4
  <2> QED BY <2>2, <2>3
<1>4. Front(p) \in DeclaredIn(d, s, u)
  <2>1. CASE p \in DOMAIN d
    BY <1>1, <2>1, TreeIs DEF DeclaredIn
  <2>2. CASE p \notin DOMAIN d
    <3>1. PICK r \in UsedIn(d, s, u) : IsPrefix(r, p) /\ r \in Seq(STRING) /\ r # <<>>
      BY <2>2, DeclaredIs
    <3>2. p \in DOMAIN s
      BY <2>2, DeclaredIs
    <3>3. Front(p) \in DOMAIN s
      BY <1>1, <3>2, TreeIs
    <3>4. CASE r = p
      BY <3>4 DEF DeclaredIn, UsedIn
    <3>5. CASE r # p
      <4>1. IsPrefix(r, Front(p))
        BY <1>2, <3>1, <3>5, BeginsAbove
      <4> QED BY <3>3, <4>1 DEF DeclaredIn
    <3> QED BY <3>4, <3>5
  <2> QED BY <2>1, <2>2
<1>5. IsPrefix(Front(p), Front(p))
  BY <1>2, Begins
<1>6. ~IsScalar("map")
  BY DEF IsScalar
<1> QED BY <1>2, <1>3, <1>4, <1>5, <1>6

\* A value of the result is one of the operator, of the resource or of the schema.
LEMMA ReconcileHas ==
    ASSUME NEW d, NEW s, NEW u, NEW p \in DOMAIN Reconcile(d, s, u)
    PROVE  \/ p \in DOMAIN u /\ Reconcile(d, s, u)[p] = u[p]
           \/ p \in DOMAIN d /\ Reconcile(d, s, u)[p] = d[p]
           \/ p \in DOMAIN s /\ Reconcile(d, s, u)[p] = s[p]
<1>1. p \in DeclaredIn(d, s, u) \cup KeptIn(d, s, u)
      /\ Reconcile(d, s, u)[p] = IF p \in KeptIn(d, s, u) \/ KeptListIn(d, s, u, p) THEN u[p] ELSE ValueIn(d, s, p)
  BY ReconcileIs
<1>2. p \in KeptIn(d, s, u) => p \in DOMAIN u
  BY DEF KeptIn
<1>3. KeptListIn(d, s, u, p) => p \in DOMAIN u
  BY DEF KeptListIn
<1>4. p \in DeclaredIn(d, s, u) => p \in DOMAIN d \/ p \in DOMAIN s
  BY DEF DeclaredIn
<1> QED BY <1>1, <1>2, <1>3, <1>4 DEF ValueIn

\* What is written out is a tree again.
LEMMA ReconcileIsTree ==
    ASSUME NEW d, NEW s, NEW u, Rooted(d), Rooted(s), IsTree(u), "map" \notin Lists
    PROVE  Rooted(Reconcile(d, s, u))
<1> DEFINE R == Reconcile(d, s, u)
           D == DeclaredIn(d, s, u)
           K == KeptIn(d, s, u)
<1>1. /\ DOMAIN R = D \cup K /\ R = [p \in DOMAIN R |-> R[p]]
      /\ \A p \in D \cup K : R[p] = IF p \in K \/ KeptListIn(d, s, u, p) THEN u[p] ELSE ValueIn(d, s, p)
  BY ReconcileIs
<1>2. /\ DOMAIN d \subseteq Seq(STRING) /\ DOMAIN s \subseteq Seq(STRING) /\ DOMAIN u \subseteq Seq(STRING)
      /\ <<>> \in DOMAIN d /\ d[<<>>] = "map"
  BY TreeIs DEF Rooted
<1>3. D \subseteq Seq(STRING) /\ K \subseteq DOMAIN u /\ <<>> \in D
  BY <1>2 DEF DeclaredIn, KeptIn
\* Where the resource or the schema has a mapping, and the operator too if asked.
<1>4. ASSUME NEW p \in D, ValueIn(d, s, p) = "map", p \in DOMAIN u => u[p] = "map" \/ p \notin K PROVE R[p] = "map"
  <2>1. ~KeptListIn(d, s, u, p)
    BY <1>4 DEF KeptListIn
  <2> QED BY <1>1, <1>3, <1>4, <2>1
<1>5. <<>> \notin K
  <2> SUFFICES ASSUME NEW q \in D, IsScalar(ValueIn(d, s, q)), IsPrefix(q, <<>>) PROVE FALSE
    BY DEF KeptIn
  <2> DEFINE e == <<>>
  <2>1. q \in Seq(STRING) /\ e \in Seq(STRING) /\ Len(e) = 0 /\ IsPrefix(q, e)
    BY <1>2, <1>3
  <2> HIDE DEF e
  <2>0. Len(q) <= Len(e)
    BY <2>1, Begins
  <2>2. Len(q) <= 0 /\ Len(q) \in Nat
    BY <2>0, <2>1
  <2>3. q = <<>>
    BY <2>1, <2>2, EmptySeq
  <2> QED BY <1>2, <2>3 DEF ValueIn, IsScalar
<1>6. R[<<>>] = "map"
  <2>1. ValueIn(d, s, <<>>) = "map"
    BY <1>2 DEF ValueIn
  <2> QED BY <1>3, <1>4, <1>5, <2>1
<1>7. ASSUME NEW p \in DOMAIN R, p # <<>> PROVE Front(p) \in DOMAIN R /\ R[Front(p)] = "map"
  <2>1. CASE p \in D
    <3>1. Front(p) \in D /\ ValueIn(d, s, Front(p)) = "map"
      BY <1>7, <2>1, DeclaredAbove
    <3>2. Front(p) \notin K
      <4> SUFFICES ASSUME NEW q \in D, IsScalar(ValueIn(d, s, q)), IsPrefix(q, Front(p)) PROVE FALSE
        BY DEF KeptIn
      <4> QED BY <1>7, <2>1, DeclaredAbove
    <3>3. R[Front(p)] = "map"
      BY <1>4, <3>1, <3>2
    <3> QED BY <1>1, <3>1, <3>3
  <2>2. CASE p \notin D
    <3>1. p \in DOMAIN u /\ p \in Seq(STRING)
      BY <1>1, <1>2, <1>3, <2>2
    <3>2. PICK q \in D \cap DOMAIN u : IsScalar(ValueIn(d, s, q)) /\ IsPrefix(q, p)
      BY <1>1, <2>2 DEF KeptIn
    <3>3. IsPrefix(q, Front(p))
      BY <1>3, <1>7, <2>2, <3>1, <3>2, BeginsAbove
    <3>4. Front(p) \in DOMAIN u /\ u[Front(p)] = "map"
      BY <1>7, <3>1, TreeIs
    <3>5. Front(p) \in K
      BY <3>2, <3>3, <3>4 DEF KeptIn
    <3> QED BY <1>1, <3>4, <3>5
  <2> QED BY <2>1, <2>2
<1>8. DOMAIN R \subseteq Seq(STRING) /\ <<>> \in DOMAIN R
  BY <1>1, <1>2, <1>3
<1> HIDE DEF R, D, K
<1>9. Rooted(R)
  BY <1>1, <1>6, <1>7, <1>8 DEF Rooted, IsTree
<1> QED BY <1>9 DEF R

\* One repair is enough.
LEMMA ReconcileSettles ==
    ASSUME NEW d, NEW s, NEW u, Rooted(d), Rooted(s), IsTree(u), "map" \notin Lists
    PROVE  /\ DOMAIN d \subseteq DOMAIN Reconcile(d, s, u)
           /\ Reconcile(d, s, Reconcile(d, s, u)) = Reconcile(d, s, u)
<1> DEFINE R == Reconcile(d, s, u)
           D == DeclaredIn(d, s, u)
           K == KeptIn(d, s, u)
<1>1. /\ DOMAIN R = D \cup K /\ R = [p \in D \cup K |-> R[p]]
      /\ \A p \in D \cup K : R[p] = IF p \in K \/ KeptListIn(d, s, u, p) THEN u[p] ELSE ValueIn(d, s, p)
  BY ReconcileIs
<1>2. /\ DOMAIN d \subseteq Seq(STRING) /\ DOMAIN s \subseteq Seq(STRING) /\ DOMAIN u \subseteq Seq(STRING)
      /\ <<>> \in DOMAIN d
  BY TreeIs DEF Rooted
<1>3. D \subseteq Seq(STRING) /\ K \subseteq DOMAIN u /\ DOMAIN d \subseteq D
  BY <1>2 DEF DeclaredIn, KeptIn
<1> HIDE DEF R
<1>4. UsedIn(d, s, u) \subseteq UsedIn(d, s, R)
  <2> SUFFICES ASSUME NEW r \in UsedIn(d, s, u) PROVE r \in DOMAIN R
    BY DEF UsedIn
  <2>1. r \in DOMAIN s /\ r \in Seq(STRING)
    BY <1>2 DEF UsedIn
  <2>2. IsPrefix(r, r)
    BY <2>1, Begins
  <2> QED BY <1>1, <2>1, <2>2 DEF DeclaredIn
<1>5. UsedIn(d, s, R) \subseteq UsedIn(d, s, u)
  <2> SUFFICES ASSUME NEW r \in UsedIn(d, s, R) PROVE r \in DOMAIN u
    BY DEF UsedIn
  <2>1. r \in DOMAIN s /\ r \in D \cup K /\ r \notin DOMAIN d /\ Front(r) \in DOMAIN d /\ r \in Seq(STRING) /\ r # <<>>
    BY <1>1, <1>2 DEF UsedIn
  <2>2. CASE r \in K
    BY <1>3, <2>2
  <2>3. CASE r \in D
    <3>1. PICK t \in UsedIn(d, s, u) : /\ IsPrefix(t, r) /\ t \in Seq(STRING)
                                       /\ \A x \in Seq(STRING) : IsPrefix(t, x) => x \notin DOMAIN d
      BY <2>1, <2>3, DeclaredIs
    <3>2. ~IsPrefix(t, Front(r))
      BY <1>2, <2>1, <3>1
    <3>3. t = r
      BY <2>1, <3>1, <3>2, BeginsAbove
    <3> QED BY <3>3 DEF UsedIn
  <2> QED BY <2>1, <2>2, <2>3
<1>6. DeclaredIn(d, s, R) = D
  BY <1>4, <1>5 DEF DeclaredIn
<1>7. K \subseteq KeptIn(d, s, R) /\ KeptIn(d, s, R) \subseteq D \cup K
  BY <1>1, <1>6 DEF KeptIn
<1> DEFINE K2 == KeptIn(d, s, R)
<1>8. ASSUME NEW p \in D \cup K
      PROVE  (IF p \in K2 \/ KeptListIn(d, s, R, p) THEN R[p] ELSE ValueIn(d, s, p)) = R[p]
  <2>1. CASE p \in K2 \/ KeptListIn(d, s, R, p)
    BY <2>1
  <2>2. CASE ~(p \in K2 \/ KeptListIn(d, s, R, p))
    <3>1. p \notin K
      BY <1>7, <2>2
    <3>2. ~KeptListIn(d, s, u, p)
      BY <1>1, <2>2, <3>1 DEF KeptListIn
    <3>3. R[p] = ValueIn(d, s, p)
      BY <1>1, <3>1, <3>2
    <3> QED BY <2>2, <3>3
  <2> QED BY <2>1, <2>2
<1>9. Reconcile(d, s, R) = [p \in D \cup K2 |-> IF p \in K2 \/ KeptListIn(d, s, R, p) THEN R[p] ELSE ValueIn(d, s, p)]
  BY <1>6, ReconcileIs
<1>10. D \cup K2 = D \cup K
  BY <1>7
<1> HIDE DEF D, K, K2
<1>11. Reconcile(d, s, R) = R
  BY <1>1, <1>8, <1>9, <1>10
<1>12. DOMAIN d \subseteq DOMAIN R
  BY <1>1, <1>3
<1> QED BY <1>11, <1>12 DEF R

\* A declared key keeps what the operator put there, a scalar or a list for a list.
LEMMA DeclaredKept ==
    ASSUME NEW d, NEW s, NEW u, NEW p \in DeclaredIn(d, s, u), p \in DOMAIN u, p \in Seq(STRING),
           IsScalar(ValueIn(d, s, p)) \/ {ValueIn(d, s, p), u[p]} \subseteq Lists
    PROVE  p \in DOMAIN Reconcile(d, s, u) /\ Reconcile(d, s, u)[p] = u[p]
<1>1. p \in KeptIn(d, s, u) \/ KeptListIn(d, s, u, p)
  <2>1. CASE IsScalar(ValueIn(d, s, p))
    <3>1. IsPrefix(p, p)
      BY Begins
    <3> QED BY <2>1, <3>1 DEF KeptIn
  <2>2. CASE {ValueIn(d, s, p), u[p]} \subseteq Lists
    BY <2>2 DEF KeptListIn
  <2> QED BY <2>1, <2>2
<1> QED BY <1>1, ReconcileIs

\* A key of the schema that the operator uses is declared, where the kinds agree.
LEMMA UsedIsDeclared ==
    ASSUME NEW d, NEW s, NEW u, Rooted(d), Rooted(s), IsTree(u), NEW p \in DOMAIN s, p \in DOMAIN u, p \notin DOMAIN d,
           \A x \in DOMAIN s \cap DOMAIN d : s[x] = "map" => d[x] = "map"
    PROVE  p \in DeclaredIn(d, s, u) /\ ValueIn(d, s, p) = s[p]
<1> DEFINE Open == {x \in Seq(STRING) : IsPrefix(x, p) /\ x \notin DOMAIN d}
           Lengths == {Len(x) : x \in Open}
<1>1. /\ IsTree(d) /\ IsTree(s) /\ <<>> \in DOMAIN d /\ p \in Seq(STRING)
  BY TreeIs DEF Rooted
<1>2. PICK r \in Open : \A x \in Open : Len(r) <= Len(x)
  <2>1. Lengths \in SUBSET Nat /\ Lengths # {}
    <3>1. p \in Open
      BY <1>1, Begins
    <3>2. \A x \in Open : Len(x) \in Nat
      OBVIOUS
    <3> HIDE DEF Open
    <3> QED BY <3>1, <3>2
  <2>2. PICK n \in Lengths : \A m \in Lengths : n <= m
    <3> HIDE DEF Lengths
    <3> QED BY <2>1, Least
  <2> HIDE DEF Open
  <2> QED BY <2>2
<1>3. r \in Seq(STRING) /\ IsPrefix(r, p) /\ r \notin DOMAIN d /\ r # <<>>
  BY <1>1
<1>4. Front(r) \in Seq(STRING) /\ Len(Front(r)) = Len(r) - 1 /\ Len(r) \in Nat /\ IsPrefix(Front(r), r)
  <2>1. Front(r) \in Seq(STRING) /\ Len(Front(r)) = Len(r) - 1 /\ Len(r) \in Nat
    BY <1>3, AboveIs
  <2>2. IsPrefix(Front(r), Front(r))
    BY <2>1, Begins
  <2> QED BY <1>3, <2>1, <2>2, BeginsAbove
<1>5. IsPrefix(Front(r), p)
  BY <1>1, <1>3, <1>4, BeginsThrough
<1>6. Front(r) \in DOMAIN d
  <2>1. Front(r) \notin Open
    <3> HIDE DEF Open
    <3> QED BY <1>2, <1>4
  <2> QED BY <1>4, <1>5, <2>1
<1>7. r \in DOMAIN s /\ r \in DOMAIN u
  BY <1>1, <1>3, TreeBegins
<1>8. d[Front(r)] = "map"
  BY <1>1, <1>3, <1>6, <1>7, TreeIs
<1>9. r \in UsedIn(d, s, u)
  BY <1>3, <1>6, <1>7, <1>8 DEF UsedIn
<1> QED BY <1>3, <1>9 DEF DeclaredIn, ValueIn

-----------------------------------------------------------------------------
\* The resources a file is repaired against.
LEMMA ResourcesAre ==
    ASSUME version \in DOMAIN Bundled, NEW f \in Files
    PROVE  /\ Rooted(DefaultOf(f)) /\ Rooted(SchemaOf(f)) /\ "map" \notin Lists
<1>1. Rooted(Schema) /\ "map" \notin Lists
  BY ConfigAssumption DEF Rooted
<1>2. f # "Custom" => Rooted(Bundled[version][f])
  BY ConfigAssumption DEF Rooted
<1> QED BY <1>1, <1>2 DEF DefaultOf, SchemaOf

\* A file after its repair.
There(f) == IF disk[f] = Missing /\ f # "Custom" THEN DefaultOf(f) ELSE disk[f]

\* A repair fills in a missing file, and reconciles one that is a mapping.
LEMMA RepairedIs ==
    ASSUME version \in DOMAIN Bundled, NEW f \in Files, IsTree(disk[f])
    PROVE  /\ IsTree(There(f)) /\ IsTree(Repaired(f))
           /\ Repaired(f) = IF f \in Reconciled /\ Root(There(f)) = "map"
                            THEN Reconcile(DefaultOf(f), SchemaOf(f), There(f)) ELSE There(f)
           /\ Root(There(f)) = "map" <=> Root(Repaired(f)) = "map"
           /\ Root(disk[f]) = "map" => There(f) = disk[f]
<1>1. Rooted(DefaultOf(f)) /\ Rooted(SchemaOf(f)) /\ "map" \notin Lists
  BY ResourcesAre
<1>2. IsTree(There(f))
  BY <1>1 DEF There, Rooted
<1>3. Repaired(f) = IF f \in Reconciled /\ Root(There(f)) = "map"
                    THEN Reconcile(DefaultOf(f), SchemaOf(f), There(f)) ELSE There(f)
  BY Zenon DEF Repaired, There
<1>4. Rooted(Reconcile(DefaultOf(f), SchemaOf(f), There(f)))
  BY <1>1, <1>2, ReconcileIsTree
<1>5. Root(Missing) = "missing"
  BY DEF Root, Missing, Bare
<1> QED BY <1>2, <1>3, <1>4, <1>5 DEF Rooted, Root, There

\* What the operator wrote in a file that is repaired, and what of it a version keeps.
HonoursIn(declared, p, value) ==
    p \in DOMAIN declared /\ (IsScalar(declared[p]) \/ {declared[p], value} \subseteq Lists)
DeclaresIn(f, p, value) ==
    \/ f # "Custom" /\ HonoursIn(Bundled[1][f], p, value)
    \/ f \in {"Normal", "Custom"} /\ HonoursIn(Schema, p, value)

\* A repair by any version keeps what the operator wrote, where the keys stay.
LEMMA WordKept ==
    ASSUME KeysStay, version \in DOMAIN Bundled, NEW f \in Reconciled, NEW u, IsTree(u),
           NEW p \in DOMAIN u, DeclaresIn(f, p, u[p])
    PROVE  /\ p \in DOMAIN Reconcile(DefaultOf(f), SchemaOf(f), u)
           /\ Reconcile(DefaultOf(f), SchemaOf(f), u)[p] = u[p]
<1> DEFINE d == DefaultOf(f)
           s == SchemaOf(f)
<1>0. f \in Files /\ p \in Seq(STRING)
  BY TreeIs DEF Files
<1>1. Rooted(d) /\ Rooted(s) /\ "map" \notin Lists
  BY <1>0, ResourcesAre
<1>2. ASSUME HonoursIn(d, p, u[p]) PROVE p \in DeclaredIn(d, s, u) /\ ValueIn(d, s, p) = d[p]
  BY <1>2 DEF HonoursIn, DeclaredIn, ValueIn
<1>3. \A a, b : SameKind(a, b) /\ (IsScalar(a) \/ {a, u[p]} \subseteq Lists) => (IsScalar(b) \/ {b, u[p]} \subseteq Lists)
  BY DEF SameKind, IsScalar
<1>4. CASE f # "Custom" /\ HonoursIn(Bundled[1][f], p, u[p])
  <2>1. d = Bundled[version][f]
    BY <1>4 DEF DefaultOf
  <2>2. Bundled[1][f][p] # "map"
    BY <1>1, <1>4 DEF HonoursIn, IsScalar
  <2>3. p \in DOMAIN d /\ SameKind(Bundled[1][f][p], d[p])
    BY <1>4, <2>1, <2>2 DEF KeysStay, HonoursIn
  <2>4. HonoursIn(d, p, u[p])
    BY <1>3, <1>4, <2>3 DEF HonoursIn
  <2> HIDE DEF d, s
  <2>5. p \in DOMAIN Reconcile(d, s, u) /\ Reconcile(d, s, u)[p] = u[p]
    BY <1>0, <1>2, <2>4, DeclaredKept DEF HonoursIn
  <2> QED BY <2>5 DEF d, s
<1>5. CASE f \in {"Normal", "Custom"} /\ HonoursIn(Schema, p, u[p])
  <2>1. s = Schema /\ (f = "Custom" => d = Schema) /\ (f = "Normal" => d = Bundled[version]["Normal"])
    BY <1>5 DEF DefaultOf, SchemaOf
  <2>2. \A x \in DOMAIN s \cap DOMAIN d : SameKind(s[x], d[x])
    BY <1>5, <2>1 DEF KeysStay, SameKind
  <2>3. p \in DOMAIN s /\ (IsScalar(s[p]) \/ {s[p], u[p]} \subseteq Lists)
    BY <1>5, <2>1 DEF HonoursIn
  <2> HIDE DEF d, s
  <2>4. CASE p \in DOMAIN d
    <3>1. HonoursIn(d, p, u[p])
      BY <1>3, <2>2, <2>3, <2>4 DEF HonoursIn
    <3>2. p \in DOMAIN Reconcile(d, s, u) /\ Reconcile(d, s, u)[p] = u[p]
      BY <1>0, <1>2, <3>1, DeclaredKept DEF HonoursIn
    <3> QED BY <3>2 DEF d, s
  <2>5. CASE p \notin DOMAIN d
    <3>1. p \in DeclaredIn(d, s, u) /\ ValueIn(d, s, p) = s[p]
      BY <1>1, <2>2, <2>3, <2>5, UsedIsDeclared DEF SameKind
    <3>2. p \in DOMAIN Reconcile(d, s, u) /\ Reconcile(d, s, u)[p] = u[p]
      BY <1>0, <2>3, <3>1, DeclaredKept
    <3> QED BY <3>2 DEF d, s
  <2> QED BY <2>4, <2>5
<1> QED BY <1>4, <1>5 DEF DeclaresIn

\* What a file holds: a tree, with what the operator wrote in it; and while the operator
\* wrote nothing and nothing was torn, what the plugin can start with.
WordsIn(f, tree) ==
    /\ f \in SeededOnly /\ written[f] # Missing => tree = written[f]
    /\ f \in Reconciled /\ Root(written[f]) = "map" =>
         /\ Root(tree) = "map"
         /\ \A p \in DOMAIN written[f] : DeclaresIn(f, p, written[f][p]) => p \in DOMAIN tree /\ tree[p] = written[f][p]
Fresh(f, tree) ==
    /\ f # "Custom" => Root(tree) = "map"
    /\ f = "settings" => \A p \in DOMAIN tree : tree[p] \notin Unreadable
    /\ f = "Normal" => ~HasOption(tree, "Private")
    /\ f = "Custom" => tree = Missing
Clean(f, tree) ==
    f \in {"settings", "Normal", "Custom", "special"} /\ written[f] = Missing /\ kills = 0 =>
      tree = Missing \/ Fresh(f, tree)
FileOK(f, tree) == IsTree(tree) /\ WordsIn(f, tree) /\ Clean(f, tree)

ConfigInv ==
    /\ version \in DOMAIN Bundled /\ loaded \in BOOLEAN /\ kills \in Nat
    /\ report.kind \in {"none", "loaded", "refused", "reloaded", "failed"}
    /\ disk = [f \in Files |-> disk[f]] /\ written = [f \in Files |-> written[f]]
    /\ \A f \in Files : FileOK(f, disk[f])
    /\ RepairSettles /\ StartsUnlessBroken /\ EveryMessageHasText

\* A repair spoils no file, and what is seeded can be read.
LEMMA RepairKeeps ==
    ASSUME KeysStay, BundleReadable, version \in DOMAIN Bundled, NEW f \in Files, FileOK(f, disk[f])
    PROVE  /\ FileOK(f, Repaired(f))
           /\ f \in {"settings", "Normal", "Custom", "special"} /\ written[f] = Missing /\ kills = 0 =>
                Fresh(f, Repaired(f))
<1> DEFINE u == There(f)
           d == DefaultOf(f)
           s == SchemaOf(f)
           R == Repaired(f)
<1>1. /\ IsTree(u) /\ IsTree(R) /\ (Root(u) = "map" <=> Root(R) = "map") /\ (Root(disk[f]) = "map" => u = disk[f])
      /\ R = IF f \in Reconciled /\ Root(u) = "map" THEN Reconcile(d, s, u) ELSE u
  BY RepairedIs DEF FileOK
<1>2. WordsIn(f, R)
  <2>1. CASE f \in SeededOnly /\ written[f] # Missing
    <3>1. f \notin Reconciled
      BY <2>1 DEF SeededOnly, Reconciled
    <3>2. disk[f] = written[f] /\ u = disk[f]
      BY <2>1 DEF FileOK, WordsIn, There
    <3> QED BY <1>1, <3>1, <3>2 DEF WordsIn
  <2>2. CASE f \in Reconciled /\ Root(written[f]) = "map"
    <3>1. /\ Root(disk[f]) = "map"
          /\ \A p \in DOMAIN written[f] : DeclaresIn(f, p, written[f][p]) => p \in DOMAIN disk[f] /\ disk[f][p] = written[f][p]
      BY <2>2 DEF FileOK, WordsIn
    <3>2. u = disk[f] /\ R = Reconcile(d, s, u) /\ Root(R) = "map"
      BY <1>1, <2>2, <3>1
    <3>3. ASSUME NEW p \in DOMAIN written[f], DeclaresIn(f, p, written[f][p]) PROVE p \in DOMAIN R /\ R[p] = written[f][p]
      <4>1. p \in DOMAIN u /\ u[p] = written[f][p]
        BY <3>1, <3>2, <3>3
      <4>2. p \in DOMAIN Reconcile(d, s, u) /\ Reconcile(d, s, u)[p] = u[p]
        BY <1>1, <2>2, <3>3, <4>1, WordKept
      <4> QED BY <3>2, <4>1, <4>2
    <3>4. f \notin SeededOnly
      BY <2>2 DEF SeededOnly, Reconciled
    <3> QED BY <3>2, <3>3, <3>4 DEF WordsIn
  <2> QED BY <2>1, <2>2 DEF WordsIn
<1>3. ASSUME f \in {"settings", "Normal", "Custom", "special"}, written[f] = Missing, kills = 0
      PROVE  Fresh(f, R)
  <2>1. disk[f] = Missing \/ Fresh(f, disk[f])
    BY <1>3 DEF FileOK, Clean
  <2>2. CASE f = "Custom"
    <3>1. disk[f] = Missing /\ u = Missing /\ Root(u) = "missing"
      BY <2>1, <2>2 DEF Fresh, There, Root, Missing, Bare
    <3>2. R = Missing
      BY <1>1, <3>1
    <3> QED BY <2>2, <3>2 DEF Fresh
  <2>3. CASE f # "Custom"
    <3>1. d = Bundled[version][f] /\ Rooted(d) /\ (f # "Normal" => s = d) /\ (f = "Normal" => s = Schema)
      BY <1>3, <2>3, ResourcesAre DEF DefaultOf, SchemaOf
    <3>2. u = d \/ (u = disk[f] /\ Fresh(f, disk[f]))
      BY <2>1, <2>3 DEF There
    <3>3. Root(u) = "map" /\ Root(R) = "map"
      BY <1>1, <2>3, <3>1, <3>2 DEF Fresh, Rooted, Root
    <3>4. CASE f = "special"
      BY <3>3, <3>4 DEF Fresh
    <3>5. CASE f = "settings"
      <4>1. R = Reconcile(d, s, u)
        BY <1>1, <3>3, <3>5 DEF Reconciled
      <4>2. /\ \A p \in DOMAIN d : d[p] \notin Unreadable
            /\ \A p \in DOMAIN u : u[p] \notin Unreadable
        BY <3>1, <3>2, <3>5 DEF BundleReadable, Fresh
      <4>3. ASSUME NEW p \in DOMAIN R PROVE R[p] \notin Unreadable
        <5> HIDE DEF d, s, u, R
        <5>1. \/ p \in DOMAIN u /\ R[p] = u[p]
              \/ p \in DOMAIN d /\ R[p] = d[p]
              \/ p \in DOMAIN s /\ R[p] = s[p]
          BY <4>1, ReconcileHas
        <5> QED BY <3>1, <3>5, <4>2, <5>1
      <4> QED BY <3>3, <3>5, <4>3 DEF Fresh
    <3>6. CASE f = "Normal"
      <4>1. R = Reconcile(d, s, u)
        BY <1>1, <3>3, <3>6 DEF Reconciled
      <4>2. ~HasOption(d, "Private") /\ ~HasOption(s, "Private") /\ ~HasOption(u, "Private")
        BY <3>1, <3>2, <3>6 DEF BundleReadable, Fresh
      <4>3. ~HasOption(R, "Private")
        <5> SUFFICES ASSUME HasOption(R, "Private") PROVE FALSE
          OBVIOUS
        <5> DEFINE p == <<"Options", "Private">>
        <5>1. p \in DOMAIN R /\ R[p] = "true"
          BY DEF HasOption
        <5>2. /\ ~(p \in DOMAIN d /\ d[p] = "true") /\ ~(p \in DOMAIN s /\ s[p] = "true")
              /\ ~(p \in DOMAIN u /\ u[p] = "true")
          BY <4>2 DEF HasOption
        <5> HIDE DEF d, s, u, R, p
        <5>3. \/ p \in DOMAIN u /\ R[p] = u[p]
              \/ p \in DOMAIN d /\ R[p] = d[p]
              \/ p \in DOMAIN s /\ R[p] = s[p]
          BY <4>1, <5>1, ReconcileHas
        <5> QED BY <5>1, <5>2, <5>3
      <4> QED BY <3>3, <3>6, <4>3 DEF Fresh
    <3> QED BY <1>3, <2>3, <3>4, <3>5, <3>6
  <2> QED BY <2>2, <2>3
<1>4. Clean(f, R)
  BY <1>3 DEF Clean
<1> QED BY <1>1, <1>2, <1>3, <1>4 DEF FileOK

\* What Load and ReloadConfiguration share: the files are those repaired.
LEMMA AllRepairedKeeps ==
    ASSUME KeysStay, BundleReadable, ConfigInv, disk' = AllRepaired, version' = version, written' = written, kills' = kills
    PROVE  /\ disk' = [f \in Files |-> disk'[f]] /\ \A f \in Files : disk'[f] = Repaired(f)
           /\ (\A f \in Files : FileOK(f, disk[f]))'
           /\ RepairSettles'
<1>1. disk' = [f \in Files |-> disk'[f]] /\ \A f \in Files : disk'[f] = Repaired(f)
  BY DEF AllRepaired
<1>2. \A f \in Files : FileOK(f, Repaired(f))
  BY RepairKeeps DEF ConfigInv
<1>3. (\A f \in Files : FileOK(f, disk[f]))'
  BY <1>1, <1>2 DEF FileOK, WordsIn, Clean
<1>4. ASSUME NEW f \in Reconciled, Root(disk'[f]) = "map"
      PROVE  DOMAIN DefaultOf(f)' \subseteq DOMAIN disk'[f] /\ Repaired(f)' = disk'[f]
  <2> DEFINE d == DefaultOf(f)
             s == SchemaOf(f)
             u == There(f)
             R == Repaired(f)
  <2>1. f \in Files /\ IsTree(disk[f])
    BY DEF Files, ConfigInv, FileOK
  <2>2. /\ IsTree(u) /\ (Root(u) = "map" <=> Root(R) = "map")
        /\ R = IF f \in Reconciled /\ Root(u) = "map" THEN Reconcile(d, s, u) ELSE u
    BY <2>1, RepairedIs DEF ConfigInv
  <2>3. Rooted(d) /\ Rooted(s) /\ "map" \notin Lists
    BY <2>1, ResourcesAre DEF ConfigInv
  <2>4. R = disk'[f] /\ R = Reconcile(d, s, u)
    BY <1>1, <1>4, <2>1, <2>2
  <2>5. DOMAIN d \subseteq DOMAIN R /\ Reconcile(d, s, R) = R
    BY <2>2, <2>3, <2>4, ReconcileSettles
  <2>6. d' = d /\ s' = s
    BY DEF DefaultOf, SchemaOf
  <2>7. Root(Missing) # "map"
    BY DEF Root, Missing, Bare
  <2>8. Repaired(f)' = Reconcile(d', s', disk'[f])
    <3>1. disk'[f] # Missing /\ Root(disk'[f]) = "map"
      BY <1>4, <2>7
    <3> QED BY <1>4, <3>1, Zenon DEF Repaired
  <2> QED BY <2>4, <2>5, <2>6, <2>8
<1>5. RepairSettles'
  BY <1>4 DEF RepairSettles
<1> QED BY <1>1, <1>3, <1>5

\* The texts of a language file over those that are bundled.
LEMMA TableHas ==
    ASSUME NEW tree
    PROVE  DOMAIN TextsOf(Bundled[version]["lang"]) \subseteq DOMAIN Table(tree)
  BY DEF Table

\* Initially no file is there and nothing was written.
LEMMA ConfigInitHolds == ConfigInit => ConfigInv
<1> SUFFICES ASSUME ConfigInit PROVE ConfigInv
  OBVIOUS
<1>1. IsTree(Missing) /\ Root(Missing) = "missing"
  BY DEF IsTree, Missing, Bare, Root
<1>2. \A f \in Files : disk[f] = Missing /\ written[f] = Missing
  BY DEF ConfigInit
<1>3. \A f \in Files : FileOK(f, disk[f])
  BY <1>1, <1>2 DEF FileOK, WordsIn, Clean, Files
<1>4. RepairSettles /\ StartsUnlessBroken /\ EveryMessageHasText
  BY DEF ConfigInit, NoReport, RepairSettles, StartsUnlessBroken, EveryMessageHasText
<1>5. disk = [f \in Files |-> disk[f]] /\ written = [f \in Files |-> written[f]]
  BY DEF ConfigInit
<1>6. version \in DOMAIN Bundled /\ loaded \in BOOLEAN /\ kills \in Nat /\ report.kind = "none"
  BY ConfigAssumption DEF ConfigInit, NoReport
<1> QED BY <1>3, <1>4, <1>5, <1>6 DEF ConfigInv

\* With nothing written and nothing torn, what is repaired can be read.
LEMMA FreshIsRead ==
    ASSUME NEW files, \A f \in {"settings", "Normal", "Custom", "special"} : Fresh(f, files[f])
    PROVE  ReadsSettings(files) /\ ReadsChannels(files) /\ Parses(files["special"])
<1>1. ReadsSettings(files) /\ Parses(files["special"]) /\ Parses(files["Normal"])
  BY DEF Fresh, ReadsSettings, Parses
<1>2. ~Parses(files["Custom"])
  BY DEF Fresh, Parses, Missing, Bare, Root
<1>3. ~HasOption(files["Normal"], "Private")
  BY DEF Fresh
<1>4. ReadsChannels(files)
  BY <1>1, <1>2, <1>3 DEF ReadsChannels
<1> QED BY <1>1, <1>4

\* A start repairs every file, then reads or refuses them.
LEMMA LoadKeeps == ASSUME KeysStay, BundleReadable, ConfigInv, Load PROVE ConfigInv'
<1>1. /\ disk' = AllRepaired /\ version' = version /\ written' = written /\ kills' = kills
      /\ loaded' = (ReadsSettings(disk') /\ ReadsChannels(disk') /\ Parses(disk'["special"]))
      /\ report' = [kind |-> IF loaded' THEN "loaded" ELSE "refused", failed |-> {}]
  BY DEF Load
<1>2. /\ disk' = [f \in Files |-> disk'[f]] /\ \A f \in Files : disk'[f] = Repaired(f)
      /\ (\A f \in Files : FileOK(f, disk[f]))' /\ RepairSettles'
  BY <1>1, AllRepairedKeeps
<1>3. report'.kind \in {"loaded", "refused"} /\ (report'.kind = "refused" => ~loaded') /\ loaded' \in BOOLEAN
  BY <1>1
<1>4. StartsUnlessBroken'
  <2> SUFFICES ASSUME report'.kind = "refused", kills = 0,
                      \A f \in {"settings", "Normal", "Custom", "special"} : written[f] = Missing
               PROVE  FALSE
    BY <1>1 DEF StartsUnlessBroken, ConfigInv
  <2>1. ASSUME NEW f \in {"settings", "Normal", "Custom", "special"} PROVE Fresh(f, disk'[f])
    <3>1. f \in Files
      BY DEF Files, Reconciled, SeededOnly
    <3>2. FileOK(f, disk[f])
      BY <3>1 DEF ConfigInv
    <3> QED BY <1>2, <3>1, <3>2, RepairKeeps DEF ConfigInv
  <2>2. ReadsSettings(disk') /\ ReadsChannels(disk') /\ Parses(disk'["special"])
    BY <2>1, FreshIsRead
  <2> QED BY <1>1, <1>3, <2>2
<1>5. EveryMessageHasText'
  <2> SUFFICES ASSUME loaded' PROVE DOMAIN TextsOf(Bundled[version]["lang"]) \subseteq DOMAIN running'["lang"]
    BY <1>1 DEF EveryMessageHasText, TextsOf
  <2>1. "lang" \in Files
    BY DEF Files, SeededOnly
  <2>2. running'["lang"] = IF Loads("lang", disk') THEN Says("lang", disk'["lang"]) ELSE Table(Bare("default"))
    BY <2>1 DEF Load
  <2>3. Says("lang", disk'["lang"]) = Table(disk'["lang"])
    BY DEF Says
  <2> QED BY <2>2, <2>3, TableHas
<1> QED BY <1>1, <1>2, <1>3, <1>4, <1>5 DEF ConfigInv

\* A reload repairs every file, and leaves in force what it cannot read.
LEMMA ReloadKeeps == ASSUME KeysStay, BundleReadable, ConfigInv, ReloadConfiguration PROVE ConfigInv'
<1>1. /\ disk' = AllRepaired /\ version' = version /\ written' = written /\ kills' = kills /\ loaded' = loaded
      /\ loaded
  BY DEF ReloadConfiguration
<1>2. /\ disk' = [f \in Files |-> disk'[f]] /\ \A f \in Files : disk'[f] = Repaired(f)
      /\ (\A f \in Files : FileOK(f, disk[f]))' /\ RepairSettles'
  BY <1>1, AllRepairedKeeps
<1>3. report'.kind \in {"reloaded", "failed"}
  BY DEF ReloadConfiguration
<1>4. StartsUnlessBroken'
  BY <1>3 DEF StartsUnlessBroken
<1>5. EveryMessageHasText'
  <2> SUFFICES DOMAIN TextsOf(Bundled[version]["lang"]) \subseteq DOMAIN running'["lang"]
    BY <1>1 DEF EveryMessageHasText, TextsOf
  <2>1. "lang" \in Files /\ "lang" # "Custom"
    BY DEF Files, SeededOnly
  <2>2. running'["lang"] = running["lang"] \/ running'["lang"] = Says("lang", disk'["lang"])
    BY <2>1 DEF ReloadConfiguration
  <2>3. Says("lang", disk'["lang"]) = Table(disk'["lang"])
    BY DEF Says
  <2>4. DOMAIN TextsOf(Bundled[version]["lang"]) \subseteq DOMAIN running["lang"]
    BY <1>1 DEF ConfigInv, EveryMessageHasText
  <2> QED BY <2>2, <2>3, <2>4, TableHas
<1> QED BY <1>1, <1>2, <1>3, <1>4, <1>5 DEF ConfigInv

\* What the operator writes is in the file that was written.
LEMMA WriteKeeps == ASSUME ConfigInv, NEW e \in Edits, Write(e[1], e[2]) PROVE ConfigInv'
<1>1. e[1] \in Files /\ IsTree(e[2])
  BY ConfigAssumption
<1>2. /\ disk' = [disk EXCEPT ![e[1]] = e[2]] /\ written' = [written EXCEPT ![e[1]] = e[2]]
      /\ version' = version /\ running' = running /\ loaded' = loaded /\ kills' = kills
      /\ report'.kind = "none"
  BY DEF Write, NoReport
<1>3. \A f \in Files : IF f = e[1] THEN disk'[f] = e[2] /\ written'[f] = e[2]
                       ELSE disk'[f] = disk[f] /\ written'[f] = written[f]
  BY <1>1, <1>2 DEF ConfigInv
<1>4. disk' = [f \in Files |-> disk'[f]] /\ written' = [f \in Files |-> written'[f]]
  BY <1>2 DEF ConfigInv
<1>5. ASSUME NEW f \in Files PROVE FileOK(f, disk[f])'
  <2>1. CASE f = e[1]
    BY <1>1, <1>3, <2>1 DEF FileOK, WordsIn, Clean
  <2>2. CASE f # e[1]
    BY <1>2, <1>3, <2>2 DEF ConfigInv, FileOK, WordsIn, Clean
  <2> QED BY <2>1, <2>2
<1>6. RepairSettles' /\ StartsUnlessBroken'
  BY <1>2 DEF RepairSettles, StartsUnlessBroken
<1>7. EveryMessageHasText'
  BY <1>2 DEF ConfigInv, EveryMessageHasText, TextsOf
<1> QED BY <1>2, <1>4, <1>5, <1>6, <1>7 DEF ConfigInv

\* A stop, with or without an update, leaves the files alone.
LEMMA StopKeeps == ASSUME ConfigInv, NEW v \in DOMAIN Bundled, Stop(v) PROVE ConfigInv'
<1>1. /\ version' = v /\ loaded' = FALSE /\ report'.kind = "none"
      /\ UNCHANGED <<disk, running, written, edits, kills>>
  BY DEF Stop, NoReport
<1>2. RepairSettles' /\ StartsUnlessBroken' /\ EveryMessageHasText'
  BY <1>1 DEF RepairSettles, StartsUnlessBroken, EveryMessageHasText
<1>3. ASSUME NEW f \in Files PROVE FileOK(f, disk[f])'
  BY <1>1 DEF ConfigInv, FileOK, WordsIn, Clean
<1> QED BY <1>1, <1>2, <1>3 DEF ConfigInv

\* A kill during a repair tears at most a file that was not there.
LEMMA KillKeeps ==
    ASSUME KeysStay, BundleReadable, ConfigInv, NEW n \in DOMAIN Order, NEW torn \in {"bare", "broken"}, Kill(n, torn)
    PROVE  ConfigInv'
<1>1. /\ kills' = kills + 1 /\ kills' # 0 /\ kills' \in Nat /\ disk[Order[n]] = Missing
      /\ loaded' = FALSE /\ report'.kind = "none" /\ UNCHANGED <<version, running, written, edits>>
  BY DEF Kill, NoReport, ConfigInv
<1>2. disk' = [f \in Files |-> disk'[f]]
  BY DEF Kill
<1>3. \A f \in Files : \/ disk'[f] = Repaired(f) \/ disk'[f] = disk[f]
                       \/ f = Order[n] /\ disk'[f] = Bare(torn)
  BY DEF Kill
<1>4. RepairSettles' /\ StartsUnlessBroken' /\ EveryMessageHasText'
  BY <1>1 DEF RepairSettles, StartsUnlessBroken, EveryMessageHasText
<1>5. ASSUME NEW f \in Files PROVE FileOK(f, disk[f])'
  <2>1. FileOK(f, disk[f]) /\ FileOK(f, Repaired(f))
    BY RepairKeeps DEF ConfigInv
  <2>2. CASE disk'[f] = Repaired(f) \/ disk'[f] = disk[f]
    BY <1>1, <2>1, <2>2 DEF FileOK, WordsIn, Clean
  <2>3. CASE f = Order[n] /\ disk'[f] = Bare(torn)
    <3>1. IsTree(Bare(torn)) /\ Root(Missing) # "map"
      BY DEF IsTree, Bare, Root, Missing
    <3>2. disk[f] = Missing
      BY <1>1, <2>3
    <3>3. ~(f \in SeededOnly /\ written[f] # Missing) /\ ~(f \in Reconciled /\ Root(written[f]) = "map")
      BY <2>1, <3>1, <3>2 DEF FileOK, WordsIn
    <3> QED BY <1>1, <2>3, <3>1, <3>3 DEF FileOK, WordsIn, Clean
  <2> QED BY <1>3, <2>2, <2>3
<1> QED BY <1>1, <1>2, <1>4, <1>5 DEF ConfigInv

\* Every step keeps the invariant.
LEMMA ConfigStepHolds == ASSUME KeysStay, BundleReadable PROVE ConfigInv /\ [ConfigNext]_configVars => ConfigInv'
<1> SUFFICES ASSUME ConfigInv, [ConfigNext]_configVars PROVE ConfigInv'
  OBVIOUS
<1>1. CASE UNCHANGED configVars
  <2>1. RepairSettles' /\ StartsUnlessBroken' /\ EveryMessageHasText'
    BY <1>1 DEF configVars, ConfigInv, RepairSettles, StartsUnlessBroken, EveryMessageHasText,
                Repaired, DefaultOf, SchemaOf, TextsOf
  <2>2. ASSUME NEW f \in Files PROVE FileOK(f, disk[f])'
    BY <1>1 DEF configVars, ConfigInv, FileOK, WordsIn, Clean
  <2> QED BY <1>1, <2>1, <2>2 DEF configVars, ConfigInv
<1>2. ASSUME NEW v \in {version, version + 1} \cap DOMAIN Bundled, Stop(v) PROVE ConfigInv'
  BY <1>2, StopKeeps
<1> QED BY <1>1, <1>2, LoadKeeps, ReloadKeeps, WriteKeeps, KillKeeps DEF ConfigNext

\* What the operator wrote survives repairs, updates and kills, one repair is enough, the
\* plugin starts with what it seeds, and no message is without a text (config.rs:
\* seed_defaults, reload_from_folder; sync.rs: reconcile_map), for all trees of the
\* operator and all resources that keep their keys.
THEOREM FilesAreKept == KeysStay /\ BundleReadable => (ConfigSpec => []FilesKept)
<1> SUFFICES ASSUME KeysStay, BundleReadable PROVE ConfigSpec => []FilesKept
  OBVIOUS
<1>1. ConfigInit => ConfigInv
  BY ConfigInitHolds
<1>2. ConfigInv /\ [ConfigNext]_configVars => ConfigInv'
  BY ConfigStepHolds
<1>3. ConfigInv => FilesKept
  <2> SUFFICES ASSUME ConfigInv PROVE FilesKept
    OBVIOUS
  <2>1. ConfigTypeOK
    BY DEF ConfigTypeOK, ConfigInv, FileOK
  <2>2. OperatorsWordKept
    <3> SUFFICES ASSUME NEW f \in Files, Root(written[f]) = "map", NEW p \in DOMAIN written[f],
                        f \in SeededOnly \/ DeclaresIn(f, p, written[f][p])
                 PROVE  p \in DOMAIN disk[f] /\ disk[f][p] = written[f][p]
      BY Zenon DEF OperatorsWordKept, DeclaresIn, HonoursIn
    <3>1. FileOK(f, disk[f]) /\ written[f] # Missing
      BY DEF ConfigInv, Root, Missing, Bare
    <3> QED BY <3>1 DEF FileOK, WordsIn, Files
  <2> QED BY <2>1, <2>2 DEF FilesKept, ConfigInv
<1> QED BY <1>1, <1>2, <1>3, PTL DEF ConfigSpec

-----------------------------------------------------------------------------
(* ChatFunctions: the snapshots kept, and until when                       *)

-----------------------------------------------------------------------------
(* ChatFunctions: the snapshots behind the tokens                          *)

\* A snapshot kept, and what it means that some were offered.
Snapshot == [id : Nat, at : Nat, limited : BOOLEAN]
IdsRise(s) == \A i, j \in DOMAIN s : i < j => s[i].id < s[j].id
Counted(s) == {s[i].id : i \in {j \in DOMAIN s : s[j].limited}}

\* The function of the fold of Live.
IsLive(g, q, n) ==
    g = [S \in SUBSET (1..n) |->
           IF S = {} THEN <<>>
           ELSE IF clock - q[Max(S)].at < SnapshotTtl
                THEN Append(g[S \ {Max(S)}], q[Max(S)]) ELSE g[S \ {Max(S)}]]

\* Those within their time are retained one after the other.
LEMMA LiveOneByOne ==
    ASSUME NEW q \in Seq(Snapshot), NEW n \in Nat, n = Len(q)
    PROVE  \E v : /\ v[0] = <<>> /\ Live(q) = v[n]
                  /\ \A k \in 0..(n - 1) : v[k + 1] = IF clock - q[k + 1].at < SnapshotTtl
                                                      THEN Append(v[k], q[k + 1]) ELSE v[k]
<1> DEFINE D == Seq(Snapshot)
           f == [se \in D \X Snapshot |-> IF clock - se[2].at < SnapshotTtl THEN Append(se[1], se[2]) ELSE se[1]]
           iter == CHOOSE g : IsLive(g, q, n)
<1>0. DOMAIN q = 1..n /\ q \in [1..n -> Snapshot]
  BY LenProperties
<1>1. f \in [D \X Snapshot -> D]
  <2> SUFFICES ASSUME NEW se \in D \X Snapshot
               PROVE  (IF clock - se[2].at < SnapshotTtl THEN Append(se[1], se[2]) ELSE se[1]) \in D
    OBVIOUS
  <2>1. se[1] \in Seq(Snapshot) /\ se[2] \in Snapshot
    OBVIOUS
  <2> QED BY <2>1, AppendProperties
<1>2. <<>> \in D
  BY EmptySeq
<1>3. PICK g \in [SUBSET (1..n) -> D] : IsFold(g, f, q, <<>>, n)
  <2> HIDE DEF D, f
  <2> QED BY <1>0, <1>1, <1>2, FoldIsDefined
<1>4. IsLive(g, q, n)
  <2>1. ASSUME NEW S \in SUBSET (1..n), S # {}
        PROVE  f[<<g[S \ {Max(S)}], q[Max(S)]>>] =
                 IF clock - q[Max(S)].at < SnapshotTtl
                 THEN Append(g[S \ {Max(S)}], q[Max(S)]) ELSE g[S \ {Max(S)}]
    <3>1. Max(S) \in 1..n
      BY <2>1, MaxIs
    <3>2. q[Max(S)] \in Snapshot
      BY <1>0, <3>1
    <3>3. g[S \ {Max(S)}] \in D
      BY <1>3
    <3> HIDE DEF D
    <3> QED BY <3>2, <3>3
  <2>2. g = [S \in SUBSET (1..n) |-> IF S = {} THEN <<>> ELSE f[<<g[S \ {Max(S)}], q[Max(S)]>>]]
    BY <1>3 DEF IsFold
  <2> HIDE DEF f, D
  <2>3. g = [S \in SUBSET (1..n) |->
               IF S = {} THEN <<>>
               ELSE IF clock - q[Max(S)].at < SnapshotTtl
                    THEN Append(g[S \ {Max(S)}], q[Max(S)]) ELSE g[S \ {Max(S)}]]
    BY <2>1, <2>2, Zenon
  <2> QED BY <2>3 DEF IsLive
<1>5. IsLive(iter, q, n)
  BY <1>4
<1>6. Live(q) = iter[1..n]
  BY <1>0 DEF Live, FoldLeft, MapThenFoldSet, IsLive
<1> HIDE DEF iter
<1> DEFINE v == [k \in 0..n |-> iter[1..k]]
<1>7. v[0] = <<>>
  <2>1. 1..0 = {} /\ {} \in SUBSET (1..n) /\ 0 \in 0..n
    OBVIOUS
  <2> QED BY <1>5, <2>1 DEF IsLive
<1>8. ASSUME NEW k \in 0..(n - 1)
      PROVE  v[k + 1] = IF clock - q[k + 1].at < SnapshotTtl THEN Append(v[k], q[k + 1]) ELSE v[k]
  <2>0. k \in 0..n /\ k + 1 \in 0..n
    OBVIOUS
  <2>1. /\ 1..(k + 1) \in SUBSET (1..n) /\ 1..(k + 1) # {}
        /\ Max(1..(k + 1)) = k + 1 /\ (1..(k + 1)) \ {k + 1} = 1..k
    BY Beginnings
  <2>2. iter[1..(k + 1)] = IF clock - q[k + 1].at < SnapshotTtl THEN Append(iter[1..k], q[k + 1]) ELSE iter[1..k]
    <3> DEFINE S == 1..(k + 1)
    <3>1. S \in SUBSET (1..n) /\ S # {} /\ Max(S) = k + 1 /\ S \ {k + 1} = 1..k
      BY <2>1
    <3> HIDE DEF S
    <3>2. iter[S] = IF clock - q[Max(S)].at < SnapshotTtl
                    THEN Append(iter[S \ {Max(S)}], q[Max(S)]) ELSE iter[S \ {Max(S)}]
      BY <1>5, <3>1 DEF IsLive
    <3> QED BY <3>1, <3>2 DEF S
  <2> QED BY <2>0, <2>2
<1>9. v[n] = iter[1..n]
  OBVIOUS
<1> HIDE DEF v
<1> QED BY <1>6, <1>7, <1>8, <1>9

\* Live keeps those within their time, in their order.
LEMMA LiveIs ==
    ASSUME NEW q \in Seq(Snapshot), IdsRise(q)
    PROVE  /\ Live(q) \in Seq(Snapshot) /\ IdsRise(Live(q))
           /\ \A x : (\E i \in DOMAIN Live(q) : Live(q)[i] = x)
                       <=> (\E i \in DOMAIN q : q[i] = x /\ clock - q[i].at < SnapshotTtl)
<1> DEFINE n == Len(q)
           Within(i) == clock - q[i].at < SnapshotTtl
           Good(r, k) == /\ r \in Seq(Snapshot) /\ IdsRise(r)
                         /\ \A x : (\E i \in 1..Len(r) : r[i] = x) <=> (\E i \in 1..k : q[i] = x /\ Within(i))
<1>0. n \in Nat /\ DOMAIN q = 1..n /\ \A i \in 1..n : q[i] \in Snapshot
  BY LenProperties
<1> HIDE DEF n
<1>1. PICK v : /\ v[0] = <<>> /\ Live(q) = v[n]
               /\ \A k \in 0..(n - 1) : v[k + 1] = IF Within(k + 1) THEN Append(v[k], q[k + 1]) ELSE v[k]
  BY <1>0, LiveOneByOne DEF n
<1> HIDE DEF Within
<1> DEFINE P == {k \in 0..n : Good(v[k], k)}
<1>2. Good(<<>>, 0)
  <2>1. <<>> \in Seq(Snapshot) /\ Len(<<>>) = 0
    BY EmptySeq
  <2>2. IdsRise(<<>>)
    BY DEF IdsRise
  <2> QED BY <2>1, <2>2
<1>3. ASSUME NEW k \in 0..(n - 1), Good(v[k], k) PROVE Good(v[k + 1], k + 1)
  <2> DEFINE r == v[k]
             l == Len(r)
             e == q[k + 1]
  <2>0. k \in Nat /\ k + 1 \in 1..n /\ \A i \in 1..(k + 1) : i \in 1..k \/ i = k + 1
    BY <1>0
  <2>1. r \in Seq(Snapshot) /\ IdsRise(r) /\ e \in Snapshot
    BY <1>0, <1>3, <2>0
  <2>2. l \in Nat /\ DOMAIN r = 1..l /\ \A i \in 1..l : r[i] \in Snapshot
    BY <2>1, LenProperties
  <2>3. \A x : (\E i \in 1..l : r[i] = x) <=> (\E i \in 1..k : q[i] = x /\ Within(i))
    BY <1>3
  <2>4. v[k + 1] = IF Within(k + 1) THEN Append(r, e) ELSE r
    BY <1>1
  <2> HIDE DEF r, l, e
  <2>5. CASE ~Within(k + 1)
    <3>1. \A x : (\E i \in 1..k : q[i] = x /\ Within(i)) <=> (\E i \in 1..(k + 1) : q[i] = x /\ Within(i))
      BY <2>0, <2>5
    <3> QED BY <2>1, <2>3, <2>4, <2>5, <3>1 DEF l
  <2>6. CASE Within(k + 1)
    <3> DEFINE a == Append(r, e)
    <3>1. a \in Seq(Snapshot) /\ Len(a) = l + 1 /\ a[l + 1] = e /\ \A i \in 1..l : a[i] = r[i]
      BY <2>1, AppendProperties DEF l
    <3>2. DOMAIN a = 1..(l + 1)
      BY <3>1, LenProperties
    <3>3. v[k + 1] = a
      BY <2>4, <2>6
    <3> HIDE DEF a
    <3>4. \A i \in 1..(l + 1) : i \in 1..l \/ i = l + 1
      BY <2>2
    <3>5. \A x : (\E i \in 1..(l + 1) : a[i] = x) <=> (x = e \/ \E i \in 1..l : r[i] = x)
      <4>1. l + 1 \in 1..(l + 1) /\ \A i \in 1..l : i \in 1..(l + 1)
        BY <2>2
      <4> QED BY <3>1, <3>4, <4>1
    <3>6. \A x : (\E i \in 1..(k + 1) : q[i] = x /\ Within(i))
                  <=> (x = e \/ \E i \in 1..k : q[i] = x /\ Within(i))
      <4>1. k + 1 \in 1..(k + 1) /\ \A i \in 1..k : i \in 1..(k + 1)
        BY <2>0
      <4> QED BY <2>0, <2>6, <4>1 DEF e
    <3>7. IdsRise(a)
      <4> SUFFICES ASSUME NEW i \in 1..(l + 1), NEW j \in 1..(l + 1), i < j PROVE a[i].id < a[j].id
        BY <3>2 DEF IdsRise
      <4>1. i \in 1..l
        BY <2>2
      <4>2. CASE j \in 1..l
        BY <2>1, <2>2, <3>1, <4>1, <4>2 DEF IdsRise
      <4>3. CASE j = l + 1
        <5>1. PICK m \in 1..k : q[m] = r[i]
          BY <2>3, <4>1
        <5>2. m \in DOMAIN q /\ k + 1 \in DOMAIN q /\ m < k + 1
          BY <1>0, <2>0
        <5>3. q[m].id < q[k + 1].id
          BY <5>2 DEF IdsRise
        <5> QED BY <3>1, <4>1, <4>3, <5>1, <5>3 DEF e
      <4> QED BY <3>4, <4>2, <4>3
    <3> QED BY <2>3, <3>1, <3>3, <3>5, <3>6, <3>7
  <2> QED BY <2>5, <2>6
<1>4. P = 0..n
  <2>1. 0 \in P
    <3>1. 0 \in 0..n /\ Good(v[0], 0)
      BY <1>0, <1>1, <1>2
    <3> HIDE DEF Good
    <3> QED BY <3>1
  <2>2. ASSUME NEW k \in 0..(n - 1), k \in P PROVE k + 1 \in P
    <3>1. Good(v[k], k)
      BY <2>2
    <3>2. k + 1 \in 0..n
      BY <1>0
    <3> HIDE DEF Good
    <3> QED BY <1>3, <3>1, <3>2
  <2>3. P \in SUBSET (0..n)
    OBVIOUS
  <2> HIDE DEF P
  <2> QED BY <1>0, <2>1, <2>2, <2>3, Throughout
<1>5. Good(Live(q), n)
  <2>1. n \in P
    <3> HIDE DEF P
    <3> QED BY <1>0, <1>4
  <2>2. Good(v[n], n)
    BY <2>1
  <2> QED BY <1>1, <2>2
<1>6. DOMAIN Live(q) = 1..Len(Live(q))
  BY <1>5, LenProperties
<1> QED BY <1>0, <1>5, <1>6 DEF Within

\* What is kept is in order and was offered; what was offered is kept, too old, or
\* crowded out by as many newer ones; and the inventories are within their limit.
StoreOK(s, o, now) ==
    /\ o \in Seq(Nat) /\ \A i \in DOMAIN o : o[i] <= now
    /\ s \in Seq(Snapshot) /\ IdsRise(s)
    /\ \A i \in DOMAIN s : s[i].id \in DOMAIN o /\ s[i].at = o[s[i].id]
    /\ \A id \in DOMAIN o : \/ \E i \in DOMAIN s : s[i].id = id
                            \/ now - o[id] >= SnapshotTtl
                            \/ Len(o) - id >= MaxSnapshots
    /\ IsFiniteSet(Counted(s)) /\ Cardinality(Counted(s)) <= MaxSnapshots

\* The limits are numbers.
LEMMA Limits ==
    /\ SnapshotTtl \in Nat \ {0} /\ MaxSnapshots \in Nat \ {0}
    /\ MaxClock \in Nat /\ MaxOffered \in Nat
  BY FunctionsAssumption

\* As many are counted as there are, at most.
LEMMA CountedAtMost ==
    ASSUME NEW s \in Seq(Snapshot)
    PROVE  IsFiniteSet(Counted(s)) /\ Cardinality(Counted(s)) <= Len(s)
<1> DEFINE n == Len(s)
           J == {j \in DOMAIN s : s[j].limited}
           f == [i \in J |-> s[i].id]
<1>1. n \in Nat /\ DOMAIN s = 1..n
  BY LenProperties
<1> HIDE DEF n
<1>2. IsFiniteSet(1..n) /\ Cardinality(1..n) = n
  BY <1>1, FS_Interval
<1>3. J \in SUBSET (1..n)
  BY <1>1
<1>4. IsFiniteSet(J) /\ Cardinality(J) <= n
  <2> HIDE DEF J
  <2> QED BY <1>2, <1>3, FS_Subset
<1>5. f \in Surjection(J, Counted(s))
  <2>1. Counted(s) = {s[i].id : i \in J}
    BY DEF Counted
  <2>2. f \in [J -> Counted(s)] /\ \A t \in Counted(s) : \E i \in J : f[i] = t
    <3> HIDE DEF J
    <3> QED BY <2>1
  <2> HIDE DEF J, f
  <2> QED BY <2>2 DEF Surjection
<1>6. IsFiniteSet(Counted(s)) /\ Cardinality(Counted(s)) <= Cardinality(J)
  <2> HIDE DEF J, f
  <2> QED BY <1>4, <1>5, FS_Surjection
<1>7. Cardinality(J) \in Nat /\ Cardinality(Counted(s)) \in Nat
  <2> HIDE DEF J
  <2> QED BY <1>4, <1>6, FS_CardinalityType
<1> QED BY <1>1, <1>4, <1>6, <1>7 DEF n

\* Of ids that rise, two are apart as far as their places.
LEMMA IdsApart ==
    ASSUME NEW s \in Seq(Snapshot), IdsRise(s), NEW i \in DOMAIN s
    PROVE  s[Len(s)].id >= s[i].id + (Len(s) - i)
<1> DEFINE n == Len(s) - i
           P == {k \in 0..n : s[i + k].id >= s[i].id + k}
<1>1. Len(s) \in Nat /\ DOMAIN s = 1..Len(s) /\ \A j \in DOMAIN s : s[j].id \in Nat
  <2>1. \A j \in DOMAIN s : s[j] \in Snapshot
    BY LenProperties
  <2> QED BY <2>1, LenProperties DEF Snapshot
<1>2. n \in Nat /\ i \in Nat
  BY <1>1
<1>3. 0 \in P
  BY <1>1, <1>2
<1>4. ASSUME NEW k \in 0..(n - 1), k \in P PROVE k + 1 \in P
  <2>1. i + k \in DOMAIN s /\ i + (k + 1) \in DOMAIN s /\ i + k < i + (k + 1) /\ k + 1 \in 0..n
    BY <1>1, <1>2
  <2>2. s[i + k].id < s[i + (k + 1)].id
    BY <2>1 DEF IdsRise
  <2>3. s[i + k].id >= s[i].id + k
    BY <1>4
  <2>4. s[i + k].id \in Nat /\ s[i + (k + 1)].id \in Nat /\ s[i].id \in Nat
    BY <1>1, <2>1
  <2> QED BY <2>1, <2>2, <2>3, <2>4
<1>5. n \in P
  <2>1. P \in SUBSET (0..n)
    OBVIOUS
  <2>2. P = 0..n
    <3> HIDE DEF P, n
    <3> QED BY <1>2, <1>3, <1>4, <2>1, Throughout
  <2> HIDE DEF P, n
  <2> QED BY <1>2, <2>2
<1> QED BY <1>1, <1>2, <1>5

\* Time makes snapshots too old, and nothing else of it.
LEMMA StoreOKLater ==
    ASSUME NEW s, NEW o, NEW now \in Nat, StoreOK(s, o, now)
    PROVE  StoreOK(s, o, now + 1)
<1>1. \A i \in DOMAIN o : o[i] \in Nat
  <2>1. o \in Seq(Nat)
    BY DEF StoreOK
  <2> QED BY <2>1, LenProperties
<1>2. \A i \in DOMAIN o : o[i] <= now + 1 /\ (now - o[i] >= SnapshotTtl => (now + 1) - o[i] >= SnapshotTtl)
  <2> SUFFICES ASSUME NEW i \in DOMAIN o
               PROVE  o[i] <= now + 1 /\ (now - o[i] >= SnapshotTtl => (now + 1) - o[i] >= SnapshotTtl)
    OBVIOUS
  <2>1. o[i] \in Nat /\ o[i] <= now
    BY <1>1 DEF StoreOK
  <2> DEFINE x == o[i]
  <2>2. x \in Nat /\ x <= now
    BY <2>1
  <2> HIDE DEF x
  <2>3. x <= now + 1
    BY <2>2
  <2>4. now - x >= SnapshotTtl => (now + 1) - x >= SnapshotTtl
    BY <2>2, Limits
  <2> QED BY <2>3, <2>4 DEF x
<1>3. \A id \in DOMAIN o : \/ \E i \in DOMAIN s : s[i].id = id
                           \/ (now + 1) - o[id] >= SnapshotTtl
                           \/ Len(o) - id >= MaxSnapshots
  <2> SUFFICES ASSUME NEW id \in DOMAIN o
               PROVE  \/ \E i \in DOMAIN s : s[i].id = id
                      \/ (now + 1) - o[id] >= SnapshotTtl
                      \/ Len(o) - id >= MaxSnapshots
    OBVIOUS
  <2>1. \/ \E i \in DOMAIN s : s[i].id = id
        \/ now - o[id] >= SnapshotTtl
        \/ Len(o) - id >= MaxSnapshots
    BY DEF StoreOK
  <2> QED BY <1>2, <2>1
<1>4. \A i \in DOMAIN o : o[i] <= now + 1
  BY <1>2
<1> QED BY <1>3, <1>4 DEF StoreOK

\* Expiry keeps what it should.
LEMMA LiveKeeps ==
    ASSUME NEW s, NEW o, clock \in Nat, StoreOK(s, o, clock)
    PROVE  /\ StoreOK(Live(s), o, clock)
           /\ \A i \in DOMAIN Live(s) : clock - Live(s)[i].at < SnapshotTtl
<1> DEFINE r == Live(s)
<1>1. /\ r \in Seq(Snapshot) /\ IdsRise(r)
      /\ \A x : (\E i \in DOMAIN r : r[i] = x) <=> (\E i \in DOMAIN s : s[i] = x /\ clock - s[i].at < SnapshotTtl)
  BY LiveIs DEF StoreOK
<1> HIDE DEF r
<1>2. \A i \in DOMAIN r : \E j \in DOMAIN s : s[j] = r[i] /\ clock - s[j].at < SnapshotTtl
  BY <1>1
<1>3. \A i \in DOMAIN r : r[i].id \in DOMAIN o /\ r[i].at = o[r[i].id] /\ clock - r[i].at < SnapshotTtl
  BY <1>2 DEF StoreOK
<1>4. ASSUME NEW id \in DOMAIN o
      PROVE  \/ \E i \in DOMAIN r : r[i].id = id
             \/ clock - o[id] >= SnapshotTtl
             \/ Len(o) - id >= MaxSnapshots
  <2>1. SUFFICES ASSUME NEW j \in DOMAIN s, s[j].id = id, clock - o[id] < SnapshotTtl
                 PROVE  \E i \in DOMAIN r : r[i].id = id
    <3>1. clock - o[id] < SnapshotTtl \/ clock - o[id] >= SnapshotTtl
      <4>1. o[id] \in Nat
        BY LenProperties DEF StoreOK
      <4> QED BY <4>1, Limits
    <3> QED BY <2>1, <3>1 DEF StoreOK
  <2>2. s[j].at = o[id]
    BY <2>1 DEF StoreOK
  <2>3. PICK i \in DOMAIN r : r[i] = s[j]
    BY <1>1, <2>1, <2>2
  <2> QED BY <2>1, <2>3
<1>5. IsFiniteSet(Counted(r)) /\ Cardinality(Counted(r)) <= MaxSnapshots
  <2>1. Counted(r) \in SUBSET Counted(s)
    BY <1>2 DEF Counted
  <2>2. IsFiniteSet(Counted(s)) /\ Cardinality(Counted(s)) <= MaxSnapshots
    BY DEF StoreOK
  <2>3. IsFiniteSet(Counted(r)) /\ Cardinality(Counted(r)) <= Cardinality(Counted(s))
    BY <2>1, <2>2, FS_Subset
  <2>4. Cardinality(Counted(r)) \in Nat /\ Cardinality(Counted(s)) \in Nat
    BY <2>2, <2>3, FS_CardinalityType
  <2> QED BY <2>2, <2>3, <2>4, Limits
<1>6. StoreOK(r, o, clock)
  BY <1>1, <1>3, <1>4, <1>5 DEF StoreOK
<1> QED BY <1>3, <1>6 DEF r

\* What is left of the live snapshots before another is stored: the order, and of
\* those evicted to stay within the limit, that as many newer ones were offered.
LEMMA RoomIs ==
    ASSUME NEW live \in Seq(Snapshot), IdsRise(live), NEW top \in Nat, \A i \in DOMAIN live : live[i].id <= top,
           NEW limited \in BOOLEAN
    PROVE  LET room == IF limited /\ Len(live) >= MaxSnapshots
                       THEN SubSeq(live, Len(live) - MaxSnapshots + 2, Len(live)) ELSE live
           IN  /\ room \in Seq(Snapshot) /\ IdsRise(room)
               /\ \A i \in DOMAIN room : \E j \in DOMAIN live : room[i] = live[j]
               /\ \A j \in DOMAIN live : \/ \E i \in DOMAIN room : room[i] = live[j]
                                         \/ (top + 1) - live[j].id >= MaxSnapshots
               /\ limited => Len(room) < MaxSnapshots
               /\ ~limited => room = live
<1> DEFINE n == Len(live)
           m == n - MaxSnapshots + 2
           cut == SubSeq(live, m, n)
<1>1. n \in Nat /\ DOMAIN live = 1..n /\ \A i \in 1..n : live[i] \in Snapshot
  BY LenProperties
<1>2. CASE ~(limited /\ n >= MaxSnapshots)
  <2>1. limited => n < MaxSnapshots
    BY <1>1, <1>2, Limits
  <2>2. (IF limited /\ n >= MaxSnapshots THEN SubSeq(live, m, n) ELSE live) = live
    BY <1>2
  <2> HIDE DEF m
  <2> QED BY <2>1, <2>2 DEF n, m
<1>3. CASE limited /\ n >= MaxSnapshots
  <2> HIDE DEF n
  <2>1. m \in Int /\ m >= 2 /\ m <= n + 1 /\ (n - m) + 1 = MaxSnapshots - 1 /\ n \in Int
    BY <1>1, <1>3, Limits
  <2> DEFINE l == (n - m) + 1
  <2>2. l \in Nat /\ l < MaxSnapshots
    BY <2>1, Limits
  <2> HIDE DEF m
  <2>3. \A i \in m..n : live[i] \in Snapshot
    BY <1>1, <2>1
  <2>4. cut \in Seq(Snapshot) /\ Len(cut) = l /\ \A i \in 1..l : cut[i] = live[(m + i) - 1]
    <3>1. /\ cut \in Seq(Snapshot) /\ Len(cut) = IF m <= n THEN n - m + 1 ELSE 0
          /\ \A i \in 1..(n - m + 1) : cut[i] = live[m + i - 1]
      BY <2>1, <2>3, SubSeqProperties
    <3>2. Len(cut) = l
      BY <2>1, <2>2, <3>1
    <3> QED BY <3>1, <3>2, <2>1
  <2>5. DOMAIN cut = 1..l
    BY <2>4, LenProperties
  <2> HIDE DEF cut
  <2>6. \A i \in 1..l : (m + i) - 1 \in 1..n
    BY <2>1
  <2> HIDE DEF l
  <2>7. IdsRise(cut)
    <3> SUFFICES ASSUME NEW i \in 1..l, NEW j \in 1..l, i < j PROVE cut[i].id < cut[j].id
      BY <2>5 DEF IdsRise
    <3>1. (m + i) - 1 \in DOMAIN live /\ (m + j) - 1 \in DOMAIN live /\ (m + i) - 1 < (m + j) - 1
      BY <1>1, <2>1, <2>2, <2>6
    <3>2. live[(m + i) - 1].id < live[(m + j) - 1].id
      BY <3>1 DEF IdsRise
    <3> QED BY <2>4, <3>2
  <2>8. ASSUME NEW j \in 1..n
        PROVE  (\E i \in 1..l : cut[i] = live[j]) \/ (top + 1) - live[j].id >= MaxSnapshots
    <3>1. CASE j >= m
      <4>1. (j - m) + 1 \in 1..l /\ (m + ((j - m) + 1)) - 1 = j
        BY <2>1, <3>1 DEF l
      <4>2. cut[(j - m) + 1] = live[j]
        BY <2>4, <4>1
      <4> QED BY <4>1, <4>2
    <3>2. CASE j < m
      <4>1. live[n].id >= live[j].id + (n - j)
        BY <1>1, IdsApart DEF n
      <4>2. live[n].id <= top
        BY <1>1
      <4>3. n \in 1..n
        BY <1>1
      <4>4. live[n].id \in Nat /\ live[j].id \in Nat
        BY <1>1, <4>3 DEF Snapshot
      <4>5. n - j >= MaxSnapshots - 1
        BY <1>1, <2>1, <3>2, Limits
      <4> QED BY <1>1, <4>1, <4>2, <4>4, <4>5, Limits
    <3> QED BY <1>1, <2>1, <3>1, <3>2
  <2>9. \A i \in 1..l : \E j \in 1..n : cut[i] = live[j]
    BY <2>4, <2>6
  <2>10. /\ cut \in Seq(Snapshot) /\ Len(cut) < MaxSnapshots
    BY <2>2, <2>4
  <2>11. (IF limited /\ n >= MaxSnapshots THEN SubSeq(live, m, n) ELSE live) = cut
    BY <1>3 DEF cut
  <2> QED BY <1>1, <1>3, <2>5, <2>7, <2>8, <2>9, <2>10, <2>11 DEF n, m
<1> QED BY <1>2, <1>3

\* Storing a snapshot keeps what should be kept.
LEMMA StoredKeeps ==
    ASSUME NEW s, NEW o, clock \in Nat, StoreOK(s, o, clock), NEW limited \in BOOLEAN
    PROVE  StoreOK(Stored(s, Len(o) + 1, limited), Append(o, clock), clock)
<1> DEFINE live == Live(s)
           room == IF limited /\ Len(live) >= MaxSnapshots
                   THEN SubSeq(live, Len(live) - MaxSnapshots + 2, Len(live)) ELSE live
           top == Len(o)
           e == [id |-> top + 1, at |-> clock, limited |-> limited]
           new == Append(room, e)
           o2 == Append(o, clock)
<1>1. StoreOK(live, o, clock)
  BY LiveKeeps
<1>2. Stored(s, top + 1, limited) = new
  BY DEF Stored
<1>3. /\ o \in Seq(Nat) /\ top \in Nat /\ DOMAIN o = 1..top /\ \A i \in 1..top : o[i] \in Nat /\ o[i] <= clock
      /\ live \in Seq(Snapshot) /\ IdsRise(live)
      /\ \A i \in DOMAIN live : live[i].id \in 1..top /\ live[i].at = o[live[i].id]
  <2>1. o \in Seq(Nat) /\ top \in Nat /\ DOMAIN o = 1..top /\ \A i \in 1..top : o[i] \in Nat
    BY LenProperties DEF StoreOK
  <2> HIDE DEF live, top
  <2> QED BY <1>1, <2>1 DEF StoreOK
<1>4. \A id \in 1..top : \/ \E i \in DOMAIN live : live[i].id = id
                        \/ clock - o[id] >= SnapshotTtl
                        \/ top - id >= MaxSnapshots
  <2> HIDE DEF live
  <2> QED BY <1>1, <1>3 DEF StoreOK
<1>5. IsFiniteSet(Counted(live)) /\ Cardinality(Counted(live)) <= MaxSnapshots
  <2> HIDE DEF live
  <2> QED BY <1>1 DEF StoreOK
<1> HIDE DEF live, top
<1>6. /\ room \in Seq(Snapshot) /\ IdsRise(room)
      /\ \A i \in DOMAIN room : \E j \in DOMAIN live : room[i] = live[j]
      /\ \A j \in DOMAIN live : \/ \E i \in DOMAIN room : room[i] = live[j]
                                \/ (top + 1) - live[j].id >= MaxSnapshots
      /\ limited => Len(room) < MaxSnapshots
      /\ ~limited => room = live
  <2>1. \A i \in DOMAIN live : live[i].id <= top
    BY <1>3
  <2> QED BY <1>3, <2>1, RoomIs
<1> HIDE DEF room
<1>7. e \in Snapshot /\ e.id = top + 1 /\ e.at = clock /\ e.limited = limited
  BY <1>3 DEF Snapshot
<1> HIDE DEF e
<1> DEFINE l == Len(room)
<1>8. l \in Nat /\ DOMAIN room = 1..l /\ \A i \in 1..l : room[i] \in Snapshot
  BY <1>6, LenProperties
<1>9. /\ new \in Seq(Snapshot) /\ Len(new) = l + 1 /\ new[l + 1] = e /\ \A i \in 1..l : new[i] = room[i]
  BY <1>6, <1>7, AppendProperties
<1>10. DOMAIN new = 1..(l + 1)
  BY <1>9, LenProperties
<1> HIDE DEF l
<1>11. /\ o2 \in Seq(Nat) /\ Len(o2) = top + 1 /\ o2[top + 1] = clock /\ \A i \in 1..top : o2[i] = o[i]
  BY <1>3, AppendProperties DEF top
<1>12. DOMAIN o2 = 1..(top + 1)
  BY <1>11, LenProperties
<1> HIDE DEF o2, new
<1>13. \A i \in 1..(l + 1) : i \in 1..l \/ i = l + 1
  BY <1>8
<1>14. \A i \in 1..(top + 1) : i \in 1..top \/ i = top + 1
  BY <1>3
<1>15. \A i \in 1..l : room[i].id \in 1..top /\ room[i].at = o[room[i].id]
  <2> SUFFICES ASSUME NEW i \in 1..l PROVE room[i].id \in 1..top /\ room[i].at = o[room[i].id]
    OBVIOUS
  <2>1. PICK j \in DOMAIN live : room[i] = live[j]
    BY <1>6, <1>8
  <2>2. live[j].id \in 1..top /\ live[j].at = o[live[j].id]
    BY <1>3
  <2> QED BY <2>1, <2>2
<1>16. \A i \in DOMAIN o2 : o2[i] <= clock
  BY <1>3, <1>11, <1>12, <1>14
<1>17. IdsRise(new)
  <2> SUFFICES ASSUME NEW i \in 1..(l + 1), NEW j \in 1..(l + 1), i < j PROVE new[i].id < new[j].id
    BY <1>10 DEF IdsRise
  <2>1. i \in 1..l
    BY <1>8
  <2>2. CASE j \in 1..l
    BY <1>6, <1>8, <1>9, <2>1, <2>2 DEF IdsRise
  <2>3. CASE j = l + 1
    <3>1. room[i].id \in 1..top
      BY <1>15, <2>1
    <3> QED BY <1>3, <1>7, <1>9, <2>1, <2>3, <3>1
  <2> QED BY <1>13, <2>2, <2>3
<1>18. \A i \in DOMAIN new : new[i].id \in DOMAIN o2 /\ new[i].at = o2[new[i].id]
  <2> SUFFICES ASSUME NEW i \in 1..(l + 1) PROVE new[i].id \in 1..(top + 1) /\ new[i].at = o2[new[i].id]
    BY <1>10, <1>12
  <2>1. CASE i \in 1..l
    <3>1. new[i] = room[i] /\ room[i].id \in 1..top /\ room[i].at = o[room[i].id]
      BY <1>9, <1>15, <2>1
    <3>2. room[i].id \in 1..(top + 1)
      BY <1>3, <3>1
    <3> QED BY <1>11, <3>1, <3>2
  <2>2. CASE i = l + 1
    <3>1. top + 1 \in 1..(top + 1)
      BY <1>3
    <3> QED BY <1>7, <1>9, <1>11, <2>2, <3>1
  <2> QED BY <1>13, <2>1, <2>2
<1>19. ASSUME NEW id \in 1..(top + 1)
       PROVE  \/ \E i \in DOMAIN new : new[i].id = id
              \/ clock - o2[id] >= SnapshotTtl
              \/ Len(o2) - id >= MaxSnapshots
  <2>1. CASE id = top + 1
    <3>1. l + 1 \in DOMAIN new
      BY <1>8, <1>10
    <3> QED BY <1>7, <1>9, <2>1, <3>1
  <2>2. CASE id \in 1..top
    <3>1. CASE \E j \in DOMAIN live : live[j].id = id
      <4>1. PICK j \in DOMAIN live : live[j].id = id
        BY <3>1
      <4>2. CASE \E i \in DOMAIN room : room[i] = live[j]
        <5>1. PICK i \in 1..l : room[i] = live[j]
          BY <1>8, <4>2
        <5>2. i \in DOMAIN new /\ new[i].id = id
          <6>1. i \in 1..(l + 1)
            BY <1>8
          <6> QED BY <1>9, <1>10, <4>1, <5>1, <6>1
        <5> QED BY <5>2
      <4>3. CASE (top + 1) - live[j].id >= MaxSnapshots
        BY <1>11, <4>1, <4>3
      <4> QED BY <1>6, <4>2, <4>3
    <3>2. CASE clock - o[id] >= SnapshotTtl
      BY <1>11, <2>2, <3>2
    <3>3. CASE top - id >= MaxSnapshots
      <4>1. (top + 1) - id >= MaxSnapshots
        BY <1>3, <2>2, <3>3, Limits
      <4> QED BY <1>11, <4>1
    <3> QED BY <1>4, <2>2, <3>1, <3>2, <3>3
  <2> QED BY <1>14, <2>1, <2>2
<1>20. IsFiniteSet(Counted(new)) /\ Cardinality(Counted(new)) <= MaxSnapshots
  <2>1. CASE limited
    <3>1. IsFiniteSet(Counted(new)) /\ Cardinality(Counted(new)) <= Len(new)
      BY <1>9, CountedAtMost
    <3>2. Cardinality(Counted(new)) \in Nat
      BY <3>1, FS_CardinalityType
    <3>3. l < MaxSnapshots
      BY <1>6, <2>1 DEF l
    <3> QED BY <1>8, <1>9, <3>1, <3>2, <3>3, Limits
  <2>2. CASE ~limited
    <3>1. Counted(new) \in SUBSET Counted(live)
      <4> SUFFICES ASSUME NEW i \in DOMAIN new, new[i].limited PROVE new[i].id \in Counted(live)
        BY DEF Counted
      <4>1. i \in 1..l
        BY <1>7, <1>9, <1>10, <1>13, <2>2
      <4>2. room = live /\ new[i] = live[i] /\ i \in DOMAIN live
        BY <1>6, <1>8, <1>9, <2>2, <4>1
      <4> QED BY <4>2 DEF Counted
    <3>2. IsFiniteSet(Counted(new)) /\ Cardinality(Counted(new)) <= Cardinality(Counted(live))
      BY <1>5, <3>1, FS_Subset
    <3>3. Cardinality(Counted(new)) \in Nat /\ Cardinality(Counted(live)) \in Nat
      BY <1>5, <3>2, FS_CardinalityType
    <3> QED BY <1>5, <3>2, <3>3, Limits
  <2> QED BY <2>1, <2>2
<1>21. StoreOK(new, o2, clock)
  BY <1>9, <1>11, <1>12, <1>16, <1>17, <1>18, <1>19, <1>20 DEF StoreOK
<1> QED BY <1>2, <1>21 DEF o2, top

-----------------------------------------------------------------------------
(* ChatFunctions: a walk takes the strongest finds from the left           *)

-----------------------------------------------------------------------------
(* ChatFunctions: which tokens are taken                                   *)

\* Finds in a text of n symbols: not empty, and with a highest rank.
FindsOK(finds, n) ==
    /\ \A h \in finds : h.start \in 1..n /\ h.end \in Int /\ h.start < h.end /\ h.rank \in Int
    /\ \E top \in Int : \A h \in finds : h.rank <= top
Starting(finds, i) == {h \in finds : h.start = i}
Strongest(finds, i) == CHOOSE h \in Starting(finds, i) : \A g \in Starting(finds, i) : g.rank <= h.rank
Visited(finds, taken, i) ==
    IF Starting(finds, i) = {} \/ (taken # <<>> /\ Last(taken).end > i) THEN taken
    ELSE Append(taken, Strongest(finds, i))

\* Of numbers with an upper bound there is a greatest.
LEMMA Greatest ==
    ASSUME NEW T \in SUBSET Int, T # {}, NEW top \in Int, \A x \in T : x <= top
    PROVE  \E x \in T : \A y \in T : y <= x
<1> DEFINE U == {top - x : x \in T}
<1>1. U \in SUBSET Nat /\ U # {}
  <2>1. \A x \in T : top - x \in Nat
    OBVIOUS
  <2> QED BY <2>1
<1>2. PICK u \in U : \A w \in U : u <= w
  <2> HIDE DEF U
  <2> QED BY <1>1, Least
<1>3. PICK x \in T : u = top - x
  OBVIOUS
<1>4. \A y \in T : top - y \in U
  OBVIOUS
<1>5. ASSUME NEW y \in T PROVE y <= x
  <2>1. top - x <= top - y
    BY <1>2, <1>3, <1>4
  <2>2. x \in Int /\ y \in Int
    OBVIOUS
  <2> QED BY <2>1, <2>2
<1> QED BY <1>5

\* Of the finds that start together one has the highest rank.
LEMMA StrongestIs ==
    ASSUME NEW finds, NEW n, FindsOK(finds, n), NEW i, Starting(finds, i) # {}
    PROVE  /\ Strongest(finds, i) \in finds /\ Strongest(finds, i).start = i
           /\ \A g \in finds : g.start = i => g.rank <= Strongest(finds, i).rank
<1> DEFINE here == Starting(finds, i)
           T == {h.rank : h \in here}
<1>1. PICK top \in Int : \A h \in finds : h.rank <= top
  BY DEF FindsOK
<1>2. here \subseteq finds /\ here # {} /\ \A h \in here : h.start = i
  BY DEF Starting
<1>3. T \in SUBSET Int /\ T # {} /\ \A x \in T : x <= top
  BY <1>1, <1>2 DEF FindsOK
<1> HIDE DEF here
<1>4. PICK x \in T : \A y \in T : y <= x
  <2> HIDE DEF T
  <2> QED BY <1>3, Greatest
<1>5. \E h \in here : \A g \in here : g.rank <= h.rank
  BY <1>4
<1>6. Strongest(finds, i) = CHOOSE h \in here : \A g \in here : g.rank <= h.rank
  BY DEF Strongest, here
<1> DEFINE s == Strongest(finds, i)
<1>7. s \in here /\ \A g \in here : g.rank <= s.rank
  BY <1>5, <1>6
<1> HIDE DEF s
<1>8. \A g \in finds : g.start = i => g \in here
  BY DEF here, Starting
<1> QED BY <1>2, <1>7, <1>8 DEF s

IsWalk(g, finds, n) ==
    g = [S \in SUBSET (1..n) |->
           IF S = {} THEN <<>> ELSE Visited(finds, g[S \ {Max(S)}], Positions(n)[Max(S)])]

\* The walk visits position after position.
LEMMA WalkIsStepwise ==
    ASSUME NEW finds, NEW n \in Nat, FindsOK(finds, n)
    PROVE  \E v : /\ v[0] = <<>> /\ LeftToRight(finds, n) = v[n]
                  /\ \A k \in 0..(n - 1) : v[k + 1] = Visited(finds, v[k], k + 1)
<1> DEFINE D == Seq(finds)
           E == 1..n
           q == Positions(n)
           f == [se \in D \X E |-> Visited(finds, se[1], se[2])]
           iter == CHOOSE g : IsWalk(g, finds, n)
<1>0. DOMAIN q = 1..n /\ q \in [1..n -> E] /\ \A i \in 1..n : q[i] = i
  BY DEF Positions
<1> HIDE DEF q
<1>1. f \in [D \X E -> D]
  <2> SUFFICES ASSUME NEW se \in D \X E PROVE Visited(finds, se[1], se[2]) \in D
    OBVIOUS
  <2>1. se[1] \in Seq(finds)
    OBVIOUS
  <2>2. Starting(finds, se[2]) # {} => Strongest(finds, se[2]) \in finds
    BY StrongestIs
  <2>3. Starting(finds, se[2]) # {} => Append(se[1], Strongest(finds, se[2])) \in Seq(finds)
    BY <2>1, <2>2, AppendProperties
  <2> QED BY <2>1, <2>3 DEF Visited
<1>2. <<>> \in D
  BY EmptySeq
<1>3. PICK g \in [SUBSET (1..n) -> D] : IsFold(g, f, q, <<>>, n)
  <2> HIDE DEF D, f, E
  <2> QED BY <1>0, <1>1, <1>2, FoldIsDefined
<1>4. IsWalk(g, finds, n)
  <2>1. ASSUME NEW S \in SUBSET (1..n), S # {}
        PROVE  f[<<g[S \ {Max(S)}], q[Max(S)]>>] = Visited(finds, g[S \ {Max(S)}], q[Max(S)])
    <3>1. Max(S) \in 1..n
      BY <2>1, MaxIs
    <3>2. q[Max(S)] \in E
      BY <1>0, <3>1
    <3>3. g[S \ {Max(S)}] \in D
      BY <1>3
    <3> HIDE DEF D, E
    <3> QED BY <3>2, <3>3
  <2>2. g = [S \in SUBSET (1..n) |-> IF S = {} THEN <<>> ELSE f[<<g[S \ {Max(S)}], q[Max(S)]>>]]
    BY <1>3 DEF IsFold
  <2> HIDE DEF f, D
  <2>3. g = [S \in SUBSET (1..n) |-> IF S = {} THEN <<>> ELSE Visited(finds, g[S \ {Max(S)}], q[Max(S)])]
    BY <2>1, <2>2, Zenon
  <2> QED BY <2>3 DEF IsWalk, q
<1>5. IsWalk(iter, finds, n)
  BY <1>4
<1>6. LeftToRight(finds, n) = iter[1..n]
  BY <1>0 DEF q, LeftToRight, FoldLeft, MapThenFoldSet, IsWalk, Visited, Strongest, Starting
<1> HIDE DEF iter
<1> DEFINE v == [k \in 0..n |-> iter[1..k]]
<1>7. v[0] = <<>>
  <2>1. 1..0 = {} /\ {} \in SUBSET (1..n) /\ 0 \in 0..n
    OBVIOUS
  <2> QED BY <1>5, <2>1 DEF IsWalk
<1>8. ASSUME NEW k \in 0..(n - 1) PROVE v[k + 1] = Visited(finds, v[k], k + 1)
  <2>0. k \in 0..n /\ k + 1 \in 0..n /\ k + 1 \in 1..n
    OBVIOUS
  <2>1. /\ 1..(k + 1) \in SUBSET (1..n) /\ 1..(k + 1) # {}
        /\ Max(1..(k + 1)) = k + 1 /\ (1..(k + 1)) \ {k + 1} = 1..k
    BY Beginnings
  <2>2. iter[1..(k + 1)] = Visited(finds, iter[1..k], q[k + 1])
    BY <1>5, <2>1 DEF IsWalk, q
  <2>3. q[k + 1] = k + 1
    BY <1>0, <2>0
  <2> QED BY <2>0, <2>2, <2>3
<1>9. v[n] = iter[1..n]
  OBVIOUS
<1> HIDE DEF v
<1> QED BY <1>6, <1>7, <1>8, <1>9

\* What a walk up to position k has taken: apart and in order, and covering whatever it
\* left out, with no lower rank where both start.
Covers(u, h) == u.start <= h.start /\ h.start < u.end /\ (u.start = h.start => h.rank <= u.rank)
Walked(finds, r, k) ==
    /\ r \in Seq(finds)
    /\ \A i \in DOMAIN r : r[i].start <= k
    /\ \A i, j \in DOMAIN r : i < j => r[i].end <= r[j].start
    /\ \A h \in finds : h.start <= k =>
          (\E i \in DOMAIN r : r[i] = h) \/ (\E i \in DOMAIN r : Covers(r[i], h))

\* A visit takes the strongest that starts here, unless one taken reaches over it.
LEMMA VisitWalks ==
    ASSUME NEW finds, NEW n \in Nat, FindsOK(finds, n), NEW r, NEW k \in 0..(n - 1), Walked(finds, r, k)
    PROVE  Walked(finds, Visited(finds, r, k + 1), k + 1)
<1> DEFINE l == Len(r)
           s == Strongest(finds, k + 1)
           a == Append(r, s)
<1>0. \A h \in finds : h.start \in 1..n /\ h.end \in Int /\ h.start \in Int /\ h.start < h.end /\ h.rank \in Int
  BY DEF FindsOK
<1>1. l \in Nat /\ DOMAIN r = 1..l /\ (r # <<>> => l # 0) /\ (\A i \in 1..l : r[i] \in finds) /\ r \in Seq(finds)
  <2>1. r \in Seq(finds)
    BY DEF Walked
  <2> QED BY <2>1, LenProperties, EmptySeq
<1>2. \A i \in 1..l : /\ r[i].start <= k
                      /\ \A j \in 1..l : i < j => r[i].end <= r[j].start
  <2> HIDE DEF l
  <2> QED BY <1>1 DEF Walked
<1>3. k \in Int /\ k + 1 \in Int /\ \A h \in finds : h.start <= k + 1 => h.start <= k \/ h.start = k + 1
  BY <1>0
<1>4. Last(r) = r[l]
  BY DEF Last
<1> HIDE DEF l
<1>5. CASE Starting(finds, k + 1) = {}
  <2>1. Visited(finds, r, k + 1) = r
    BY <1>5 DEF Visited
  <2>2. \A h \in finds : h.start # k + 1
    BY <1>5 DEF Starting
  <2>3. \A i \in DOMAIN r : r[i].start <= k + 1
    <3> SUFFICES ASSUME NEW i \in 1..l PROVE r[i].start <= k + 1
      BY <1>1
    <3>1. r[i].start \in Int /\ r[i].start <= k
      BY <1>0, <1>1, <1>2
    <3> QED BY <1>3, <3>1
  <2> QED BY <1>3, <2>1, <2>2, <2>3 DEF Walked
<1>6. CASE r # <<>> /\ Last(r).end > k + 1
  <2>1. Visited(finds, r, k + 1) = r
    BY <1>6 DEF Visited
  <2>2. l \in 1..l /\ r[l].end > k + 1 /\ r[l].start <= k /\ r[l] \in finds
    BY <1>1, <1>2, <1>4, <1>6
  <2>3. \A h \in finds : h.start = k + 1 => Covers(r[l], h)
    <3> SUFFICES ASSUME NEW h \in finds, h.start = k + 1 PROVE Covers(r[l], h)
      OBVIOUS
    <3>1. r[l].start \in Int /\ r[l].end \in Int
      BY <1>0, <2>2
    <3> QED BY <1>3, <2>2, <3>1 DEF Covers
  <2>4. \A i \in DOMAIN r : r[i].start <= k + 1
    <3> SUFFICES ASSUME NEW i \in 1..l PROVE r[i].start <= k + 1
      BY <1>1
    <3>1. r[i].start \in Int /\ r[i].start <= k
      BY <1>0, <1>1, <1>2
    <3> QED BY <1>3, <3>1
  <2>5. l \in DOMAIN r
    BY <1>1, <2>2
  <2> QED BY <1>3, <2>1, <2>3, <2>4, <2>5 DEF Walked
<1>7. CASE Starting(finds, k + 1) # {} /\ ~(r # <<>> /\ Last(r).end > k + 1)
  <2>1. /\ s \in finds /\ s.start = k + 1
        /\ \A g \in finds : g.start = k + 1 => g.rank <= s.rank
    BY <1>7, StrongestIs
  <2>2. Visited(finds, r, k + 1) = a
    BY <1>7 DEF Visited
  <2> HIDE DEF s
  <2>3. a \in Seq(finds) /\ Len(a) = l + 1 /\ a[l + 1] = s /\ \A i \in 1..l : a[i] = r[i]
    BY <1>1, <2>1, AppendProperties DEF l
  <2>4. DOMAIN a = 1..(l + 1)
    BY <2>3, LenProperties
  <2> HIDE DEF a
  <2>5. (\A i \in 1..(l + 1) : i \in 1..l \/ i = l + 1) /\ (\A i \in 1..l : i \in 1..(l + 1)) /\ l + 1 \in 1..(l + 1)
    BY <1>1
  <2>6. \A i \in 1..l : r[i].end <= k + 1
    <3> SUFFICES ASSUME NEW i \in 1..l PROVE r[i].end <= k + 1
      OBVIOUS
    <3>1. l \in 1..l /\ r # <<>>
      <4>1. Len(<<>>) = 0
        BY EmptySeq
      <4> QED BY <1>1, <4>1 DEF l
    <3>2. r[l].end <= k + 1
      <4>1. r[l].end \in Int
        BY <1>0, <1>1, <3>1
      <4> QED BY <1>3, <1>4, <1>7, <3>1, <4>1
    <3>3. CASE i = l
      BY <3>2, <3>3
    <3>4. CASE i < l
      <4>1. r[i].end <= r[l].start /\ r[l].start <= k
        BY <1>2, <3>1, <3>4
      <4>2. r[i].end \in Int /\ r[l].start \in Int
        BY <1>0, <1>1, <3>1
      <4> QED BY <1>3, <4>1, <4>2
    <3> QED BY <1>1, <3>3, <3>4
  <2>7. \A i \in DOMAIN a : a[i].start <= k + 1
    <3> SUFFICES ASSUME NEW i \in 1..(l + 1) PROVE a[i].start <= k + 1
      BY <2>4
    <3>1. CASE i \in 1..l
      <4>1. r[i].start \in Int /\ r[i].start <= k
        BY <1>0, <1>1, <1>2, <3>1
      <4> QED BY <1>3, <2>3, <3>1, <4>1
    <3>2. CASE i = l + 1
      BY <1>3, <2>1, <2>3, <3>2
    <3> QED BY <2>5, <3>1, <3>2
  <2>8. \A i, j \in DOMAIN a : i < j => a[i].end <= a[j].start
    <3> SUFFICES ASSUME NEW i \in 1..(l + 1), NEW j \in 1..(l + 1), i < j PROVE a[i].end <= a[j].start
      BY <2>4
    <3>1. i \in 1..l
      BY <1>1
    <3>2. CASE j \in 1..l
      BY <1>2, <2>3, <3>1, <3>2
    <3>3. CASE j = l + 1
      BY <2>1, <2>3, <2>6, <3>1, <3>3
    <3> QED BY <2>5, <3>2, <3>3
  <2>9. ASSUME NEW h \in finds, h.start <= k + 1
        PROVE  (\E i \in DOMAIN a : a[i] = h) \/ (\E i \in DOMAIN a : Covers(a[i], h))
    <3>1. CASE h.start <= k
      <4>1. (\E i \in 1..l : r[i] = h) \/ (\E i \in 1..l : Covers(r[i], h))
        BY <1>1, <3>1 DEF Walked
      <4> QED BY <2>3, <2>4, <2>5, <4>1
    <3>2. CASE h.start = k + 1
      <4>1. Covers(s, h)
        BY <1>0, <1>3, <2>1, <3>2 DEF Covers
      <4> QED BY <2>3, <2>4, <2>5, <4>1
    <3> QED BY <1>3, <2>9, <3>1, <3>2
  <2> QED BY <2>2, <2>3, <2>7, <2>8, <2>9 DEF Walked
<1> QED BY <1>5, <1>6, <1>7

\* The walk through the text ends with every find taken or covered.
LEMMA WalkIs ==
    ASSUME NEW finds, NEW n \in Nat, FindsOK(finds, n)
    PROVE  Walked(finds, LeftToRight(finds, n), n)
<1>1. PICK v : /\ v[0] = <<>> /\ LeftToRight(finds, n) = v[n]
               /\ \A k \in 0..(n - 1) : v[k + 1] = Visited(finds, v[k], k + 1)
  BY WalkIsStepwise
<1> DEFINE P == {k \in 0..n : Walked(finds, v[k], k)}
<1>2. 0 \in P
  <2>1. Walked(finds, <<>>, 0)
    <3>1. <<>> \in Seq(finds) /\ DOMAIN <<>> = {}
      BY EmptySeq
    <3>2. \A h \in finds : ~(h.start <= 0)
      BY DEF FindsOK
    <3> QED BY <3>1, <3>2 DEF Walked
  <2> QED BY <1>1, <2>1
<1>3. ASSUME NEW k \in 0..(n - 1), k \in P PROVE k + 1 \in P
  <2>1. Walked(finds, v[k + 1], k + 1)
    <3>1. Walked(finds, v[k], k)
      BY <1>3
    <3> QED BY <1>1, <3>1, VisitWalks
  <2>2. k + 1 \in 0..n
    OBVIOUS
  <2> QED BY <2>1, <2>2
<1>4. n \in P
  <2>1. P \in SUBSET (0..n)
    OBVIOUS
  <2>2. n \in 0..n
    OBVIOUS
  <2> HIDE DEF P
  <2> QED BY <1>2, <1>3, <2>1, <2>2, Throughout
<1> QED BY <1>1, <1>4

-----------------------------------------------------------------------------
(* ChatFunctions: the tokens found in a message                            *)

\* Whom a token is for: a player, or nobody.
Addressees == Talkers \cup {""}

\* Whom a token names: a player, or nobody.
LEMMA NobodyOrSomebody == "" \in Addressees /\ Talkers \subseteq Addressees
  BY Zenon DEF Addressees

\* A token found in n symbols.
TokenIn(n) ==
    {t \in [function : FunctionNames, rank : Int, start : 1..n, end : Int, target : Addressees] :
       t.start < t.end /\ t.end <= n + 1 /\ t.rank <= 6000}

\* What makes a token found in n symbols.
LEMMA TokenIsIn ==
    ASSUME NEW n \in Nat, NEW f \in FunctionNames, NEW rank \in Int, rank <= 6000,
           NEW i \in 1..n, NEW e \in Int, i < e, e <= n + 1, NEW target \in Addressees
    PROVE  [function |-> f, rank |-> rank, start |-> i, end |-> e, target |-> target] \in TokenIn(n)
<1> DEFINE t == [function |-> f, rank |-> rank, start |-> i, end |-> e, target |-> target]
<1>1. t \in [function : FunctionNames, rank : Int, start : 1..n, end : Int, target : Addressees]
  OBVIOUS
<1>2. t.start < t.end /\ t.end <= n + 1 /\ t.rank <= 6000
  OBVIOUS
<1> HIDE DEF t
<1>3. t \in TokenIn(n)
  BY <1>1, <1>2 DEF TokenIn
<1> QED BY <1>3 DEF t

\* Tokens are finds a walk can take.
LEMMA TokensAreFinds ==
    ASSUME NEW n \in Nat, NEW hits \in SUBSET TokenIn(n)
    PROVE  FindsOK(hits, n)
<1>1. \A h \in hits : h.start \in 1..n /\ h.end \in Int /\ h.start < h.end /\ h.rank \in Int /\ h.rank <= 6000
  <2> SUFFICES ASSUME NEW h \in TokenIn(n)
               PROVE  h.start \in 1..n /\ h.end \in Int /\ h.start < h.end /\ h.rank \in Int /\ h.rank <= 6000
    OBVIOUS
  <2>1. h \in [function : FunctionNames, rank : Int, start : 1..n, end : Int, target : Addressees]
    BY DEF TokenIn
  <2>2. h.start < h.end /\ h.rank <= 6000
    BY DEF TokenIn
  <2> QED BY <2>1, <2>2
<1>2. \E top \in Int : \A h \in hits : h.rank <= top
  BY <1>1
<1> QED BY <1>1, <1>2 DEF FindsOK

\* What is scanned is found.
LEMMA ScanTakes ==
    ASSUME NEW n \in Nat, NEW hits \in SUBSET TokenIn(n)
    PROVE  LeftToRight(hits, n) \in Seq(hits) /\ ToSet(LeftToRight(hits, n)) \in SUBSET TokenIn(n)
<1>1. LeftToRight(hits, n) \in Seq(hits)
  BY TokensAreFinds, WalkIs DEF Walked
<1>2. \A i \in DOMAIN LeftToRight(hits, n) : LeftToRight(hits, n)[i] \in hits
  BY <1>1, LenProperties
<1> QED BY <1>1, <1>2 DEF ToSet

\* The symbols passed over are one at most.
LEMMA PastIs ==
    ASSUME NEW symbols, NEW body, NEW i \in Nat
    PROVE  Past(symbols, body, i) \in Nat /\ i <= Past(symbols, body, i)
  BY DEF Past

\* The priorities of the functions.
LEMMA Priorities == /\ FunctionNames = {"Mention", "Item", "EnderChest", "Inventory", "MentionAll"}
                    /\ \A f \in FunctionNames : Priority[f] \in Int /\ Priority[f] <= 600
  BY DEF FunctionNames, Priority

\* A mention lies in the text.
LEMMA MentionsFound ==
    ASSUME NEW body \in Seq(STRING), NEW names \in SUBSET Talkers
    PROVE  MentionsIn(body, names) \in SUBSET TokenIn(Len(body))
<1> DEFINE n == Len(body)
           Onset(i)   == Past({" "}, body, Past({"@"}, body, i))
           Here(i) == {m \in names : StandsAt(NameOf[m], body, Onset(i))}
           Widest(i) == CHOOSE m \in Here(i) : \A o \in Here(i) : Len(NameOf[o]) <= Len(NameOf[m])
<1>0. n \in Nat
  BY LenProperties
<1>1. MentionsIn(body, names) = {Token("Mention", 0, i, Onset(i) + Len(NameOf[Widest(i)]), Widest(i)) :
                                   i \in {j \in 1..n : Here(j) # {}}}
  BY DEF MentionsIn
<1>2. ASSUME NEW i \in 1..n, Here(i) # {}
      PROVE  Token("Mention", 0, i, Onset(i) + Len(NameOf[Widest(i)]), Widest(i)) \in TokenIn(n)
  <2> DEFINE a == Onset(i)
             here == Here(i)
             long == Widest(i)
             T == {Len(NameOf[m]) : m \in here}
  <2>1. a \in Nat /\ i <= a /\ i \in Nat
    <3>1. i \in Nat
      BY <1>0
    <3> DEFINE b == Past({"@"}, body, i)
               c == Past({" "}, body, b)
    <3>2. b \in Nat /\ i <= b
      BY <3>1, PastIs
    <3> HIDE DEF b
    <3>3. c \in Nat /\ b <= c
      BY <3>2, PastIs
    <3> HIDE DEF c
    <3>4. c \in Nat /\ i <= c
      BY <3>1, <3>2, <3>3
    <3> QED BY <3>1, <3>4 DEF b, c
  <2>2. \A m \in here : m \in Talkers /\ StandsAt(NameOf[m], body, a)
    OBVIOUS
  <2>3. long = CHOOSE m \in here : \A o \in here : Len(NameOf[o]) <= Len(NameOf[m])
    OBVIOUS
  <2>4. here # {}
    BY <1>2
  <2> HIDE DEF a, here, long
  <2>5. \A m \in here : Len(NameOf[m]) \in Nat \ {0} /\ a + Len(NameOf[m]) - 1 <= n
    <3> SUFFICES ASSUME NEW m \in here PROVE Len(NameOf[m]) \in Nat \ {0} /\ a + Len(NameOf[m]) - 1 <= n
      OBVIOUS
    <3>1. NameOf[m] \in Seq(STRING) /\ NameOf[m] # <<>>
      BY <2>2, FunctionsAssumption
    <3>2. Len(NameOf[m]) \in Nat \ {0}
      BY <3>1, EmptySeq
    <3> QED BY <2>2, <3>2 DEF StandsAt
  <2>6. \E m \in here : \A o \in here : Len(NameOf[o]) <= Len(NameOf[m])
    <3>1. T \in SUBSET Int /\ T # {} /\ \A x \in T : x <= n + 1
      <4>1. \A m \in here : Len(NameOf[m]) \in Int /\ Len(NameOf[m]) <= n + 1
        BY <1>0, <2>1, <2>5
      <4> QED BY <2>4, <4>1
    <3>2. n + 1 \in Int
      BY <1>0
    <3>3. PICK x \in T : \A y \in T : y <= x
      <4> HIDE DEF T, n
      <4> QED BY <3>1, <3>2, Greatest
    <3> QED BY <3>3
  <2>7. long \in here
    BY <2>3, <2>6
  <2> DEFINE e == a + Len(NameOf[long])
  <2>8. e \in Int /\ i < e /\ e <= n + 1
    BY <1>0, <2>1, <2>5, <2>7
  <2>9. long \in Addressees
    BY <2>2, <2>7, NobodyOrSomebody
  <2> HIDE DEF e
  <2>10. Token("Mention", 0, i, e, long) \in TokenIn(n)
    <3>1. 10 * Priority["Mention"] - 0 = 5000
      BY DEF Priority
    <3>2. Token("Mention", 0, i, e, long) =
            [function |-> "Mention", rank |-> 5000, start |-> i, end |-> e, target |-> long]
      BY <3>1 DEF Token
    <3>3. "Mention" \in FunctionNames /\ 5000 \in Int /\ 5000 <= 6000
      BY Priorities
    <3> HIDE DEF n
    <3> QED BY <1>0, <2>8, <2>9, <3>2, <3>3, TokenIsIn
  <2> QED BY <2>10 DEF e, a, long
<1> HIDE DEF Here, Widest, Onset, n
<1>3. MentionsIn(body, names) \in SUBSET TokenIn(n)
  BY <1>1, <1>2
<1> QED BY <1>3 DEF n

\* The keys of a function lie in the text.
LEMMA KeysFound ==
    ASSUME NEW body \in Seq(STRING), NEW f \in FunctionNames, NEW k \in Nat, NEW key \in Seq(STRING)
    PROVE  KeysIn(f, k, key, body) \in SUBSET TokenIn(Len(body))
<1> DEFINE n == Len(body)
           l == Len(key)
           End(i) == IF f = "Item" THEN ItemEnd(body, i + l) ELSE i + l
<1>0. n \in Nat /\ l \in Nat
  BY LenProperties
<1>1. KeysIn(f, k, key, body) = {Token(f, k, i, End(i), "") : i \in {j \in 1..n : StandsAt(key, body, j)}}
  BY DEF KeysIn
<1>2. ASSUME NEW i \in 1..n, StandsAt(key, body, i) PROVE Token(f, k, i, End(i), "") \in TokenIn(n)
  <2>1. i \in Nat /\ l # 0 /\ i + l - 1 <= n
    <3>1. key # <<>> /\ i + l - 1 <= n
      BY <1>2 DEF StandsAt
    <3>2. l # 0
      BY <3>1, EmptySeq
    <3> QED BY <1>0, <3>1, <3>2
  <2>2. End(i) \in Int /\ i + l <= End(i) /\ End(i) <= n + 1
    <3> DEFINE after == i + l
    <3>1. after \in Nat /\ after <= n + 1
      BY <1>0, <2>1
    <3> HIDE DEF after
    <3>2. ItemEnd(body, after) \in Int /\ after <= ItemEnd(body, after) /\ ItemEnd(body, after) <= n + 1
      <4> DEFINE digit == Past({"-"}, body, after)
      <4>1. digit \in Nat /\ after <= digit
        BY <3>1, PastIs
      <4>2. Past({"1"}, body, digit) > digit => digit <= n
        <5>1. Past({"1"}, body, digit) = IF digit <= n /\ body[digit] \in {"1"} THEN digit + 1 ELSE digit
          BY DEF Past
        <5> HIDE DEF digit, n
        <5> QED BY <1>0, <4>1, <5>1
      <4>3. ItemEnd(body, after) = IF Past({"1"}, body, digit) > digit THEN digit + 1 ELSE after
        BY DEF ItemEnd
      <4> HIDE DEF digit, n
      <4> QED BY <1>0, <3>1, <4>1, <4>2, <4>3
    <3> HIDE DEF n, l
    <3> QED BY <3>1, <3>2 DEF after
  <2> DEFINE e == End(i)
             r == 10 * Priority[f] - k
  <2>3. e \in Int /\ i < e /\ e <= n + 1
    <3> HIDE DEF n, l
    <3>1. e \in Int /\ i + l <= e /\ e <= n + 1
      BY <2>2
    <3> HIDE DEF e
    <3> QED BY <1>0, <2>1, <3>1
  <2>4. r \in Int /\ r <= 6000
    BY Priorities
  <2> HIDE DEF e, n
  <2>5. ASSUME NEW target \in Addressees PROVE Token(f, k, i, e, target) \in TokenIn(n)
    <3>1. Token(f, k, i, e, target) = [function |-> f, rank |-> r, start |-> i, end |-> e, target |-> target]
      BY DEF Token
    <3> HIDE DEF r
    <3> QED BY <1>0, <2>3, <2>4, <3>1, TokenIsIn
  <2>6. Token(f, k, i, e, "") \in TokenIn(n)
    BY <2>5, NobodyOrSomebody, Zenon
  <2> QED BY <2>6 DEF e
<1> HIDE DEF End, n
<1>3. KeysIn(f, k, key, body) \in SUBSET TokenIn(n)
  BY <1>1, <1>2
<1> QED BY <1>3 DEF n

\* Whatever is on, the tokens lie in the text.
LEMMA TokensFound ==
    ASSUME NEW body \in Seq(STRING), NEW s \in DOMAIN Setups, NEW p
    PROVE  TokensIn(Setups[s], p, body) \in SUBSET TokenIn(Len(body))
<1> DEFINE n == Len(body)
           on == Setups[s].enabled
           keys == Setups[s].keys
<1>0. n \in Nat
  BY LenProperties
<1>1. on \subseteq FunctionNames /\ \A f \in on \ {"Mention"} : keys[f] \in Seq(Seq(STRING))
  BY FunctionsAssumption
<1>2. ToSet(LeftToRight(MentionsIn(body, Talkers \ {p}), n)) \in SUBSET TokenIn(n)
  <2>1. MentionsIn(body, Talkers \ {p}) \in SUBSET TokenIn(n)
    BY MentionsFound
  <2> HIDE DEF n
  <2> QED BY <1>0, <2>1, ScanTakes
<1>3. ASSUME NEW f \in on \ {"Mention"}, NEW k \in DOMAIN keys[f]
      PROVE  ToSet(LeftToRight(KeysIn(f, k, keys[f][k], body), n)) \in SUBSET TokenIn(n)
  <2>1. k \in Nat /\ keys[f][k] \in Seq(STRING)
    <3>1. keys[f] \in Seq(Seq(STRING))
      BY <1>1
    <3> HIDE DEF keys
    <3> QED BY <3>1, LenProperties
  <2>2. f \in FunctionNames
    BY <1>1
  <2> HIDE DEF keys, on
  <2>3. KeysIn(f, k, keys[f][k], body) \in SUBSET TokenIn(n)
    BY <2>1, <2>2, KeysFound
  <2> HIDE DEF n
  <2> QED BY <1>0, <2>3, ScanTakes
<1>4. TokensIn(Setups[s], p, body) =
        (IF "Mention" \in on THEN ToSet(LeftToRight(MentionsIn(body, Talkers \ {p}), n)) ELSE {}) \cup
        UNION {UNION {ToSet(LeftToRight(KeysIn(f, k, keys[f][k], body), n)) : k \in DOMAIN keys[f]} :
                 f \in on \ {"Mention"}}
  BY DEF TokensIn
<1> HIDE DEF on, keys, n
<1>5. TokensIn(Setups[s], p, body) \in SUBSET TokenIn(n)
  <2> DEFINE T == TokenIn(n)
             A == IF "Mention" \in on THEN ToSet(LeftToRight(MentionsIn(body, Talkers \ {p}), n)) ELSE {}
             B(f) == UNION {ToSet(LeftToRight(KeysIn(f, k, keys[f][k], body), n)) : k \in DOMAIN keys[f]}
  <2>1. A \in SUBSET T
    BY <1>2
  <2>2. ASSUME NEW f \in on \ {"Mention"} PROVE B(f) \in SUBSET T
    BY <1>3
  <2>3. TokensIn(Setups[s], p, body) = A \cup UNION {B(f) : f \in on \ {"Mention"}}
    BY <1>4
  <2> HIDE DEF A, B, T
  <2> QED BY <2>1, <2>2, <2>3 DEF T
<1> QED BY <1>5 DEF n

\* One symbol of strip_legacy_codes, and what the symbols read so far leave.
Stripping == [kept : Seq(STRING), code : BOOLEAN]
StripOne(text, st, i) ==
    IF st.code THEN [st EXCEPT !.code = FALSE]
    ELSE IF text[i] = "&" /\ i < Len(text) THEN [st EXCEPT !.code = TRUE]
    ELSE [st EXCEPT !.kept = Append(@, text[i])]
IsStrip(g, text, n) ==
    g = [S \in SUBSET (1..n) |->
           IF S = {} THEN [kept |-> <<>>, code |-> FALSE]
           ELSE StripOne(text, g[S \ {Max(S)}], Positions(n)[Max(S)])]

\* What is left of a text is a text.
LEMMA StrippedIsText ==
    ASSUME NEW text \in Seq(STRING)
    PROVE  Stripped(text) \in Seq(STRING)
<1> DEFINE n == Len(text)
           E == 1..n
           q == Positions(n)
           base == [kept |-> <<>>, code |-> FALSE]
           f == [se \in Stripping \X E |-> StripOne(text, se[1], se[2])]
           iter == CHOOSE g : IsStrip(g, text, n)
<1>0. n \in Nat /\ \A i \in 1..n : text[i] \in STRING
  BY LenProperties
<1>10. DOMAIN q = 1..n /\ q \in [1..n -> E]
  BY DEF Positions
<1>11. Stripped(text) = iter[1..n].kept
  BY <1>10 DEF Stripped, FoldLeft, MapThenFoldSet, IsStrip, StripOne
<1> HIDE DEF q, n
<1>1. ASSUME NEW st \in Stripping, NEW i \in E PROVE StripOne(text, st, i) \in Stripping
  <2>1. text[i] \in STRING /\ st.kept \in Seq(STRING)
    BY <1>0 DEF Stripping
  <2>2. Append(st.kept, text[i]) \in Seq(STRING)
    BY <2>1, AppendProperties
  <2>3. /\ [st EXCEPT !.code = FALSE] \in Stripping /\ [st EXCEPT !.code = TRUE] \in Stripping
        /\ [st EXCEPT !.kept = Append(@, text[i])] \in Stripping
    BY <2>2 DEF Stripping
  <2> QED BY <2>3 DEF StripOne
<1>2. f \in [Stripping \X E -> Stripping]
  <2> SUFFICES ASSUME NEW se \in Stripping \X E PROVE StripOne(text, se[1], se[2]) \in Stripping
    OBVIOUS
  <2>1. se[1] \in Stripping /\ se[2] \in E
    OBVIOUS
  <2> QED BY <1>1, <2>1
<1>3. base \in Stripping
  BY EmptySeq DEF Stripping
<1>4. PICK g \in [SUBSET (1..n) -> Stripping] : IsFold(g, f, q, base, n)
  <2> HIDE DEF f, base, E
  <2> QED BY <1>0, <1>2, <1>3, <1>10, FoldIsDefined
<1>5. ASSUME NEW S \in SUBSET (1..n), S # {}
      PROVE  f[<<g[S \ {Max(S)}], q[Max(S)]>>] = StripOne(text, g[S \ {Max(S)}], q[Max(S)])
  <2>1. Max(S) \in 1..n
    BY <1>0, <1>5, MaxIs
  <2>2. q[Max(S)] \in E
    BY <1>10, <2>1
  <2>3. g[S \ {Max(S)}] \in Stripping
    BY <1>4
  <2> HIDE DEF E
  <2> QED BY <2>2, <2>3
<1>6. IsStrip(g, text, n)
  <2>1. g = [S \in SUBSET (1..n) |-> IF S = {} THEN base ELSE f[<<g[S \ {Max(S)}], q[Max(S)]>>]]
    BY <1>4 DEF IsFold
  <2> HIDE DEF f, base
  <2>2. g = [S \in SUBSET (1..n) |-> IF S = {} THEN base ELSE StripOne(text, g[S \ {Max(S)}], q[Max(S)])]
    BY <1>5, <2>1, Zenon
  <2> QED BY <2>2 DEF IsStrip, q, base
<1>7. IsStrip(iter, text, n)
  BY <1>6
<1> HIDE DEF iter
<1> DEFINE P == {k \in 0..n : iter[1..k] \in Stripping}
<1>8. 0 \in P
  <2>1. 1..0 = {} /\ {} \in SUBSET (1..n) /\ 0 \in 0..n
    BY <1>0
  <2>2. iter[{}] = base
    BY <1>7, <2>1 DEF IsStrip
  <2> HIDE DEF base
  <2> QED BY <1>3, <2>1, <2>2
<1>9. ASSUME NEW k \in 0..(n - 1), k \in P PROVE k + 1 \in P
  <2>1. /\ 1..(k + 1) \in SUBSET (1..n) /\ 1..(k + 1) # {}
        /\ Max(1..(k + 1)) = k + 1 /\ (1..(k + 1)) \ {k + 1} = 1..k
    BY <1>0, Beginnings
  <2>2. iter[1..(k + 1)] = StripOne(text, iter[1..k], q[k + 1])
    BY <1>7, <2>1 DEF IsStrip, q
  <2>3. q[k + 1] \in E /\ k + 1 \in 0..n
    <3>1. k + 1 \in 1..n /\ k + 1 \in 0..n
      BY <1>0
    <3> HIDE DEF E
    <3> QED BY <1>10, <3>1
  <2>4. iter[1..k] \in Stripping
    BY <1>9
  <2> QED BY <1>1, <2>2, <2>3, <2>4
<1>12. n \in P
  <2>1. P \in SUBSET (0..n) /\ n \in 0..n
    BY <1>0
  <2> HIDE DEF P
  <2> QED BY <1>0, <1>8, <1>9, <2>1, Throughout
<1> QED BY <1>11, <1>12 DEF Stripping

-----------------------------------------------------------------------------
(* ChatFunctions: the pieces of a message                                  *)
Piece == [text : Seq(STRING), token : Seq(STRING)]
Joined1(text, piece) == text \o piece.text \o piece.token
IsJoin(g, q, n) ==
    g = [S \in SUBSET (1..n) |-> IF S = {} THEN <<>> ELSE Joined1(g[S \ {Max(S)}], q[Max(S)])]

\* What is joined to a text is a text.
LEMMA JoinedIsText ==
    ASSUME NEW text \in Seq(STRING), NEW piece \in Piece
    PROVE  Joined1(text, piece) \in Seq(STRING)
<1>1. piece.text \in Seq(STRING) /\ piece.token \in Seq(STRING)
  BY DEF Piece
<1>2. text \o piece.text \in Seq(STRING)
  BY <1>1, ConcatProperties
<1>3. (text \o piece.text) \o piece.token \in Seq(STRING)
  BY <1>1, <1>2, ConcatProperties
<1> QED BY <1>3 DEF Joined1

\* The pieces are joined one by one.
LEMMA JoinIsStepwise ==
    ASSUME NEW q \in Seq(Piece), NEW n \in Nat, n = Len(q)
    PROVE  \E v : /\ v[0] = <<>> /\ Rejoined(q) = v[n]
                  /\ \A k \in 0..(n - 1) : v[k + 1] = Joined1(v[k], q[k + 1])
<1> DEFINE D == Seq(STRING)
           f == [se \in D \X Piece |-> Joined1(se[1], se[2])]
           iter == CHOOSE g : IsJoin(g, q, n)
<1>0. DOMAIN q = 1..n /\ q \in [1..n -> Piece]
  BY LenProperties
<1>1. f \in [D \X Piece -> D]
  <2> SUFFICES ASSUME NEW se \in D \X Piece PROVE Joined1(se[1], se[2]) \in D
    OBVIOUS
  <2>1. se[1] \in Seq(STRING) /\ se[2] \in Piece
    OBVIOUS
  <2> QED BY <2>1, JoinedIsText
<1>2. <<>> \in D
  BY EmptySeq
<1>3. PICK g \in [SUBSET (1..n) -> D] : IsFold(g, f, q, <<>>, n)
  <2> HIDE DEF D, f
  <2> QED BY <1>0, <1>1, <1>2, FoldIsDefined
<1>4. ASSUME NEW S \in SUBSET (1..n), S # {}
      PROVE  f[<<g[S \ {Max(S)}], q[Max(S)]>>] = Joined1(g[S \ {Max(S)}], q[Max(S)])
  <2>1. Max(S) \in 1..n
    BY <1>4, MaxIs
  <2>2. q[Max(S)] \in Piece
    BY <1>0, <2>1
  <2>3. g[S \ {Max(S)}] \in D
    BY <1>3
  <2> HIDE DEF D
  <2> QED BY <2>2, <2>3
<1>5. IsJoin(g, q, n)
  <2>1. g = [S \in SUBSET (1..n) |-> IF S = {} THEN <<>> ELSE f[<<g[S \ {Max(S)}], q[Max(S)]>>]]
    BY <1>3 DEF IsFold
  <2> HIDE DEF f, D
  <2>2. g = [S \in SUBSET (1..n) |-> IF S = {} THEN <<>> ELSE Joined1(g[S \ {Max(S)}], q[Max(S)])]
    BY <1>4, <2>1, Zenon
  <2> QED BY <2>2 DEF IsJoin
<1>6. IsJoin(iter, q, n)
  BY <1>5
<1>7. Rejoined(q) = iter[1..n]
  BY <1>0 DEF Rejoined, FoldLeft, MapThenFoldSet, IsJoin, Joined1
<1> HIDE DEF iter
<1> DEFINE v == [k \in 0..n |-> iter[1..k]]
<1>8. v[0] = <<>>
  <2>1. 1..0 = {} /\ {} \in SUBSET (1..n) /\ 0 \in 0..n
    OBVIOUS
  <2> QED BY <1>6, <2>1 DEF IsJoin
<1>9. ASSUME NEW k \in 0..(n - 1) PROVE v[k + 1] = Joined1(v[k], q[k + 1])
  <2>0. k \in 0..n /\ k + 1 \in 0..n
    OBVIOUS
  <2>1. /\ 1..(k + 1) \in SUBSET (1..n) /\ 1..(k + 1) # {}
        /\ Max(1..(k + 1)) = k + 1 /\ (1..(k + 1)) \ {k + 1} = 1..k
    BY Beginnings
  <2>2. iter[1..(k + 1)] = Joined1(iter[1..k], q[k + 1])
    BY <1>6, <2>1 DEF IsJoin
  <2> QED BY <2>0, <2>2
<1>10. v[n] = iter[1..n]
  OBVIOUS
<1> HIDE DEF v
<1> QED BY <1>7, <1>8, <1>9, <1>10

\* No pieces make no text; one piece more is joined to what there was.
LEMMA RejoinedIs ==
    /\ Rejoined(<<>>) = <<>>
    /\ \A q \in Seq(Piece), x \in Piece : Rejoined(Append(q, x)) = Joined1(Rejoined(q), x)
<1>1. Rejoined(<<>>) = <<>>
  <2>1. <<>> \in Seq(Piece) /\ Len(<<>>) = 0 /\ 0 \in Nat
    BY EmptySeq
  <2> QED BY <2>1, JoinIsStepwise
<1>2. ASSUME NEW q \in Seq(Piece), NEW x \in Piece PROVE Rejoined(Append(q, x)) = Joined1(Rejoined(q), x)
  <2> DEFINE n == Len(q)
             a == Append(q, x)
  <2>1. n \in Nat /\ a \in Seq(Piece) /\ Len(a) = n + 1 /\ a[n + 1] = x /\ \A i \in 1..n : a[i] = q[i]
    BY AppendProperties, LenProperties
  <2>2. PICK v : /\ v[0] = <<>> /\ Rejoined(q) = v[n]
                 /\ \A k \in 0..(n - 1) : v[k + 1] = Joined1(v[k], q[k + 1])
    BY <2>1, JoinIsStepwise
  <2>3. PICK w : /\ w[0] = <<>> /\ Rejoined(a) = w[n + 1]
                 /\ \A k \in 0..((n + 1) - 1) : w[k + 1] = Joined1(w[k], a[k + 1])
    <3>1. n + 1 \in Nat
      BY <2>1
    <3> HIDE DEF a, n
    <3> QED BY <2>1, <3>1, JoinIsStepwise
  <2> HIDE DEF a, n
  <2> DEFINE P == {k \in 0..n : v[k] = w[k]}
  <2>4. 0 \in P
    BY <2>1, <2>2, <2>3
  <2>5. ASSUME NEW k \in 0..(n - 1), k \in P PROVE k + 1 \in P
    <3>1. k \in 0..((n + 1) - 1) /\ k + 1 \in 1..n /\ k + 1 \in 0..n
      BY <2>1
    <3>2. v[k + 1] = Joined1(v[k], q[k + 1]) /\ w[k + 1] = Joined1(w[k], a[k + 1]) /\ a[k + 1] = q[k + 1]
      BY <2>1, <2>2, <2>3, <3>1
    <3> QED BY <2>5, <3>1, <3>2
  <2>6. n \in P
    <3>1. P \in SUBSET (0..n) /\ n \in 0..n
      BY <2>1
    <3> HIDE DEF P
    <3> QED BY <2>1, <2>4, <2>5, <3>1, Throughout
  <2>7. n \in 0..((n + 1) - 1)
    BY <2>1
  <2>8. w[n + 1] = Joined1(w[n], x)
    BY <2>1, <2>3, <2>7
  <2> QED BY <2>2, <2>3, <2>6, <2>8 DEF a
<1> QED BY <1>1, <1>2

-----------------------------------------------------------------------------
(* ChatFunctions: a message rendered token by token                        *)

-----------------------------------------------------------------------------
(* ChatFunctions: what the tokens of a message change                      *)
Uses == Talkers \X FunctionNames
RenderState ==
    [cursor : Nat, pieces : Seq(Piece), used : SUBSET FunctionNames, refused : SUBSET FunctionNames,
     granted : SUBSET FunctionNames, mentioned : SUBSET Addressees, safe : BOOLEAN,
     until : [Uses -> Nat], store : Seq(Snapshot), offered : Seq(Nat)]

\* A token lies in the text, and names a function.
LEMMA TokenIs ==
    ASSUME NEW n \in Nat, NEW t \in TokenIn(n)
    PROVE  /\ t.function \in FunctionNames /\ t.target \in Addressees
           /\ t.start \in 1..n /\ t.end \in Nat /\ t.start < t.end /\ t.end <= n + 1
<1>1. t \in [function : FunctionNames, rank : Int, start : 1..n, end : Int, target : Addressees]
  BY DEF TokenIn
<1>2. t.start < t.end /\ t.end <= n + 1
  BY DEF TokenIn
<1> QED BY <1>1, <1>2

\* The cooldowns are numbers.
LEMMA CooldownIs ==
    ASSUME setup \in DOMAIN Setups, NEW f \in FunctionNames
    PROVE  Setup.cooldown[f] \in Nat
<1>1. Setups[setup].cooldown \in [FunctionNames -> Nat]
  BY FunctionsAssumption
<1> QED BY <1>1 DEF Setup

\* What a charge changes.
LEMMA ChargedIs ==
    ASSUME NEW n \in Nat, NEW t \in TokenIn(n), NEW st \in RenderState, NEW p \in Talkers,
           clock \in Nat, setup \in DOMAIN Setups
    PROVE  LET new == Charged(p, t, st)
               f == t.function
           IN  /\ new \in RenderState
               /\ new.cursor = st.cursor /\ new.pieces = st.pieces /\ new.refused = st.refused
               /\ new.store = st.store /\ new.offered = st.offered
               /\ new.granted = IF Charges(p, t, st) THEN st.granted \cup {f} ELSE st.granted
               /\ new.until = IF Charges(p, t, st)
                              THEN [st.until EXCEPT ![<<p, f>>] = clock + Setup.cooldown[f]] ELSE st.until
<1> DEFINE f == t.function
           g == st.granted \cup {f}
           u == [st.until EXCEPT ![<<p, f>>] = clock + Setup.cooldown[f]]
           new == [st EXCEPT !.granted = g, !.until = u]
<1>1. f \in FunctionNames
  BY TokenIs
<1>2. Setup.cooldown[f] \in Nat
  BY <1>1, CooldownIs
<1>3. g \in SUBSET FunctionNames
  BY <1>1 DEF RenderState
<1>4. u \in [Uses -> Nat]
  <2>1. st.until \in [Uses -> Nat]
    BY DEF RenderState
  <2>2. clock + Setup.cooldown[f] \in Nat
    BY <1>2
  <2> QED BY <2>1, <2>2
<1>5. Charged(p, t, st) = IF Charges(p, t, st) THEN new ELSE st
  BY DEF Charged
<1> HIDE DEF g, u
<1>6. /\ new \in RenderState
      /\ new.cursor = st.cursor /\ new.pieces = st.pieces /\ new.refused = st.refused
      /\ new.store = st.store /\ new.offered = st.offered /\ new.granted = g /\ new.until = u
  BY <1>3, <1>4 DEF RenderState
<1> HIDE DEF new
<1> QED BY <1>5, <1>6 DEF g, u

\* What a use adds: whom it alerts, and perhaps a snapshot.
LEMMA RenderedIs ==
    ASSUME NEW n \in Nat, NEW t \in TokenIn(n), NEW st \in RenderState, NEW p \in Talkers, NEW item,
           clock \in Nat, StoreOK(st.store, st.offered, clock)
    PROVE  LET new == Rendered(p, t, item, st)
           IN  /\ new \in RenderState
               /\ new.cursor = st.cursor /\ new.pieces = st.pieces /\ new.refused = st.refused
               /\ new.granted = st.granted /\ new.until = st.until
               /\ StoreOK(new.store, new.offered, clock)
<1> DEFINE offers == \/ t.function \in {"Inventory", "EnderChest"}
                     \/ t.function = "Item" /\ item # "air" /\ Setup.itemUi
           limited == t.function # "Item"
           id      == Len(st.offered) + 1
           alerts == CASE t.function = "Mention"    -> {t.target}
                       [] t.function = "MentionAll" -> Talkers
                       [] OTHER                     -> {}
           m == st.mentioned \cup (alerts \ {p})
           b == st.safe /\ ~(t.function = "Item" /\ item = "modded")
           s == IF offers THEN Stored(st.store, id, limited) ELSE st.store
           o == IF offers THEN Append(st.offered, clock) ELSE st.offered
           new == [st EXCEPT !.mentioned = m, !.safe = b, !.store = s, !.offered = o]
<1>1. Rendered(p, t, item, st) = new
  BY DEF Rendered
<1>2. m \in SUBSET Addressees
  <2>1. t.target \in Addressees /\ st.mentioned \in SUBSET Addressees
    BY TokenIs DEF RenderState
  <2>2. alerts \in SUBSET Addressees
    BY <2>1, NobodyOrSomebody
  <2> HIDE DEF alerts
  <2> QED BY <2>1, <2>2
<1>3. b \in BOOLEAN
  BY Zenon
<1>4. StoreOK(s, o, clock)
  <2>1. StoreOK(Stored(st.store, id, limited), Append(st.offered, clock), clock)
    <3>1. limited \in BOOLEAN
      BY Zenon
    <3> HIDE DEF limited
    <3> QED BY <3>1, StoredKeeps
  <2> HIDE DEF offers, limited, id
  <2> QED BY <2>1
<1>5. s \in Seq(Snapshot) /\ o \in Seq(Nat)
  <2> HIDE DEF s, o
  <2> QED BY <1>4 DEF StoreOK
<1> HIDE DEF m, b, s, o
<1>6. /\ new \in RenderState
      /\ new.cursor = st.cursor /\ new.pieces = st.pieces /\ new.refused = st.refused
      /\ new.granted = st.granted /\ new.until = st.until /\ new.store = s /\ new.offered = o
  BY <1>2, <1>3, <1>5 DEF RenderState
<1> HIDE DEF new
<1> QED BY <1>1, <1>4, <1>6

\* The plain text up to a token, and the token, as they were typed.
LEMMA PieceIs ==
    ASSUME NEW body \in Seq(STRING), NEW t \in TokenIn(Len(body)), NEW c \in Nat \ {0}, c <= t.start
    PROVE  LET piece == [text |-> SubSeq(body, c, t.start - 1), token |-> SubSeq(body, t.start, t.end - 1)]
           IN  /\ piece \in Piece
               /\ Joined1(SubSeq(body, 1, c - 1), piece) = SubSeq(body, 1, t.end - 1)
<1> DEFINE n == Len(body)
           i == t.start - 1
           e == t.end - 1
           d == c - 1
           x == SubSeq(body, c, i)
           y == SubSeq(body, t.start, e)
<1>0. n \in Nat /\ \A j \in 1..n : body[j] \in STRING
  BY LenProperties
<1>1. i \in Nat /\ e \in Nat /\ d \in Nat /\ d <= i /\ i < e /\ e <= n
      /\ d + 1 = c /\ i + 1 = t.start /\ t.start \in Int /\ c \in Int
  <2>1. t.start \in 1..n /\ t.end \in Nat /\ t.start < t.end /\ t.end <= n + 1
    BY <1>0, TokenIs
  <2> HIDE DEF n
  <2> QED BY <1>0, <2>1
<1>2. x \in Seq(STRING) /\ y \in Seq(STRING)
  <2>1. \A j \in c..i : body[j] \in STRING
    BY <1>0, <1>1
  <2>2. \A j \in t.start..e : body[j] \in STRING
    BY <1>0, <1>1
  <2> HIDE DEF i, e
  <2> QED BY <1>1, <2>1, <2>2, SubSeqProperties
<1>3. SubSeq(body, 1, d) \o x = SubSeq(body, 1, i)
  <2>1. 1 \in 1..(n + 1) /\ d \in (1 - 1)..n /\ i \in d..n
    BY <1>0, <1>1
  <2> HIDE DEF d, i, n
  <2>2. SubSeq(body, 1, d) \o SubSeq(body, d + 1, i) = SubSeq(body, 1, i)
    BY <2>1, ConcatAdjacentSubSeq DEF n
  <2> QED BY <1>1, <2>2
<1>4. SubSeq(body, 1, i) \o y = SubSeq(body, 1, e)
  <2>1. 1 \in 1..(n + 1) /\ i \in (1 - 1)..n /\ e \in i..n
    BY <1>0, <1>1
  <2> HIDE DEF e, i, n
  <2>2. SubSeq(body, 1, i) \o SubSeq(body, i + 1, e) = SubSeq(body, 1, e)
    BY <2>1, ConcatAdjacentSubSeq DEF n
  <2> QED BY <1>1, <2>2
<1> HIDE DEF x, y
<1> DEFINE piece == [text |-> x, token |-> y]
<1>5. piece \in Piece
  BY <1>2 DEF Piece
<1>6. Joined1(SubSeq(body, 1, d), piece) = SubSeq(body, 1, d) \o x \o y
  BY DEF Joined1
<1> QED BY <1>3, <1>4, <1>5, <1>6 DEF x, y

\* The cooldowns a message has met: what it was granted was free, what it was refused was
\* barred or not free, and only what was granted is charged.
ChargedTo(p, st) ==
    /\ \A f \in st.granted : <<p, f>> \notin Barred /\ until[<<p, f>>] <= clock
    /\ \A f \in st.refused : <<p, f>> \in Barred \/ until[<<p, f>>] > clock
    /\ \A x \in Uses : st.until[x] = IF x[1] = p /\ x[2] \in st.granted
                                     THEN clock + Setup.cooldown[x[2]] ELSE until[x]
\* A message rendered up to a position.
Rendering(p, body, st, c) ==
    /\ st \in RenderState /\ StoreOK(st.store, st.offered, clock)
    /\ ChargedTo(p, st)
    /\ st.cursor = c /\ Rejoined(st.pieces) = SubSeq(body, 1, c - 1)

\* A token refused, because of a right or of a cooldown.
LEMMA RefusedKeeps ==
    ASSUME NEW f \in FunctionNames, NEW p \in Talkers, NEW st \in RenderState, ChargedTo(p, st),
           clock \in Nat, until \in [Uses -> Nat],
           <<p, f>> \in Barred \/ (f \notin st.granted /\ ~(st.until[<<p, f>>] <= clock)),
           NEW new, new.granted = st.granted, new.until = st.until, new.refused = st.refused \cup {f}
    PROVE  ChargedTo(p, new)
<1>1. <<p, f>> \in Uses
  BY DEF Uses
<1>2. f \notin st.granted => st.until[<<p, f>>] = until[<<p, f>>]
  BY <1>1 DEF ChargedTo
<1>3. until[<<p, f>>] \in Nat
  BY <1>1
<1>4. <<p, f>> \in Barred \/ until[<<p, f>>] > clock
  BY <1>2, <1>3
<1> QED BY <1>4 DEF ChargedTo

\* A token used, and charged for.
LEMMA GrantedKeeps ==
    ASSUME NEW f \in FunctionNames, NEW p \in Talkers, NEW st \in RenderState, ChargedTo(p, st),
           clock \in Nat, setup \in DOMAIN Setups, until \in [Uses -> Nat],
           <<p, f>> \notin Barred, f \notin st.granted, st.until[<<p, f>>] <= clock,
           NEW new, new.refused = st.refused, new.granted = st.granted \cup {f},
           new.until = [st.until EXCEPT ![<<p, f>>] = clock + Setup.cooldown[f]]
    PROVE  ChargedTo(p, new)
<1> DEFINE u == st.until
           free == clock + Setup.cooldown[f]
           w == [u EXCEPT ![<<p, f>>] = free]
<1>1. <<p, f>> \in Uses /\ u \in [Uses -> Nat] /\ new.until = w
  BY DEF Uses, RenderState
<1>2. until[<<p, f>>] <= clock
  BY <1>1 DEF ChargedTo
<1>3. \A g \in new.granted : <<p, g>> \notin Barred /\ until[<<p, g>>] <= clock
  BY <1>2 DEF ChargedTo
<1>4. ASSUME NEW x \in Uses
      PROVE  w[x] = IF x[1] = p /\ x[2] \in new.granted THEN clock + Setup.cooldown[x[2]] ELSE until[x]
  <2>0. u[x] = IF x[1] = p /\ x[2] \in st.granted THEN clock + Setup.cooldown[x[2]] ELSE until[x]
    BY DEF ChargedTo
  <2> HIDE DEF u
  <2>1. x = <<x[1], x[2]>>
    BY DEF Uses
  <2>2. CASE x = <<p, f>>
    <3>1. w[x] = free
      BY <1>1, <2>2
    <3> QED BY <2>2, <3>1
  <2>3. CASE x # <<p, f>>
    <3>1. w[x] = u[x]
      BY <1>1, <2>3
    <3>2. x[1] = p => x[2] # f
      BY <2>1, <2>3
    <3> HIDE DEF w
    <3> QED BY <2>0, <3>1, <3>2
  <2> QED BY <2>2, <2>3
<1> HIDE DEF w
<1>5. \A g \in new.refused : <<p, g>> \in Barred \/ until[<<p, g>>] > clock
  BY DEF ChargedTo
<1> QED BY <1>1, <1>3, <1>4, <1>5 DEF ChargedTo

\* A token takes the rendering to its end.
LEMMA TurnRenders ==
    ASSUME NEW body \in Seq(STRING), NEW t \in TokenIn(Len(body)), NEW p \in Talkers, NEW item,
           NEW c \in Nat \ {0}, c <= t.start, NEW before, Rendering(p, body, before, c),
           clock \in Nat, setup \in DOMAIN Setups, until \in [Uses -> Nat]
    PROVE  Rendering(p, body, OneToken(p, body, item, before, t), t.end)
<1> DEFINE n == Len(body)
           piece == [text |-> SubSeq(body, before.cursor, t.start - 1), token |-> SubSeq(body, t.start, t.end - 1)]
           ps == Append(before.pieces, piece)
           st == [before EXCEPT !.pieces = ps, !.cursor = t.end]
           paid == Charged(p, t, st)
           rendered == Rendered(p, t, item, paid)
           used == [rendered EXCEPT !.used = @ \cup {t.function}]
           not == [st EXCEPT !.refused = @ \cup {t.function}]
           new == OneToken(p, body, item, before, t)
<1>0. n \in Nat /\ t \in TokenIn(n) /\ t.function \in FunctionNames /\ t.end \in Nat
  <2>1. n \in Nat /\ t \in TokenIn(n)
    BY LenProperties
  <2> HIDE DEF n
  <2> QED BY <2>1, TokenIs
<1>1. new = IF CanUse(p, t, st) THEN used ELSE not
  BY DEF OneToken
<1>2. /\ before \in RenderState /\ StoreOK(before.store, before.offered, clock) /\ ChargedTo(p, before)
      /\ before.cursor = c /\ Rejoined(before.pieces) = SubSeq(body, 1, c - 1)
  BY DEF Rendering
<1>3. piece \in Piece /\ Joined1(SubSeq(body, 1, c - 1), piece) = SubSeq(body, 1, t.end - 1)
  BY <1>2, PieceIs
<1> HIDE DEF piece, n, new
<1>4. ps \in Seq(Piece) /\ Rejoined(ps) = SubSeq(body, 1, t.end - 1)
  <2>1. before.pieces \in Seq(Piece)
    BY <1>2 DEF RenderState
  <2> QED BY <1>2, <1>3, <2>1, AppendProperties, RejoinedIs
<1> HIDE DEF ps
<1>5. /\ st \in RenderState /\ st.cursor = t.end /\ st.pieces = ps
      /\ st.store = before.store /\ st.offered = before.offered
      /\ st.granted = before.granted /\ st.refused = before.refused /\ st.until = before.until
  BY <1>0, <1>2, <1>4 DEF RenderState
<1> HIDE DEF st
<1>6. ChargedTo(p, st)
  BY <1>2, <1>5 DEF ChargedTo
<1> DEFINE granted == st.granted
           refused == st.refused
           u == st.until
<1>7. granted \in SUBSET FunctionNames /\ refused \in SUBSET FunctionNames /\ u \in [Uses -> Nat]
  BY <1>5 DEF RenderState
<1>8. CASE CanUse(p, t, st)
  <2>1. /\ paid \in RenderState
        /\ paid.cursor = st.cursor /\ paid.pieces = st.pieces /\ paid.refused = st.refused
        /\ paid.store = st.store /\ paid.offered = st.offered
        /\ paid.granted = IF Charges(p, t, st) THEN granted \cup {t.function} ELSE granted
        /\ paid.until = IF Charges(p, t, st)
                           THEN [u EXCEPT ![<<p, t.function>>] = clock + Setup.cooldown[t.function]] ELSE u
    BY <1>0, <1>5, ChargedIs
  <2> HIDE DEF paid
  <2>2. StoreOK(paid.store, paid.offered, clock)
    BY <1>2, <1>5, <2>1
  <2>3. /\ rendered \in RenderState
        /\ rendered.cursor = paid.cursor /\ rendered.pieces = paid.pieces
        /\ rendered.refused = paid.refused
        /\ rendered.granted = paid.granted /\ rendered.until = paid.until
        /\ StoreOK(rendered.store, rendered.offered, clock)
    BY <1>0, <2>1, <2>2, RenderedIs
  <2> HIDE DEF rendered
  <2>4. rendered.used \cup {t.function} \in SUBSET FunctionNames
    BY <1>0, <2>3 DEF RenderState
  <2>5. /\ used \in RenderState
        /\ used.cursor = rendered.cursor /\ used.pieces = rendered.pieces /\ used.refused = rendered.refused
        /\ used.granted = rendered.granted /\ used.until = rendered.until
        /\ used.store = rendered.store /\ used.offered = rendered.offered
    BY <2>3, <2>4 DEF RenderState
  <2>6. new = used
    BY <1>1, <1>8
  <2> HIDE DEF used
  <2>7. ChargedTo(p, new)
    <3>1. new.refused = refused
      BY <2>1, <2>3, <2>5, <2>6
    <3>2. CASE ~Charges(p, t, st)
      <4>1. new.granted = granted /\ new.until = u
        BY <2>1, <2>3, <2>5, <2>6, <3>2
      <4> QED BY <1>6, <3>1, <4>1 DEF ChargedTo
    <3>3. CASE Charges(p, t, st)
      <4> DEFINE f == t.function
      <4>1. /\ new.granted = granted \cup {f}
            /\ new.until = [u EXCEPT ![<<p, f>>] = clock + Setup.cooldown[f]]
        BY <2>1, <2>3, <2>5, <2>6, <3>3
      <4>2. <<p, f>> \notin Barred /\ f \notin granted /\ u[<<p, f>>] <= clock
        BY <1>8, <3>3 DEF CanUse, Charges
      <4>3. f \in FunctionNames
        BY <1>0
      <4> HIDE DEF f
      <4> QED BY <1>5, <1>6, <3>1, <4>1, <4>2, <4>3, GrantedKeeps
    <3> QED BY <3>2, <3>3
  <2>8. new \in RenderState /\ StoreOK(new.store, new.offered, clock)
    BY <2>3, <2>5, <2>6
  <2>9. new.cursor = t.end /\ new.pieces = ps
    BY <1>5, <2>1, <2>3, <2>5, <2>6
  <2> HIDE DEF granted, refused, u
  <2> QED BY <1>4, <2>7, <2>8, <2>9 DEF Rendering, new
<1>9. CASE ~CanUse(p, t, st)
  <2>1. refused \cup {t.function} \in SUBSET FunctionNames
    BY <1>0, <1>7
  <2>2. /\ not \in RenderState /\ not.refused = refused \cup {t.function}
        /\ not.cursor = st.cursor /\ not.pieces = st.pieces
        /\ not.granted = st.granted /\ not.until = st.until
        /\ not.store = st.store /\ not.offered = st.offered
    BY <1>5, <2>1 DEF RenderState
  <2>3. new = not
    BY <1>1, <1>9
  <2> HIDE DEF not
  <2>4. ChargedTo(p, new)
    <3> DEFINE f == t.function
    <3>1. <<p, f>> \in Barred \/ (f \notin granted /\ ~(u[<<p, f>>] <= clock))
      BY <1>9 DEF CanUse
    <3>2. new.refused = refused \cup {f} /\ new.granted = granted /\ new.until = u /\ f \in FunctionNames
      BY <1>0, <2>2, <2>3
    <3> HIDE DEF f
    <3> QED BY <1>5, <1>6, <3>1, <3>2, RefusedKeeps
  <2>5. new \in RenderState /\ StoreOK(new.store, new.offered, clock)
    BY <1>2, <1>5, <2>2, <2>3
  <2>6. new.cursor = t.end /\ new.pieces = ps
    BY <1>5, <2>2, <2>3
  <2> HIDE DEF granted, refused, u
  <2> QED BY <1>4, <2>4, <2>5, <2>6 DEF Rendering, new
<1> QED BY <1>8, <1>9 DEF new

\* The function of Render: what the tokens at the positions S make of base.
IsRender(g, p, body, item, q, base, n) ==
    g = [S \in SUBSET (1..n) |->
            IF S = {} THEN base ELSE OneToken(p, body, item, g[S \ {Max(S)}], q[Max(S)])]

\* The recursion of Render has a solution, whatever tokens it folds.
LEMMA RenderIsDefined ==
    ASSUME NEW p, NEW body, NEW item, NEW q, NEW base, NEW n \in Nat
    PROVE  \E g : IsRender(g, p, body, item, q, base, n)
<1> DEFINE Step(g, S) == IF S = {} THEN base ELSE OneToken(p, body, item, g[S \ {Max(S)}], q[Max(S)])
           Is(k) == \E g : IsRender(g, p, body, item, q, base, k)
           Wrong == {k \in Nat : ~Is(k)}
<1>1. SUFFICES ASSUME Wrong # {} PROVE FALSE
  OBVIOUS
<1>2. PICK k \in Wrong : \A j \in Wrong : k <= j
  <2>1. Wrong \in SUBSET Nat
    OBVIOUS
  <2> HIDE DEF Wrong
  <2> QED BY <1>1, <2>1, Least
<1>3. CASE k = 0
  <2> DEFINE g == [S \in SUBSET (1..0) |-> base]
  <2>1. \A S \in SUBSET (1..0) : S = {}
    OBVIOUS
  <2>2. g = [S \in SUBSET (1..0) |-> Step(g, S)]
    BY <2>1
  <2>3. IsRender(g, p, body, item, q, base, 0)
    BY <2>2 DEF IsRender
  <2> HIDE DEF g, Step
  <2> QED BY <1>3, <2>3
<1>4. CASE k # 0
  <2> DEFINE j == k - 1
  <2>1. j \in Nat /\ k = j + 1 /\ k \in Nat /\ j \notin Wrong
    <3>1. k \in Nat
      OBVIOUS
    <3>2. j \in Nat /\ j < k
      BY <1>4, <3>1
    <3>3. j \notin Wrong
      <4> HIDE DEF Wrong, j
      <4> QED BY <1>2, <3>1, <3>2
    <3> HIDE DEF Wrong
    <3> QED BY <3>1, <3>2, <3>3
  <2> HIDE DEF j
  <2>2. Is(j)
    BY <2>1
  <2> HIDE DEF Step
  <2>3. PICK g : IsRender(g, p, body, item, q, base, j)
    BY <2>2
  <2> DEFINE h == [S \in SUBSET (1..k) |-> IF k \in S THEN OneToken(p, body, item, g[S \ {k}], q[k]) ELSE g[S]]
  <2>4. ASSUME NEW S \in SUBSET (1..k) PROVE h[S] = Step(h, S)
    <3>1. CASE S = {}
      <4>1. S \in SUBSET (1..j) /\ k \notin S
        BY <3>1
      <4>2. g[S] = Step(g, S)
        BY <2>3, <4>1 DEF IsRender, Step
      <4> QED BY <3>1, <4>1, <4>2 DEF Step
    <3>2. CASE k \in S
      <4>1. S \ {k} \in SUBSET (1..j) /\ S \ {k} \in SUBSET (1..k) /\ k \notin S \ {k}
        BY <2>1
      <4>2. Max(S) = k
        <5>1. Max(S) \in S /\ Max(S) >= k
          BY <2>1, <3>2, MaxIs
        <5>2. Max(S) \in 1..k
          BY <5>1
        <5> QED BY <5>1, <5>2, <2>1
      <4>3. h[S \ {k}] = g[S \ {k}]
        BY <4>1
      <4> QED BY <3>2, <4>2, <4>3 DEF Step
    <3>3. CASE k \notin S /\ S # {}
      <4>1. S \in SUBSET (1..j)
        BY <2>1, <3>3
      <4>2. Max(S) \in S
        BY <2>1, <3>3, MaxIs
      <4>3. h[S] = g[S] /\ h[S \ {Max(S)}] = g[S \ {Max(S)}]
        BY <3>3
      <4>4. g[S] = Step(g, S)
        BY <2>3, <4>1 DEF IsRender, Step
      <4> QED BY <3>3, <4>3, <4>4 DEF Step
    <3> QED BY <3>1, <3>2, <3>3
  <2>5. h = [S \in SUBSET (1..k) |-> Step(h, S)]
    BY <2>4
  <2> HIDE DEF h
  <2>6. IsRender(h, p, body, item, q, base, k)
    BY <2>5 DEF IsRender, Step
  <2> QED BY <2>6
<1> QED BY <1>3, <1>4

\* What a message starts from.
StartOfRender == [cursor |-> 1, pieces |-> <<>>, used |-> {}, refused |-> {},
                  granted |-> {}, mentioned |-> {}, safe |-> TRUE,
                  until |-> until, store |-> store, offered |-> offered]

\* The tokens of a message are rendered one after the other.
LEMMA RenderIsStepwise ==
    ASSUME NEW p, NEW what, NEW item, NEW n \in Nat, DOMAIN what.accepted = 1..n
    PROVE  \E v : /\ v[0] = StartOfRender /\ Render(p, what, item) = v[n]
                  /\ \A k \in 0..(n - 1) :
                       v[k + 1] = OneToken(p, what.body, item, v[k], what.accepted[k + 1])
<1> DEFINE q == what.accepted
           body == what.body
           iter == CHOOSE g : IsRender(g, p, body, item, q, StartOfRender, n)
<1>1. IsRender(iter, p, body, item, q, StartOfRender, n)
  <2>1. \E g : IsRender(g, p, body, item, q, StartOfRender, n)
    BY RenderIsDefined
  <2> QED BY <2>1
<1>2. Render(p, what, item) = iter[1..n]
  BY DEF Render, FoldLeft, MapThenFoldSet, IsRender, StartOfRender
<1> HIDE DEF iter, q, body
<1> DEFINE v == [k \in 0..n |-> iter[1..k]]
<1>3. v[0] = StartOfRender
  <2>1. 1..0 = {} /\ {} \in SUBSET (1..n) /\ 0 \in 0..n
    OBVIOUS
  <2> QED BY <1>1, <2>1 DEF IsRender
<1>4. ASSUME NEW k \in 0..(n - 1) PROVE v[k + 1] = OneToken(p, body, item, v[k], q[k + 1])
  <2>0. k \in 0..n /\ k + 1 \in 0..n
    OBVIOUS
  <2>1. /\ 1..(k + 1) \in SUBSET (1..n) /\ 1..(k + 1) # {}
        /\ Max(1..(k + 1)) = k + 1 /\ (1..(k + 1)) \ {k + 1} = 1..k
    BY Beginnings
  <2>2. iter[1..(k + 1)] = OneToken(p, body, item, iter[1..k], q[k + 1])
    BY <1>1, <2>1 DEF IsRender
  <2> QED BY <2>0, <2>2
<1>5. v[n] = iter[1..n]
  OBVIOUS
<1> HIDE DEF v
<1> QED BY <1>2, <1>3, <1>4, <1>5 DEF q, body

\* What is found in a message: a text, tokens in it, and of them those a walk takes.
LEMMA FoundIs ==
    ASSUME NEW s \in DOMAIN Setups, NEW p \in Talkers, NEW text \in Messages,
           NEW what, what = Found[s][p][text], NEW n, n = Len(what.body)
    PROVE  /\ what.body \in Seq(STRING) /\ n \in Nat
           /\ what.tokens \in SUBSET TokenIn(n)
           /\ FindsOK(what.tokens, n)
           /\ Walked(what.tokens, what.accepted, n)
<1> DEFINE body   == Stripped(text)
           tokens == TokensIn(Setups[s], p, body)
           l      == Len(body)
<1>1. what = [body |-> body, tokens |-> tokens, accepted |-> LeftToRight(tokens, l)]
  BY DEF Found, Accepted
<1>2. body \in Seq(STRING)
  <2>1. text \in Seq(STRING)
    BY FunctionsAssumption
  <2> QED BY <2>1, StrippedIsText
<1> HIDE DEF body
<1>3. l \in Nat
  BY <1>2, LenProperties
<1>4. tokens \in SUBSET TokenIn(l)
  BY <1>2, TokensFound
<1> HIDE DEF tokens
<1>5. FindsOK(tokens, l)
  <2> HIDE DEF l
  <2> QED BY <1>3, <1>4, TokensAreFinds
<1>6. Walked(tokens, LeftToRight(tokens, l), l)
  <2> HIDE DEF l
  <2> QED BY <1>3, <1>5, WalkIs
<1>7. /\ what.body = body /\ what.tokens = tokens
      /\ what.accepted = LeftToRight(tokens, l)
  BY <1>1
<1>8. n = l
  BY <1>7
<1> HIDE DEF l
<1> QED BY <1>2, <1>3, <1>4, <1>5, <1>6, <1>7, <1>8

\* Before the first token nothing is rendered, granted or refused.
LEMMA NothingRendered ==
    ASSUME NEW p \in Talkers, NEW body \in Seq(STRING), StoreOK(store, offered, clock),
           clock \in Nat, until \in [Uses -> Nat]
    PROVE  Rendering(p, body, StartOfRender, 1)
<1> DEFINE st == StartOfRender
<1>1. store \in Seq(Snapshot) /\ offered \in Seq(Nat)
  BY DEF StoreOK
<1>2. <<>> \in Seq(Piece)
  BY EmptySeq
<1>3. st \in RenderState
  BY <1>1, <1>2 DEF StartOfRender, RenderState
<1>4. /\ st.store = store /\ st.offered = offered /\ st.until = until /\ st.granted = {}
      /\ st.refused = {} /\ st.cursor = 1 /\ st.pieces = <<>>
  BY DEF StartOfRender
<1>5. SubSeq(body, 1, 1 - 1) = <<>>
  BY SubSeqProperties, LenProperties
<1> HIDE DEF st
<1>6. ChargedTo(p, st)
  BY <1>4 DEF ChargedTo
<1>7. Rejoined(st.pieces) = SubSeq(body, 1, 1 - 1)
  BY <1>4, <1>5, RejoinedIs
<1> QED BY <1>3, <1>4, <1>6, <1>7 DEF Rendering, st

\* A message is rendered up to the end of its last token.
LEMMA MessageRendered ==
    ASSUME clock \in Nat, setup \in DOMAIN Setups, until \in [Uses -> Nat],
           StoreOK(store, offered, clock),
           NEW p \in Talkers, NEW item, NEW what, NEW n \in Nat, n = Len(what.body),
           what.body \in Seq(STRING), what.tokens \in SUBSET TokenIn(n),
           Walked(what.tokens, what.accepted, n)
    PROVE  \E c \in 1..(n + 1) : Rendering(p, what.body, Render(p, what, item), c)
<1> DEFINE body == what.body
           taken == what.accepted
           tokens == what.tokens
           m == Len(taken)
           end(k) == IF k = 0 THEN 1 ELSE taken[k].end
<1>1. /\ body \in Seq(STRING) /\ n \in Nat /\ tokens \in SUBSET TokenIn(n)
      /\ Walked(tokens, taken, n)
  OBVIOUS
<1>2. taken \in Seq(tokens)
  BY <1>1 DEF Walked
<1>3. m \in Nat /\ DOMAIN taken = 1..m
  BY <1>2, LenProperties
<1>4. \A i, j \in 1..m : i < j => taken[i].end <= taken[j].start
  BY <1>1, <1>3 DEF Walked
<1>5. ASSUME NEW k \in 1..m
      PROVE  taken[k] \in TokenIn(n) /\ taken[k].start \in 1..n /\ taken[k].end \in 2..(n + 1)
  <2>1. taken[k] \in TokenIn(n)
    BY <1>1, <1>2, <1>3
  <2> DEFINE t == taken[k]
  <2> HIDE DEF t
  <2>2. t \in TokenIn(n)
    BY <2>1 DEF t
  <2>3. t.start \in 1..n /\ t.end \in Nat /\ t.start < t.end /\ t.end <= n + 1
    BY <1>1, <2>2, TokenIs
  <2>4. t.end \in 2..(n + 1)
    <3> DEFINE a == t.start
               e == t.end
    <3>1. a \in 1..n /\ e \in Nat /\ a < e /\ e <= n + 1 /\ n \in Nat
      BY <1>1, <2>3
    <3> HIDE DEF a, e
    <3>2. e \in 2..(n + 1)
      BY <3>1
    <3> QED BY <3>2 DEF e
  <2> QED BY <2>2, <2>3, <2>4 DEF t
<1>6. PICK v : /\ v[0] = StartOfRender /\ Render(p, what, item) = v[m]
               /\ \A k \in 0..(m - 1) : v[k + 1] = OneToken(p, body, item, v[k], taken[k + 1])
  <2>1. DOMAIN what.accepted = 1..m
    BY <1>3
  <2>2. m \in Nat
    BY <1>3
  <2> HIDE DEF m, taken, body, end, tokens
  <2>3. \E v : /\ v[0] = StartOfRender /\ Render(p, what, item) = v[m]
               /\ \A k \in 0..(m - 1) : v[k + 1] = OneToken(p, what.body, item, v[k], what.accepted[k + 1])
    BY <2>1, <2>2, RenderIsStepwise
  <2> QED BY <2>3 DEF taken, body
<1> HIDE DEF m
<1> DEFINE P == {k \in 0..m : Rendering(p, body, v[k], end(k))}
<1>7. 0 \in P
  <2>1. 0 \in 0..m
    BY <1>3
  <2> QED BY <1>1, <1>6, <2>1, NothingRendered
<1>8. ASSUME NEW k \in 0..(m - 1), k \in P PROVE k + 1 \in P
  <2>1. k + 1 \in 1..m /\ k + 1 \in 0..m /\ k + 1 # 0
    BY <1>3
  <2>2. taken[k + 1] \in TokenIn(n) /\ taken[k + 1].start \in 1..n
    BY <1>5, <2>1
  <2>3. end(k) \in Nat \ {0} /\ end(k) <= taken[k + 1].start
    <3>1. CASE k = 0
      <4>1. end(k) = 1
        BY <3>1
      <4> HIDE DEF end, taken
      <4> QED BY <1>1, <2>2, <4>1
    <3>2. CASE k # 0
      <4>1. k \in 1..m /\ k < k + 1
        BY <1>3, <3>2
      <4>2. taken[k].end \in 2..(n + 1)
        BY <1>5, <4>1
      <4>3. taken[k].end <= taken[k + 1].start
        BY <1>4, <2>1, <4>1
      <4> HIDE DEF taken
      <4> QED BY <1>1, <3>2, <4>2, <4>3
    <3> QED BY <3>1, <3>2
  <2>4. Rendering(p, body, v[k], end(k))
    BY <1>8
  <2>5. v[k + 1] = OneToken(p, body, item, v[k], taken[k + 1])
    BY <1>6
  <2> DEFINE t == taken[k + 1]
             c == end(k)
             before == v[k]
  <2> HIDE DEF t, c, before, body
  <2>6. n = Len(body)
    BY DEF body
  <2>7. Rendering(p, body, OneToken(p, body, item, before, t), t.end)
    <3>1. t \in TokenIn(Len(body)) /\ c \in Nat \ {0} /\ c <= t.start
      BY <2>2, <2>3, <2>6 DEF t, c
    <3>2. Rendering(p, body, before, c)
      BY <2>4 DEF before, c
    <3> QED BY <1>1, <3>1, <3>2, TurnRenders
  <2>8. Rendering(p, body, v[k + 1], end(k + 1))
    BY <2>1, <2>5, <2>7 DEF before, t
  <2> QED BY <2>1, <2>8
<1>9. m \in P
  <2>1. P \in SUBSET (0..m)
    OBVIOUS
  <2>2. P = 0..m
    <3> HIDE DEF P, m
    <3> QED BY <1>3, <1>7, <1>8, <2>1, Throughout
  <2> HIDE DEF P
  <2> QED BY <1>3, <2>2
<1>10. end(m) \in 1..(n + 1)
  <2>1. CASE m = 0
    BY <1>1, <2>1
  <2>2. CASE m # 0
    <3>1. m \in 1..m
      BY <1>3, <2>2
    <3>2. taken[m].end \in 2..(n + 1)
      BY <1>5, <3>1
    <3>3. end(m) = taken[m].end
      BY <2>2
    <3> HIDE DEF end, taken
    <3> QED BY <3>2, <3>3, <1>1
  <2> QED BY <2>1, <2>2
<1>11. Rendering(p, body, Render(p, what, item), end(m))
  BY <1>6, <1>9
<1> HIDE DEF end
<1> QED BY <1>10, <1>11

-----------------------------------------------------------------------------
(* ChatFunctions: messages, views, configurations and time                 *)

\* What was said is its pieces and the rest.
LEMMA NothingIsLost ==
    ASSUME NEW body \in Seq(STRING), NEW c \in 1..(Len(body) + 1), NEW joined, joined = SubSeq(body, 1, c - 1)
    PROVE  joined \o SubSeq(body, c, Len(body)) = body
<1> DEFINE a == c - 1
<1>1. a \in 0..Len(body) /\ c = a + 1 /\ 1 \in 1..(Len(body) + 1) /\ Len(body) \in a..Len(body)
  <2>1. Len(body) \in Nat
    BY LenProperties
  <2> QED BY <2>1
<1> HIDE DEF a
<1>2. a \in (1 - 1)..Len(body)
  BY <1>1
<1>3. SubSeq(body, 1, a) \o SubSeq(body, a + 1, Len(body)) = SubSeq(body, 1, Len(body))
  BY <1>1, <1>2, ConcatAdjacentSubSeq
<1>4. SubSeq(body, 1, Len(body)) = body
  BY SubSeqFull
<1>5. joined = SubSeq(body, 1, a)
  BY DEF a
<1> QED BY <1>1, <1>3, <1>4, <1>5

\* The last charge of a use and the end of its cooldown belong together.
UseOK(charge, free) ==
    IF charge.at = Never THEN free = 0 /\ charge.window = 0
    ELSE charge.at \in 0..clock /\ free = charge.at + charge.window
FunctionsInv ==
    /\ FunctionsTypeOK
    /\ StoreOK(store, offered, clock)
    /\ grants \in [Uses -> [at : Int, window : Nat]]
    /\ \A x \in Uses : UseOK(grants[x], until[x])
    /\ NothingLost /\ StrongestFirst /\ UsesSpaced /\ ViewedWhileLive

\* A sequence of what is in B is one over B.
LEMMA Retyped ==
    ASSUME NEW A, NEW B, NEW s \in Seq(A), \A i \in DOMAIN s : s[i] \in B
    PROVE  s \in Seq(B)
<1>1. DOMAIN s = 1..Len(s) /\ Len(s) \in Nat
  BY LenProperties
<1> QED BY <1>1

\* A store that is in order has the type it should have.
LEMMA StoreOKTyped ==
    ASSUME NEW s, NEW o, NEW now \in Nat, StoreOK(s, o, now)
    PROVE  /\ s \in Seq([id : DOMAIN o, at : 0..now, limited : BOOLEAN]) /\ o \in Seq(0..now)
           /\ \A i, j \in DOMAIN s : i < j => s[i].id < s[j].id
<1>1. /\ o \in Seq(Nat) /\ \A i \in DOMAIN o : o[i] <= now
      /\ s \in Seq(Snapshot) /\ IdsRise(s)
      /\ \A i \in DOMAIN s : s[i].id \in DOMAIN o /\ s[i].at = o[s[i].id]
  BY DEF StoreOK
<1>2. o \in Seq(0..now)
  <2>1. DOMAIN o = 1..Len(o) /\ Len(o) \in Nat
    BY <1>1, LenProperties
  <2>2. \A i \in DOMAIN o : o[i] \in 0..now
    <3> SUFFICES ASSUME NEW i \in DOMAIN o PROVE o[i] \in 0..now
      OBVIOUS
    <3>1. o[i] \in Nat /\ o[i] <= now
      BY <1>1, <2>1
    <3> QED BY <3>1
  <2> QED BY <1>1, <2>2, Retyped
<1>3. s \in Seq([id : DOMAIN o, at : 0..now, limited : BOOLEAN])
  <2>1. DOMAIN s = 1..Len(s) /\ Len(s) \in Nat
    BY <1>1, LenProperties
  <2>2. \A i \in DOMAIN s : s[i] \in [id : DOMAIN o, at : 0..now, limited : BOOLEAN]
    <3> SUFFICES ASSUME NEW i \in DOMAIN s
                 PROVE  s[i] \in [id : DOMAIN o, at : 0..now, limited : BOOLEAN]
      OBVIOUS
    <3>1. s[i] \in Snapshot
      BY <1>1, <2>1
    <3>2. s[i].id \in DOMAIN o /\ s[i].at = o[s[i].id]
      BY <1>1
    <3>3. s[i].at \in 0..now
      <4>1. DOMAIN o = 1..Len(o)
        BY <1>1, LenProperties
      <4> QED BY <1>2, <3>2, <4>1
    <3> QED BY <3>1, <3>2, <3>3 DEF Snapshot
  <2> QED BY <1>1, <2>2, Retyped
<1> QED BY <1>1, <1>2, <1>3 DEF IdsRise

\* No message, no claims about one.
LEMMA NoOutcomeIs ==
    ASSUME NEW o, o = NoOutcome
    PROVE  /\ Rejoined(o.pieces) \o o.rest = o.found.body
           /\ o.found.accepted = <<>> /\ o.found.tokens = {} /\ o.granted = {} /\ o.refused = {}
<1>1. /\ o.pieces = <<>> /\ o.rest = <<>> /\ o.found = [body |-> <<>>, tokens |-> {}, accepted |-> <<>>]
      /\ o.granted = {} /\ o.refused = {}
  BY Zenon DEF NoOutcome
<1>2. o.found.body = <<>> /\ o.found.tokens = {} /\ o.found.accepted = <<>>
  BY <1>1
<1>3. <<>> \o <<>> = <<>>
  OBVIOUS
<1> QED BY <1>1, <1>2, <1>3, RejoinedIs

\* The inventories kept are no more than the limit.
LEMMA InventoriesAreBounded ==
    ASSUME clock \in Nat, StoreOK(store, offered, clock)
    PROVE  InventoriesBounded
<1> DEFINE J == {j \in DOMAIN store : store[j].limited}
           T == Counted(store)
           f == [i \in J |-> store[i].id]
<1>1. store \in Seq(Snapshot) /\ IdsRise(store) /\ IsFiniteSet(T) /\ Cardinality(T) <= MaxSnapshots
  BY DEF StoreOK
<1>2. DOMAIN store = 1..Len(store) /\ Len(store) \in Nat
  BY <1>1, LenProperties
<1>3. f \in Injection(J, T)
  <2>1. f \in [J -> T]
    BY DEF Counted
  <2>2. ASSUME NEW a \in J, NEW b \in J, f[a] = f[b] PROVE a = b
    <3>1. a \in DOMAIN store /\ b \in DOMAIN store /\ store[a].id = store[b].id
      BY <2>2
    <3>2. store[a].id \in Nat
      <4>1. store[a] \in Snapshot
        BY <1>1, <1>2, <3>1
      <4> QED BY <4>1 DEF Snapshot
    <3>3. a \in Nat /\ b \in Nat
      BY <1>2, <3>1
    <3>4. ~(a < b) /\ ~(b < a)
      BY <1>1, <3>1, <3>2 DEF IdsRise
    <3> QED BY <3>3, <3>4
  <2> HIDE DEF f, J, T
  <2> QED BY <2>1, <2>2 DEF Injection, IsInjective
<1> HIDE DEF f, J, T
<1>4. IsFiniteSet(J) /\ Cardinality(J) <= Cardinality(T)
  BY <1>1, <1>3, FS_Injection
<1>5. Cardinality(J) \in Nat /\ Cardinality(T) \in Nat
  BY <1>1, <1>4, FS_CardinalityType
<1>6. Cardinality(J) <= MaxSnapshots
  BY <1>1, <1>4, <1>5, Limits
<1> QED BY <1>6 DEF InventoriesBounded, J

\* Without a message the claims about one hold.
LEMMA SilenceIsFine ==
    ASSUME NEW o, o = NoOutcome
    PROVE  /\ Rejoined(o.pieces) \o o.rest = o.found.body
           /\ LET kept == ToSet(o.found.accepted)
              IN  /\ \A t, u \in kept : t # u => t.end <= u.start \/ u.end <= t.start
                  /\ \A t \in o.found.tokens \ kept : \E u \in kept :
                       /\ u.start <= t.start /\ t.start < u.end
                       /\ u.start = t.start => u.rank >= t.rank
           /\ o.granted \cap o.refused = {}
           /\ \A f \in o.granted : o.since[f].gap >= o.since[f].window
           /\ \A f \in o.refused :
                <<o.sender, f>> \in Barred \/ o.since[f].gap < o.since[f].window
<1>1. ToSet(<<>>) = {}
  BY DEF ToSet
<1> QED BY <1>1, NoOutcomeIs

\* The initial states.
LEMMA FunctionsStart == FunctionsInit => FunctionsInv
<1> SUFFICES ASSUME FunctionsInit PROVE FunctionsInv
  OBVIOUS
<1>1. /\ clock = 0 /\ setup = 1 /\ store = <<>> /\ offered = <<>>
      /\ until = [x \in Uses |-> 0]
      /\ grants = [x \in Uses |-> [at |-> Never, window |-> 0]]
  BY DEF FunctionsInit, Uses
<1>2. outcome = NoOutcome /\ viewed = NoView
  BY Zenon DEF FunctionsInit
<1>3. Counted(<<>>) = {}
  BY DEF Counted
<1>4. StoreOK(store, offered, clock)
  <2>1. IsFiniteSet({}) /\ Cardinality({}) = 0
    BY FS_EmptySet
  <2>2. store \in Seq(Snapshot) /\ offered \in Seq(Nat) /\ DOMAIN store = {} /\ DOMAIN offered = {}
    BY <1>1
  <2>3. IsFiniteSet(Counted(store)) /\ Cardinality(Counted(store)) <= MaxSnapshots
    <3>1. Counted(store) = {}
      BY <1>1, <1>3
    <3>2. 0 <= MaxSnapshots
      BY Limits
    <3> QED BY <2>1, <3>1, <3>2
  <2> QED BY <2>2, <2>3 DEF StoreOK, IdsRise
<1>5. setup \in DOMAIN Setups
  BY <1>1, FunctionsAssumption
<1>6. clock \in 0..MaxClock
  BY <1>1, Limits
<1>7. until \in [Uses -> Nat]
  BY <1>1
<1>8. FunctionsTypeOK
  <2>1. clock \in Nat
    BY <1>1
  <2> QED BY <1>4, <1>5, <1>6, <1>7, <2>1, StoreOKTyped DEF FunctionsTypeOK, Uses
<1>9. grants \in [Uses -> [at : Int, window : Nat]]
  BY <1>1 DEF Never
<1>10. \A x \in Uses : UseOK(grants[x], until[x])
  BY <1>1 DEF UseOK
<1>11. NothingLost /\ StrongestFirst /\ UsesSpaced
  BY <1>2, SilenceIsFine DEF NothingLost, StrongestFirst, UsesSpaced
<1>12. ViewedWhileLive
  BY <1>2 DEF ViewedWhileLive, NoView
<1> QED BY <1>4, <1>8, <1>9, <1>10, <1>11, <1>12 DEF FunctionsInv

\* A new configuration.
LEMMA ReconfigureKeeps ==
    ASSUME FunctionsInv, Reconfigure
    PROVE  FunctionsInv'
<1>1. /\ setup < Len(Setups) /\ setup' = setup + 1
      /\ UNCHANGED <<clock, until, store, offered, grants>>
  BY DEF Reconfigure
<1>2. outcome' = NoOutcome /\ viewed' = NoView
  BY Zenon DEF Reconfigure
<1>3. FunctionsTypeOK'
  <2>1. setup' \in DOMAIN Setups
    <3>1. setup \in DOMAIN Setups
      BY DEF FunctionsInv, FunctionsTypeOK
    <3> QED BY <1>1, <3>1, FunctionsAssumption
  <2> QED BY <1>1, <2>1 DEF FunctionsInv, FunctionsTypeOK
<1>4. StoreOK(store, offered, clock)'
  BY <1>1 DEF FunctionsInv
<1>5. /\ grants' \in [Uses -> [at : Int, window : Nat]]
      /\ \A x \in Uses : UseOK(grants[x], until[x])'
  BY <1>1 DEF FunctionsInv, UseOK
<1>6. (NothingLost /\ StrongestFirst /\ UsesSpaced)'
  BY <1>2, SilenceIsFine DEF NothingLost, StrongestFirst, UsesSpaced
<1>7. ViewedWhileLive'
  BY <1>2 DEF ViewedWhileLive, NoView
<1> QED BY <1>3, <1>4, <1>5, <1>6, <1>7 DEF FunctionsInv

\* Time: what is kept and what is charged for stays in order.
LEMMA TimeKeeps ==
    ASSUME FunctionsInv, TimePasses
    PROVE  FunctionsInv'
<1>1. /\ clock < MaxClock /\ clock' = clock + 1
      /\ UNCHANGED <<setup, until, store, offered, grants>>
  BY DEF TimePasses
<1>2. outcome' = NoOutcome /\ viewed' = NoView
  BY Zenon DEF TimePasses
<1>3. clock \in 0..MaxClock
  BY DEF FunctionsInv, FunctionsTypeOK
<1>4. clock' \in 0..MaxClock /\ clock' \in Nat /\ clock \in Nat
  BY <1>1, <1>3, Limits
<1>5. StoreOK(store', offered', clock')
  BY <1>1, <1>4, StoreOKLater DEF FunctionsInv
<1>6. FunctionsTypeOK'
  <2>1. setup' \in DOMAIN Setups /\ until' \in [Talkers \X FunctionNames -> Nat]
    BY <1>1 DEF FunctionsInv, FunctionsTypeOK
  <2> QED BY <1>4, <1>5, <2>1, StoreOKTyped DEF FunctionsTypeOK
<1>7. /\ grants' \in [Uses -> [at : Int, window : Nat]]
      /\ \A x \in Uses : UseOK(grants[x], until[x])'
  BY <1>1, <1>4 DEF FunctionsInv, UseOK
<1>8. (NothingLost /\ StrongestFirst /\ UsesSpaced)'
  BY <1>2, SilenceIsFine DEF NothingLost, StrongestFirst, UsesSpaced
<1>9. ViewedWhileLive'
  BY <1>2 DEF ViewedWhileLive, NoView
<1> QED BY <1>5, <1>6, <1>7, <1>8, <1>9 DEF FunctionsInv

\* A snapshot is looked at.
LEMMA ViewKeeps ==
    ASSUME FunctionsInv, NEW id \in DOMAIN offered, View(id)
    PROVE  FunctionsInv'
<1>1. /\ store' = Live(store)
      /\ viewed' = [found |-> \E i \in DOMAIN store' : store'[i].id = id,
                    age   |-> clock - offered[id],
                    newer |-> Len(offered) - id]
      /\ UNCHANGED <<clock, setup, until, offered, grants>>
  BY DEF View
<1>2. outcome' = NoOutcome
  BY Zenon DEF View
<1>3. clock \in 0..MaxClock /\ clock \in Nat /\ StoreOK(store, offered, clock)
  BY Limits DEF FunctionsInv, FunctionsTypeOK
<1>4. /\ StoreOK(store', offered, clock)
      /\ \A i \in DOMAIN store' : clock - store'[i].at < SnapshotTtl
  BY <1>1, <1>3, LiveKeeps
<1>5. FunctionsTypeOK'
  <2>1. clock' \in 0..MaxClock /\ setup' \in DOMAIN Setups /\ until' \in [Talkers \X FunctionNames -> Nat]
    BY <1>1 DEF FunctionsInv, FunctionsTypeOK
  <2>2. StoreOK(store', offered', clock') /\ clock' \in Nat
    BY <1>1, <1>3, <1>4
  <2> QED BY <2>1, <2>2, StoreOKTyped DEF FunctionsTypeOK
<1>6. /\ grants' \in [Uses -> [at : Int, window : Nat]]
      /\ \A x \in Uses : UseOK(grants[x], until[x])'
  BY <1>1 DEF FunctionsInv, UseOK
<1>7. (NothingLost /\ StrongestFirst /\ UsesSpaced)'
  BY <1>2, SilenceIsFine DEF NothingLost, StrongestFirst, UsesSpaced
<1>8. ViewedWhileLive'
  <2>1. /\ viewed'.found <=> \E i \in DOMAIN store' : store'[i].id = id
        /\ viewed'.age = clock - offered[id] /\ viewed'.newer = Len(offered) - id
    BY <1>1
  <2>2. ASSUME NEW i \in DOMAIN store', store'[i].id = id PROVE clock - offered[id] < SnapshotTtl
    <3>1. store'[i].at = offered[store'[i].id]
      BY <1>4 DEF StoreOK
    <3> QED BY <1>4, <2>2, <3>1
  <2>3. \/ \E i \in DOMAIN store' : store'[i].id = id
        \/ clock - offered[id] >= SnapshotTtl
        \/ Len(offered) - id >= MaxSnapshots
    BY <1>4 DEF StoreOK
  <2> QED BY <2>1, <2>2, <2>3 DEF ViewedWhileLive
<1>9. StoreOK(store, offered, clock)'
  BY <1>1, <1>4
<1> QED BY <1>5, <1>6, <1>7, <1>8, <1>9 DEF FunctionsInv

\* Of the tokens of a message the strongest are kept.
LEMMA KeptAreStrongest ==
    ASSUME NEW n \in Nat, NEW tokens \in SUBSET TokenIn(n), NEW taken, Walked(tokens, taken, n)
    PROVE  LET kept == ToSet(taken)
           IN  /\ \A t, u \in kept : t # u => t.end <= u.start \/ u.end <= t.start
               /\ \A t \in tokens \ kept : \E u \in kept :
                    /\ u.start <= t.start /\ t.start < u.end
                    /\ u.start = t.start => u.rank >= t.rank
<1> DEFINE kept == ToSet(taken)
<1>1. kept = {taken[i] : i \in DOMAIN taken}
  BY DEF ToSet
<1>2. /\ taken \in Seq(tokens)
      /\ \A i, j \in DOMAIN taken : i < j => taken[i].end <= taken[j].start
      /\ \A h \in tokens : h.start <= n =>
            (\E i \in DOMAIN taken : taken[i] = h) \/ (\E i \in DOMAIN taken : Covers(taken[i], h))
  BY DEF Walked
<1>3. DOMAIN taken = 1..Len(taken) /\ Len(taken) \in Nat
  BY <1>2, LenProperties
<1> HIDE DEF kept
<1>4. ASSUME NEW t \in kept, NEW u \in kept, t # u PROVE t.end <= u.start \/ u.end <= t.start
  <2>1. PICK i \in DOMAIN taken : taken[i] = t
    BY <1>1
  <2>2. PICK j \in DOMAIN taken : taken[j] = u
    BY <1>1
  <2>3. i < j \/ j < i
    BY <1>3, <1>4, <2>1, <2>2
  <2> QED BY <1>2, <2>1, <2>2, <2>3
<1>5. ASSUME NEW t \in tokens \ kept
      PROVE  \E u \in kept : /\ u.start <= t.start /\ t.start < u.end
                             /\ u.start = t.start => u.rank >= t.rank
  <2>1. t.start <= n /\ t \in TokenIn(n)
    BY TokenIs
  <2>2. PICK i \in DOMAIN taken : Covers(taken[i], t)
    BY <1>1, <1>2, <2>1
  <2>3. taken[i] \in kept /\ taken[i] \in TokenIn(n)
    BY <1>1, <1>2, <1>3
  <2>4. taken[i].rank \in Int /\ t.rank \in Int
    <3>1. \A h \in TokenIn(n) : h.rank \in Int
      BY DEF TokenIn
    <3> QED BY <2>1, <2>3, <3>1
  <2> QED BY <2>2, <2>3, <2>4 DEF Covers
<1> QED BY <1>4, <1>5 DEF kept

\* What a use was charged for agrees with how the message treated it.
LEMMA ChargesAreSpaced ==
    ASSUME clock \in Nat, NEW p \in Talkers, NEW r \in RenderState, ChargedTo(p, r), MaxClock \in Nat,
           grants \in [Uses -> [at : Int, window : Nat]], until \in [Uses -> Nat],
           \A x \in Uses : UseOK(grants[x], until[x]), NEW f \in FunctionNames
    PROVE  LET gap    == IF grants[<<p, f>>].at = Never THEN MaxClock + 1
                         ELSE clock - grants[<<p, f>>].at
               window == grants[<<p, f>>].window
           IN  /\ f \in r.granted => gap >= window
               /\ f \in r.refused => <<p, f>> \in Barred \/ gap < window
<1> DEFINE charge == grants[<<p, f>>]
           free   == until[<<p, f>>]
<1>1. <<p, f>> \in Uses
  BY DEF Uses
<1>2. charge \in [at : Int, window : Nat] /\ free \in Nat /\ UseOK(charge, free)
  BY <1>1
<1>3. /\ f \in r.granted => free <= clock
      /\ f \in r.refused => <<p, f>> \in Barred \/ free > clock
  BY DEF ChargedTo
<1> HIDE DEF charge, free
<1>4. CASE charge.at = Never
  <2>1. free = 0 /\ charge.window = 0
    BY <1>2, <1>4 DEF UseOK
  <2> QED BY <1>3, <1>4, <2>1 DEF charge
<1>5. CASE charge.at # Never
  <2>1. charge.at \in 0..clock /\ free = charge.at + charge.window /\ charge.window \in Nat
    BY <1>2, <1>5 DEF UseOK
  <2> QED BY <1>3, <1>5, <2>1 DEF charge
<1> QED BY <1>4, <1>5

\* A message: what it was cut into, what it was granted, and what it left behind.
LEMMA SayKeeps ==
    ASSUME FunctionsInv, NEW p \in Talkers, NEW text \in Messages, NEW item, Say(p, text, item)
    PROVE  FunctionsInv'
<1> DEFINE what == Found[setup][p][text]
           n == Len(what.body)
           r == Render(p, what, item)
<1>1. /\ until' = r.until /\ store' = r.store /\ offered' = r.offered
      /\ grants' = [x \in DOMAIN grants |->
                      IF x[1] = p /\ x[2] \in r.granted
                      THEN [at |-> clock, window |-> Setup.cooldown[x[2]]] ELSE grants[x]]
      /\ outcome' = [sender |-> p, found |-> what, pieces |-> r.pieces,
                     rest |-> SubSeq(what.body, r.cursor, Len(what.body)), used |-> r.used,
                     refused |-> r.refused, granted |-> r.granted,
                     mentioned |-> r.mentioned, safe |-> r.safe,
                     since |-> [f \in r.granted \cup r.refused |->
                                  [gap    |-> IF grants[<<p, f>>].at = Never THEN MaxClock + 1
                                              ELSE clock - grants[<<p, f>>].at,
                                   window |-> grants[<<p, f>>].window]]]
      /\ viewed' = NoView
      /\ UNCHANGED <<clock, setup>>
  BY Zenon DEF Say
<1>2. /\ clock \in 0..MaxClock /\ clock \in Nat /\ MaxClock \in Nat /\ setup \in DOMAIN Setups
      /\ until \in [Uses -> Nat] /\ StoreOK(store, offered, clock)
      /\ grants \in [Uses -> [at : Int, window : Nat]]
      /\ \A x \in Uses : UseOK(grants[x], until[x])
  BY Limits DEF FunctionsInv, FunctionsTypeOK, Uses
<1>3. /\ what.body \in Seq(STRING) /\ n \in Nat /\ what.tokens \in SUBSET TokenIn(n)
      /\ Walked(what.tokens, what.accepted, n)
  <2> HIDE DEF what
  <2>1. what = Found[setup][p][text]
    BY DEF what
  <2> HIDE DEF n
  <2>2. n = Len(what.body)
    BY DEF n
  <2> QED BY <1>2, <2>1, <2>2, FoundIs
<1> HIDE DEF what
<1>4. PICK c \in 1..(n + 1) : Rendering(p, what.body, r, c)
  <2> HIDE DEF r
  <2>1. \E c \in 1..(n + 1) : Rendering(p, what.body, Render(p, what, item), c)
    BY <1>2, <1>3, MessageRendered
  <2> QED BY <2>1 DEF r
<1> HIDE DEF r
<1>5. /\ r \in RenderState /\ StoreOK(r.store, r.offered, clock) /\ ChargedTo(p, r)
      /\ r.cursor = c /\ Rejoined(r.pieces) = SubSeq(what.body, 1, c - 1)
  BY <1>4 DEF Rendering
<1> DEFINE granted == r.granted
           refused == r.refused
<1>6. granted \in SUBSET FunctionNames /\ refused \in SUBSET FunctionNames /\ r.until \in [Uses -> Nat]
  BY <1>5 DEF RenderState
<1>7. StoreOK(store', offered', clock')
  BY <1>1, <1>5
<1>8. FunctionsTypeOK'
  <2>1. clock' \in 0..MaxClock /\ clock' \in Nat /\ setup' \in DOMAIN Setups
    BY <1>1, <1>2
  <2>2. until' \in [Talkers \X FunctionNames -> Nat]
    BY <1>1, <1>6 DEF Uses
  <2> QED BY <1>7, <2>1, <2>2, StoreOKTyped DEF FunctionsTypeOK
<1>9. ASSUME NEW x \in Uses
      PROVE  grants'[x] \in [at : Int, window : Nat] /\ UseOK(grants[x], until[x])'
  <2>1. grants'[x] = IF x[1] = p /\ x[2] \in granted
                     THEN [at |-> clock, window |-> Setup.cooldown[x[2]]] ELSE grants[x]
    BY <1>1, <1>2
  <2>2. until'[x] = IF x[1] = p /\ x[2] \in granted THEN clock + Setup.cooldown[x[2]] ELSE until[x]
    BY <1>1, <1>5 DEF ChargedTo
  <2>3. x[2] \in FunctionNames
    BY DEF Uses
  <2>4. Setup.cooldown[x[2]] \in Nat
    BY <1>2, <2>3, CooldownIs
  <2>5. clock' = clock
    BY <1>1
  <2> HIDE DEF granted
  <2>6. CASE x[1] = p /\ x[2] \in granted
    <3> DEFINE w == Setup.cooldown[x[2]]
    <3> HIDE DEF w
    <3>1. grants'[x] = [at |-> clock, window |-> w] /\ until'[x] = clock + w /\ w \in Nat
      BY <2>1, <2>2, <2>4, <2>6 DEF w
    <3> QED BY <1>2, <2>5, <3>1 DEF UseOK, Never
  <2>7. CASE ~(x[1] = p /\ x[2] \in granted)
    <3>1. grants'[x] = grants[x] /\ until'[x] = until[x]
      BY <2>1, <2>2, <2>7
    <3> QED BY <1>2, <2>5, <3>1 DEF UseOK
  <2> QED BY <2>6, <2>7
<1>10. grants' \in [Uses -> [at : Int, window : Nat]]
  <2>1. DOMAIN grants' = Uses /\ grants' = [x \in Uses |-> grants'[x]]
    BY <1>1, <1>2
  <2> QED BY <1>9, <2>1
<1>11. /\ outcome'.sender = p /\ outcome'.found = what /\ outcome'.pieces = r.pieces
       /\ outcome'.rest = SubSeq(what.body, r.cursor, Len(what.body))
       /\ outcome'.granted = granted /\ outcome'.refused = refused
       /\ outcome'.since = [f \in granted \cup refused |->
                              [gap    |-> IF grants[<<p, f>>].at = Never THEN MaxClock + 1
                                          ELSE clock - grants[<<p, f>>].at,
                               window |-> grants[<<p, f>>].window]]
  BY <1>1
<1>12. NothingLost'
  <2>1. Rejoined(r.pieces) \o SubSeq(what.body, r.cursor, Len(what.body)) = what.body
    BY <1>3, <1>5, NothingIsLost
  <2> QED BY <1>11, <2>1 DEF NothingLost
<1>13. StrongestFirst'
  <2> HIDE DEF n
  <2> QED BY <1>3, <1>11, KeptAreStrongest DEF StrongestFirst
<1>14. UsesSpaced'
  <2> HIDE DEF granted, refused
  <2>1. granted \cap refused = {}
    <3> SUFFICES ASSUME NEW f \in granted \cap refused PROVE FALSE
      OBVIOUS
    <3>1. until[<<p, f>>] \in Nat
      BY <1>2, <1>6 DEF Uses, granted
    <3>2. <<p, f>> \notin Barred /\ until[<<p, f>>] <= clock
      BY <1>5 DEF ChargedTo, granted
    <3>3. <<p, f>> \in Barred \/ until[<<p, f>>] > clock
      BY <1>5 DEF ChargedTo, refused
    <3> QED BY <1>2, <3>1, <3>2, <3>3
  <2>2. ASSUME NEW f \in granted \cup refused
        PROVE  /\ f \in granted => outcome'.since[f].gap >= outcome'.since[f].window
               /\ f \in refused => <<p, f>> \in Barred \/ outcome'.since[f].gap < outcome'.since[f].window
    <3> DEFINE gap    == IF grants[<<p, f>>].at = Never THEN MaxClock + 1
                         ELSE clock - grants[<<p, f>>].at
               window == grants[<<p, f>>].window
    <3>1. f \in FunctionNames
      BY <1>6, <2>2 DEF granted, refused
    <3>2. (f \in granted => gap >= window) /\ (f \in refused => <<p, f>> \in Barred \/ gap < window)
      BY <1>2, <1>5, <3>1, ChargesAreSpaced DEF granted, refused
    <3>3. outcome'.since[f].gap = gap /\ outcome'.since[f].window = window
      BY <1>11, <2>2
    <3> HIDE DEF gap, window
    <3> QED BY <3>2, <3>3
  <2> QED BY <1>11, <2>1, <2>2 DEF UsesSpaced
<1>15. ViewedWhileLive'
  BY <1>1 DEF ViewedWhileLive, NoView
<1> QED BY <1>7, <1>8, <1>9, <1>10, <1>12, <1>13, <1>14, <1>15 DEF FunctionsInv

\* The invariant of the chat functions.
LEMMA FunctionsKept == FunctionsSpec => []FunctionsInv
<1>1. FunctionsInv /\ [FunctionsNext]_functionsVars => FunctionsInv'
  <2> SUFFICES ASSUME FunctionsInv, [FunctionsNext]_functionsVars PROVE FunctionsInv'
    OBVIOUS
  <2>1. CASE \E p \in Talkers, text \in Messages, item \in Slots : Say(p, text, item)
    BY <2>1, SayKeeps
  <2>2. CASE \E id \in DOMAIN offered : View(id)
    BY <2>2, ViewKeeps
  <2>3. CASE Reconfigure
    BY <2>3, ReconfigureKeeps
  <2>4. CASE TimePasses
    BY <2>4, TimeKeeps
  <2>5. CASE UNCHANGED functionsVars
    BY <2>5 DEF functionsVars, FunctionsInv, FunctionsTypeOK, UseOK, NothingLost, StrongestFirst,
                UsesSpaced, ViewedWhileLive
  <2> QED BY <2>1, <2>2, <2>3, <2>4, <2>5, Zenon DEF FunctionsNext
<1> QED BY <1>1, FunctionsStart, PTL DEF FunctionsSpec

\* However messages, configurations and time alternate, a token is found, claimed and
\* charged for as it was typed, or shown as typed.
THEOREM TokensAreGranted == FunctionsSpec => []TokensGranted
<1>1. FunctionsInv => TokensGranted
  BY DEF FunctionsInv, TokensGranted
<1> QED BY <1>1, FunctionsKept, PTL

\* A snapshot can be looked at while it lives, and no more inventories are kept than the limit.
THEOREM SnapshotsAreKept == FunctionsSpec => []SnapshotsKept
<1>1. FunctionsInv => SnapshotsKept
  <2> SUFFICES ASSUME FunctionsInv PROVE SnapshotsKept
    OBVIOUS
  <2>1. clock \in Nat /\ StoreOK(store, offered, clock) /\ ViewedWhileLive
    BY Limits DEF FunctionsInv, FunctionsTypeOK
  <2> QED BY <2>1, InventoriesAreBounded DEF SnapshotsKept
<1> QED BY <1>1, FunctionsKept, PTL

-----------------------------------------------------------------------------
(* WordFilter: what a text spells out from a place on                      *)

\* What is read of a text from a start on: one more symbol.
Reading(text, start, read, i) ==
    IF i >= start /\ ~Punctuation(text, i) THEN Append(read, i) ELSE read
ReadFrom(text, start) ==
    LET Collect(read, i) == IF i >= start /\ ~Punctuation(text, i) THEN Append(read, i) ELSE read
    IN  FoldLeft(Collect, <<>>, Positions(Len(text)))
IsReading(g, text, start, n) ==
    g = [S \in SUBSET (1..n) |->
           IF S = {} THEN <<>> ELSE Reading(text, start, g[S \ {Max(S)}], Positions(n)[Max(S)])]

\* A text is read symbol by symbol.
LEMMA ReadingIsStepwise ==
    ASSUME NEW text, NEW start \in Nat \ {0}, NEW n \in Nat, n = Len(text)
    PROVE  \E v : /\ v[0] = <<>> /\ ReadFrom(text, start) = v[n]
                  /\ \A k \in 0..(n - 1) : v[k + 1] = Reading(text, start, v[k], k + 1)
<1> DEFINE D == Seq(start..n)
           E == 1..n
           q == Positions(n)
           f == [se \in D \X E |-> Reading(text, start, se[1], se[2])]
           iter == CHOOSE g : IsReading(g, text, start, n)
<1>0. DOMAIN q = 1..n /\ q \in [1..n -> E] /\ \A i \in 1..n : q[i] = i
  BY DEF Positions
<1>6. ReadFrom(text, start) = iter[1..n]
  BY <1>0 DEF ReadFrom, FoldLeft, MapThenFoldSet, IsReading, Reading
<1> HIDE DEF q
<1>1. f \in [D \X E -> D]
  <2> SUFFICES ASSUME NEW se \in D \X E PROVE Reading(text, start, se[1], se[2]) \in D
    OBVIOUS
  <2>1. se[1] \in Seq(start..n) /\ se[2] \in 1..n
    OBVIOUS
  <2>2. se[2] >= start => se[2] \in start..n
    BY <2>1
  <2>3. se[2] >= start => Append(se[1], se[2]) \in Seq(start..n)
    BY <2>1, <2>2, AppendProperties
  <2> QED BY <2>1, <2>3 DEF Reading
<1>2. <<>> \in D
  BY EmptySeq
<1>3. PICK g \in [SUBSET (1..n) -> D] : IsFold(g, f, q, <<>>, n)
  <2> HIDE DEF D, f, E
  <2> QED BY <1>0, <1>1, <1>2, FoldIsDefined
<1>4. IsReading(g, text, start, n)
  <2>1. ASSUME NEW S \in SUBSET (1..n), S # {}
        PROVE  f[<<g[S \ {Max(S)}], q[Max(S)]>>] = Reading(text, start, g[S \ {Max(S)}], q[Max(S)])
    <3>1. Max(S) \in 1..n
      BY <2>1, MaxIs
    <3>2. q[Max(S)] \in E
      BY <1>0, <3>1
    <3>3. g[S \ {Max(S)}] \in D
      BY <1>3
    <3> HIDE DEF D, E
    <3> QED BY <3>2, <3>3
  <2>2. g = [S \in SUBSET (1..n) |-> IF S = {} THEN <<>> ELSE f[<<g[S \ {Max(S)}], q[Max(S)]>>]]
    BY <1>3 DEF IsFold
  <2> HIDE DEF f, D
  <2>3. g = [S \in SUBSET (1..n) |-> IF S = {} THEN <<>> ELSE Reading(text, start, g[S \ {Max(S)}], q[Max(S)])]
    BY <2>1, <2>2, Zenon
  <2> QED BY <2>3 DEF IsReading, q
<1>5. IsReading(iter, text, start, n)
  BY <1>4
<1> HIDE DEF iter
<1> DEFINE v == [k \in 0..n |-> iter[1..k]]
<1>7. v[0] = <<>>
  <2>1. 1..0 = {} /\ {} \in SUBSET (1..n) /\ 0 \in 0..n
    OBVIOUS
  <2> QED BY <1>5, <2>1 DEF IsReading
<1>8. ASSUME NEW k \in 0..(n - 1) PROVE v[k + 1] = Reading(text, start, v[k], k + 1)
  <2>0. k \in 0..n /\ k + 1 \in 0..n /\ k + 1 \in 1..n
    OBVIOUS
  <2>1. /\ 1..(k + 1) \in SUBSET (1..n) /\ 1..(k + 1) # {}
        /\ Max(1..(k + 1)) = k + 1 /\ (1..(k + 1)) \ {k + 1} = 1..k
    BY Beginnings
  <2>2. iter[1..(k + 1)] = Reading(text, start, iter[1..k], q[k + 1])
    BY <1>5, <2>1 DEF IsReading, q
  <2>3. q[k + 1] = k + 1
    BY <1>0, <2>0
  <2> QED BY <2>0, <2>2, <2>3
<1>9. v[n] = iter[1..n]
  OBVIOUS
<1> HIDE DEF v
<1> QED BY <1>6, <1>7, <1>8, <1>9

\* What is read of a text are places in it.
LEMMA ReadIs ==
    ASSUME NEW text, NEW start \in Nat \ {0}, NEW n \in Nat, n = Len(text)
    PROVE  ReadFrom(text, start) \in Seq(start..n) /\ Len(ReadFrom(text, start)) <= n
<1> DEFINE OK(r, k) == r \in Seq(start..n) /\ Len(r) <= k
<1>1. PICK v : /\ v[0] = <<>> /\ ReadFrom(text, start) = v[n]
               /\ \A k \in 0..(n - 1) : v[k + 1] = Reading(text, start, v[k], k + 1)
  BY ReadingIsStepwise
<1> DEFINE P == {k \in 0..n : OK(v[k], k)}
<1>2. 0 \in P
  <2>1. <<>> \in Seq(start..n) /\ Len(<<>>) = 0
    BY EmptySeq
  <2>2. v[0] = <<>> /\ 0 \in 0..n
    BY <1>1
  <2>3. OK(v[0], 0)
    BY <2>1, <2>2
  <2> HIDE DEF OK
  <2> QED BY <2>2, <2>3
<1>3. ASSUME NEW k \in 0..(n - 1), k \in P PROVE k + 1 \in P
  <2> DEFINE r == v[k]
             s == Reading(text, start, r, k + 1)
  <2>1. r \in Seq(start..n) /\ Len(r) <= k /\ v[k + 1] = s
    BY <1>1, <1>3
  <2> HIDE DEF r
  <2>2. Len(r) \in Nat
    BY <2>1, LenProperties
  <2>3. k + 1 >= start => k + 1 \in start..n
    OBVIOUS
  <2>4. k + 1 >= start => Append(r, k + 1) \in Seq(start..n) /\ Len(Append(r, k + 1)) = Len(r) + 1
    BY <2>1, <2>3, AppendProperties
  <2> DEFINE a == Append(r, k + 1)
  <2>6. s = a \/ s = r
    BY DEF Reading
  <2>7. s = a => k + 1 >= start \/ s = r
    BY DEF Reading
  <2> HIDE DEF a, s
  <2>5. s \in Seq(start..n) /\ Len(s) <= k + 1
    <3>1. CASE s = r
      BY <2>1, <2>2, <3>1
    <3>2. CASE s = a /\ k + 1 >= start
      <4>1. a \in Seq(start..n) /\ Len(a) = Len(r) + 1
        BY <2>4, <3>2 DEF a
      <4> QED BY <2>1, <2>2, <3>2, <4>1
    <3> QED BY <2>6, <2>7, <3>1, <3>2
  <2> QED BY <2>1, <2>5
<1>4. n \in P
  <2>1. P \in SUBSET (0..n) /\ n \in 0..n
    OBVIOUS
  <2> HIDE DEF P
  <2> QED BY <1>2, <1>3, <2>1, Throughout
<1> QED BY <1>1, <1>4

\* Where a word is spelled out, it begins at the start and ends in the text.
LEMMA SpellingIs ==
    ASSUME NEW text, NEW n \in Nat, n = Len(text), NEW start \in 1..n,
           NEW word, Len(word) \in Nat \ {0}, Spelling(text, start, word) # {}
    PROVE  \E e \in start..n : Spelling(text, start, word) = start..e /\ Len(word) <= n
<1> DEFINE read == ReadFrom(text, start)
<1>1. read \in Seq(start..n) /\ Len(read) <= n
  BY ReadIs
<1>2. Spelling(text, start, word) =
        IF Len(word) > Len(read) \/ \E k \in DOMAIN word : Norm[text[read[k]]] # word[k]
        THEN {} ELSE start..read[Len(word)]
  BY DEF Spelling, ReadFrom
<1> HIDE DEF read
<1>3. Len(read) \in Nat /\ DOMAIN read = 1..Len(read) /\ \A k \in 1..Len(read) : read[k] \in start..n
  BY <1>1, LenProperties
<1>4. ~(Len(word) > Len(read)) /\ Spelling(text, start, word) = start..read[Len(word)]
  BY <1>2
<1>5. read[Len(word)] \in start..n /\ Len(word) <= n
  BY <1>1, <1>3, <1>4
<1> QED BY <1>4, <1>5

-----------------------------------------------------------------------------
(* WordFilter: what the filter and the guard find and replace              *)

\* The words a filter can find: not blank.
Wordy(terms) == \A word \in terms : Len(word) \in Nat \ {0}

\* What a find of the filter is: a word that is spelled out from its start to its end.
LEMMA FindIs ==
    ASSUME NEW text, NEW n \in Nat, n = Len(text), DOMAIN text = 1..n, NEW terms, Wordy(terms),
           NEW h \in Finds(text, terms)
    PROVE  /\ h.start \in 1..n /\ ~Punctuation(text, h.start) /\ h.start \notin Protected(text)
           /\ \E word \in MatchesAt(text, h.start, terms) : \E e \in h.start..n :
                /\ Spelling(text, h.start, word) = h.start..e /\ h.end = e + 1
                /\ h.rank = Len(word) /\ h.rank \in 1..n
<1>0. PICK i \in 1..n : /\ i \notin Protected(text) /\ ~Punctuation(text, i)
                         /\ \E word \in MatchesAt(text, i, terms) :
                              h = [start |-> i, end |-> i + Cardinality(Spelling(text, i, word)), rank |-> Len(word)]
  BY DEF Finds
<1>1. PICK word \in MatchesAt(text, i, terms) :
        h = [start |-> i, end |-> i + Cardinality(Spelling(text, i, word)), rank |-> Len(word)]
  BY <1>0
<1>2. word \in terms /\ Spelling(text, i, word) # {} /\ Len(word) \in Nat \ {0}
  BY DEF MatchesAt, Wordy
<1>3. PICK e \in i..n : Spelling(text, i, word) = i..e /\ Len(word) <= n
  BY <1>2, SpellingIs
<1>4. i \in Int /\ e \in Int /\ i <= e
  BY <1>3
<1>5. Cardinality(i..e) = e - i + 1
  BY <1>4, FS_Interval
<1>6. h.start = i /\ h.end = e + 1 /\ h.rank = Len(word)
  BY <1>1, <1>3, <1>4, <1>5
<1> QED BY <1>0, <1>1, <1>2, <1>3, <1>6

\* Where a word is spelled out from an open symbol on, there is a find.
LEMMA FindAt ==
    ASSUME NEW text, NEW n \in Nat, n = Len(text), DOMAIN text = 1..n, NEW terms, Wordy(terms),
           NEW i \in 1..n, NEW word \in MatchesAt(text, i, terms), ~Punctuation(text, i)
    PROVE  \E h \in Finds(text, terms) : h.start = i
<1>1. word \in terms /\ Spelling(text, i, word) # {} /\ Spelling(text, i, word) \cap Protected(text) = {}
  BY DEF MatchesAt
<1>2. Len(word) \in Nat \ {0}
  BY <1>1 DEF Wordy
<1>3. PICK e \in i..n : Spelling(text, i, word) = i..e
  BY <1>1, <1>2, SpellingIs
<1>4. i \notin Protected(text)
  BY <1>1, <1>3
<1> DEFINE h == [start |-> i, end |-> i + Cardinality(Spelling(text, i, word)), rank |-> Len(word)]
<1>5. h \in Finds(text, terms)
  BY <1>4 DEF Finds
<1> QED BY <1>5

\* The finds of the filter are finds a walk can take.
LEMMA FindsAreFinds ==
    ASSUME NEW text, NEW n \in Nat, n = Len(text), DOMAIN text = 1..n, NEW terms, Wordy(terms)
    PROVE  FindsOK(Finds(text, terms), n)
<1>1. ASSUME NEW h \in Finds(text, terms)
      PROVE  h.start \in 1..n /\ h.end \in Int /\ h.start < h.end /\ h.rank \in Int /\ h.rank <= n
  <2>1. h.start \in 1..n
    BY FindIs
  <2>2. PICK e \in h.start..n : h.end = e + 1 /\ h.rank \in 1..n
    BY FindIs
  <2> QED BY <2>1, <2>2
<1> QED BY <1>1 DEF FindsOK

\* What the filter makes of a text.
LEMMA FilterIs ==
    ASSUME NEW text \in Seq(Symbols), NEW terms, Wordy(terms), NEW n, n = Len(text),
           NEW r, r = FilterWithCount(text, terms).text
    PROVE  /\ r \in Seq(Symbols) /\ Len(r) = n
           /\ \A k \in 1..n : r[k] = text[k] \/ r[k] = "*"
           /\ \A k \in 1..n : r[k] # text[k] =>
                /\ ~Punctuation(text, k) /\ k \notin Protected(text)
                /\ \E i \in 1..n : \E word \in MatchesAt(text, i, terms) : k \in Spelling(text, i, word)
           /\ \A i \in 1..n : \A word \in MatchesAt(text, i, terms) : Punctuation(text, i) \/ r[i] = "*"
<1> DEFINE finds == Finds(text, terms)
           taken == LeftToRight(finds, n)
           hit   == UNION {f.start..(f.end - 1) : f \in ToSet(taken)}
<1>1. n \in Nat /\ DOMAIN text = 1..n
  BY LenProperties
<1>2. r = [i \in 1..n |-> IF i \in hit /\ ~Punctuation(text, i) THEN "*" ELSE text[i]]
  BY <1>1 DEF FilterWithCount
<1>3. FindsOK(finds, n) /\ Walked(finds, taken, n)
  <2>1. FindsOK(finds, n)
    BY <1>1, FindsAreFinds
  <2> HIDE DEF finds
  <2> QED BY <1>1, <2>1, WalkIs
<1>4. ToSet(taken) = {taken[i] : i \in DOMAIN taken} /\ taken \in Seq(finds)
  BY <1>3 DEF ToSet, Walked
<1>5. ToSet(taken) \subseteq finds
  <2> HIDE DEF taken, finds
  <2> QED BY <1>4, LenProperties
<1>6. \A k \in 1..n : text[k] \in Symbols
  BY <1>1
<1> HIDE DEF hit
<1>7. r \in Seq(Symbols) /\ Len(r) = n
  <2>1. \A k \in 1..n : r[k] \in Symbols
    <3> SUFFICES ASSUME NEW k \in 1..n PROVE r[k] \in Symbols
      OBVIOUS
    <3>1. "*" \in Symbols /\ text[k] \in Symbols
      BY <1>6, FilterAssumption
    <3>2. r[k] = IF k \in hit /\ ~Punctuation(text, k) THEN "*" ELSE text[k]
      BY <1>2
    <3> QED BY <3>1, <3>2
  <2> QED BY <1>1, <1>2, <2>1
<1>8. ASSUME NEW k \in 1..n, k \in hit
      PROVE  /\ k \notin Protected(text)
             /\ \E i \in 1..n : \E word \in MatchesAt(text, i, terms) : k \in Spelling(text, i, word)
  <2>1. PICK f \in finds : k \in f.start..(f.end - 1)
    BY <1>5, <1>8 DEF hit
  <2>2. f.start \in 1..n
    BY <1>1, FindIs
  <2>3. PICK word \in MatchesAt(text, f.start, terms), e \in f.start..n :
          Spelling(text, f.start, word) = f.start..e /\ f.end = e + 1
    BY <1>1, FindIs
  <2>4. f.end - 1 = e
    BY <2>2, <2>3
  <2>5. k \in Spelling(text, f.start, word)
    BY <2>1, <2>3, <2>4
  <2>6. Spelling(text, f.start, word) \cap Protected(text) = {}
    BY DEF MatchesAt
  <2> QED BY <2>2, <2>5, <2>6
<1>9. ASSUME NEW i \in 1..n, NEW word \in MatchesAt(text, i, terms), ~Punctuation(text, i)
      PROVE  i \in hit
  <2>1. PICK h \in finds : h.start = i
    BY <1>1, <1>9, FindAt
  <2>2. \E u \in ToSet(taken) : u.start <= i /\ i < u.end
    <3> HIDE DEF taken, finds
    <3>1. CASE \E j \in DOMAIN taken : taken[j] = h
      <4>1. h.start < h.end
        BY <1>3 DEF FindsOK
      <4> QED BY <1>4, <2>1, <3>1, <4>1
    <3>2. CASE \E j \in DOMAIN taken : Covers(taken[j], h)
      BY <1>4, <2>1, <3>2 DEF Covers
    <3>3. h.start <= n
      BY <2>1
    <3> QED BY <1>3, <3>1, <3>2, <3>3 DEF Walked
  <2>3. PICK u \in ToSet(taken) : u.start <= i /\ i < u.end
    BY <2>2
  <2>4. u.start \in 1..n /\ u.end \in Int
    BY <1>3, <1>5 DEF FindsOK
  <2>5. i \in u.start..(u.end - 1)
    BY <2>3, <2>4
  <2> QED BY <2>5 DEF hit
<1>10. \A k \in 1..n : r[k] = IF k \in hit /\ ~Punctuation(text, k) THEN "*" ELSE text[k]
  BY <1>2
<1> HIDE DEF taken, finds
<1>11. \A k \in 1..n : r[k] = text[k] \/ r[k] = "*"
  BY <1>10
<1>12. ASSUME NEW k \in 1..n, r[k] # text[k]
       PROVE  /\ ~Punctuation(text, k) /\ k \notin Protected(text)
              /\ \E i \in 1..n : \E word \in MatchesAt(text, i, terms) : k \in Spelling(text, i, word)
  BY <1>8, <1>10, <1>12
<1>13. ASSUME NEW i \in 1..n, NEW word \in MatchesAt(text, i, terms)
       PROVE  Punctuation(text, i) \/ r[i] = "*"
  BY <1>9, <1>10, <1>13
<1> QED BY <1>7, <1>11, <1>12, <1>13

\* What the guard makes of a text: it finds the blocked words, and replaces nothing else.
LEMMA GuardIs ==
    ASSUME NEW text \in Seq(Symbols), NEW n, n = Len(text), NEW r, r = Guarded(text)
    PROVE  /\ r \in Seq(Symbols) /\ Len(r) = n
           /\ \A k \in 1..n : r[k] = text[k] \/ r[k] = "*"
           /\ \A k \in 1..n : r[k] # text[k] =>
                \E w \in ToSet(Blocked), i \in 1..n :
                  StandsAt(w, Each(text, Lower), i) /\ k \in i..(i + Len(w) - 1)
<1> DEFINE lower == Each(text, Lower)
           finds == UNION {{[start |-> i, end |-> i + Len(Blocked[k]), rank |-> -k] :
                              i \in {j \in DOMAIN text : StandsAt(Blocked[k], lower, j)}} :
                             k \in DOMAIN Blocked}
           taken == LeftToRight(finds, n)
           hit   == UNION {f.start..(f.end - 1) : f \in ToSet(taken)}
<1>1. n \in Nat /\ DOMAIN text = 1..n /\ \A k \in 1..n : text[k] \in Symbols
  BY LenProperties
<1>2. r = [i \in 1..n |-> IF i \in hit THEN "*" ELSE text[i]]
  BY <1>1 DEF Guarded
<1>3. Blocked \in Seq(Seq(Symbols)) /\ Len(Blocked) \in Nat /\ DOMAIN Blocked = 1..Len(Blocked)
  <2>1. Blocked \in Seq(Seq(Symbols))
    BY FilterAssumption
  <2> QED BY <2>1, LenProperties
<1> HIDE DEF lower
<1>4. ASSUME NEW h \in finds
      PROVE  /\ h.start \in 1..n /\ h.end \in Int /\ h.start < h.end /\ h.rank \in Int /\ h.rank <= 0
             /\ \E w \in ToSet(Blocked) : StandsAt(w, lower, h.start) /\ h.end = h.start + Len(w)
  <2>1. PICK k \in DOMAIN Blocked : \E i \in {j \in DOMAIN text : StandsAt(Blocked[k], lower, j)} :
          h = [start |-> i, end |-> i + Len(Blocked[k]), rank |-> -k]
    OBVIOUS
  <2>2. PICK i \in {j \in DOMAIN text : StandsAt(Blocked[k], lower, j)} :
          h = [start |-> i, end |-> i + Len(Blocked[k]), rank |-> -k]
    BY <2>1
  <2> DEFINE w == Blocked[k]
  <2>3. w \in Seq(Symbols) /\ w \in ToSet(Blocked) /\ k \in Nat
    BY <1>3 DEF ToSet
  <2>4. StandsAt(w, lower, i) /\ i \in 1..n
    BY <1>1, <2>2
  <2>5. h.start = i /\ h.end = i + Len(w) /\ h.rank = -k
    BY <2>2
  <2> HIDE DEF w
  <2>6. Len(w) \in Nat /\ Len(w) # 0
    <3>1. w # <<>>
      BY <2>4 DEF StandsAt
    <3> QED BY <2>3, <3>1, LenProperties, EmptySeq
  <2> QED BY <1>1, <2>3, <2>4, <2>5, <2>6
<1> HIDE DEF finds
<1>5. FindsOK(finds, n) /\ Walked(finds, taken, n)
  <2>1. FindsOK(finds, n)
    <3>1. \A h \in finds : h.rank <= 0
      BY <1>4
    <3> QED BY <1>4, <3>1 DEF FindsOK
  <2> QED BY <1>1, <2>1, WalkIs
<1> HIDE DEF taken
<1>6. ToSet(taken) \subseteq finds
  <2>1. ToSet(taken) = {taken[i] : i \in DOMAIN taken} /\ taken \in Seq(finds)
    BY <1>5 DEF ToSet, Walked
  <2> QED BY <2>1, LenProperties
<1> HIDE DEF hit
<1>7. \A k \in 1..n : r[k] = IF k \in hit THEN "*" ELSE text[k]
  BY <1>2
<1>8. r \in Seq(Symbols) /\ Len(r) = n
  <2>1. \A k \in 1..n : r[k] \in Symbols
    <3> SUFFICES ASSUME NEW k \in 1..n PROVE r[k] \in Symbols
      OBVIOUS
    <3>1. "*" \in Symbols /\ text[k] \in Symbols
      BY <1>1, FilterAssumption
    <3> QED BY <1>7, <3>1
  <2> QED BY <1>1, <1>2, <2>1
<1>9. ASSUME NEW k \in 1..n, k \in hit
      PROVE  \E w \in ToSet(Blocked), i \in 1..n :
               StandsAt(w, lower, i) /\ k \in i..(i + Len(w) - 1)
  <2>1. PICK f \in finds : k \in f.start..(f.end - 1)
    BY <1>6, <1>9 DEF hit
  <2>2. f.start \in 1..n
    BY <1>4
  <2>3. PICK w \in ToSet(Blocked) : StandsAt(w, lower, f.start) /\ f.end = f.start + Len(w)
    BY <1>4
  <2>4. k \in f.start..(f.start + Len(w) - 1)
    <3>2. Len(w) \in Nat
      <4>1. w \in Seq(Symbols)
        BY <1>3 DEF ToSet
      <4> QED BY <4>1, LenProperties
    <3>1. f.end - 1 = f.start + Len(w) - 1
      BY <2>2, <2>3, <3>2
    <3> QED BY <2>1, <3>1
  <2> QED BY <2>2, <2>3, <2>4
<1> QED BY <1>7, <1>8, <1>9 DEF lower

\* A blocked word that stands in a text some symbols of which were replaced.
LEMMA StandsBlocks ==
    ASSUME NEW text \in Seq(Symbols), NEW other \in Seq(Symbols), NEW n, n = Len(text), Len(other) = n,
           \A k \in 1..n : other[k] = text[k] \/ other[k] = "*",
           NEW w \in Seq(Symbols), NEW i \in 1..n, StandsAt(w, Each(other, Lower), i)
    PROVE  Blocks(w, text, i)
<1> DEFINE lower == Each(other, Lower)
           l == Len(w)
           S == {Lower[other[k]] : k \in 1..n}
<1>1. n \in Nat /\ DOMAIN other = 1..n /\ l \in Nat /\ DOMAIN w = 1..l
  BY LenProperties
<1>2. lower = [k \in 1..n |-> Lower[other[k]]]
  BY <1>1 DEF Each
<1>3. lower \in Seq(S) /\ Len(lower) = n /\ \A k \in 1..n : lower[k] = Lower[other[k]]
  <2>1. \A k \in 1..n : Lower[other[k]] \in S
    OBVIOUS
  <2> HIDE DEF S, lower
  <2>2. lower \in [1..n -> S]
    BY <1>2, <2>1
  <2> QED BY <1>1, <1>2, <2>2
<1> HIDE DEF lower, S, l
<1>4. w # <<>> /\ i + l - 1 <= n /\ SubSeq(lower, i, i + l - 1) = w
  BY <1>3 DEF StandsAt, lower, l
<1>5. ASSUME NEW j \in 1..l PROVE w[j] = Lower[other[i + j - 1]] /\ i + j - 1 \in 1..n
  <2>1. i + l - 1 \in Nat /\ j \in 1..((i + l - 1) - i + 1) /\ i + j - 1 \in 1..n
    BY <1>1, <1>4
  <2>2. SubSeq(lower, i, i + l - 1)[j] = lower[i + j - 1]
    BY <1>1, <1>3, <1>4, <2>1, SubSeqProperties
  <2> QED BY <1>3, <1>4, <2>1, <2>2
<1>6. ASSUME NEW j \in 1..l PROVE w[j] \in {Lower[text[i + j - 1]], Lower["*"]}
  BY <1>5
<1> QED BY <1>1, <1>4, <1>6 DEF Blocks, l

-----------------------------------------------------------------------------
(* WordFilter: the words in force, and every handler                       *)

\* The words in force are not blank.
LEMMA WordsInForceAreWords ==
    ASSUME section \in DOMAIN Sections, cloudWords \subseteq Seq(Symbols)
    PROVE  Wordy(WordsInForce)
<1> SUFFICES ASSUME NEW word \in (Profile.local \cup cloudWords) \ {<<>>}
             PROVE  Len(Each(word, Norm)) \in Nat \ {0}
  BY DEF WordsInForce, Wordy
<1> DEFINE l == Len(word)
           S == {Norm[word[k]] : k \in 1..l}
<1>1. word \in Seq(Symbols) /\ word # <<>>
  BY FilterAssumption DEF Profile
<1>2. l \in Nat \ {0} /\ DOMAIN word = 1..l
  BY <1>1, LenProperties, EmptySeq
<1>3. Each(word, Norm) = [k \in 1..l |-> Norm[word[k]]]
  BY <1>2 DEF Each
<1>4. \A k \in 1..l : Norm[word[k]] \in S
  OBVIOUS
<1> HIDE DEF l, S
<1>5. Len(Each(word, Norm)) = l
  BY <1>2, <1>3, <1>4
<1> QED BY <1>2, <1>5

\* A refresh adds words of an edition that was published.
LEMMA CloudWordsStayWords ==
    ASSUME CloudTypeOK, cloudWords \subseteq Seq(Symbols), [CloudNext]_cloudVars
    PROVE  cloudWords' \subseteq Seq(Symbols)
<1>1. ASSUME NEW reached \in SUBSET Urls, Refresh(reached) PROVE cloudWords' \subseteq Seq(Symbols)
  <2>1. ASSUME NEW u \in Urls PROVE Read(u, reached) \subseteq Seq(Symbols)
    <3>1. CASE Applies(u, reached)
      <4>1. Body(u, reached) \in DOMAIN Published[u]
        BY <3>1 DEF Applies, Body, CloudTypeOK
      <4>2. WordsOf(u, Body(u, reached)) \subseteq Seq(Symbols)
        BY <4>1, FilterAssumption DEF WordsOf
      <4> QED BY <4>2 DEF Read
    <3> QED BY <3>1 DEF Read
  <2>2. cloudWords' = cloudWords \cup UNION {Read(u, reached) : u \in Profile.urls}
    BY <1>1 DEF Refresh
  <2>3. Profile.urls \subseteq Urls
    BY FilterAssumption DEF CloudTypeOK, Profile
  <2> QED BY <2>1, <2>2, <2>3
<1> QED BY <1>1 DEF CloudNext, ReloadFilter, Publish, Restart, cloudVars
\* What is spelled out and what is protected, of the characters passed over and the phrases.
ReadBy(text, start, marks) ==
    LET Collect(read, i) == IF i >= start /\ ~(Norm[text[i]] \in marks) THEN Append(read, i) ELSE read
    IN  FoldLeft(Collect, <<>>, Positions(Len(text)))
SpellingBy(text, start, word, marks) ==
    IF \/ Len(word) > Len(ReadBy(text, start, marks))
       \/ \E k \in DOMAIN word : Norm[text[ReadBy(text, start, marks)[k]]] # word[k]
    THEN {} ELSE start..ReadBy(text, start, marks)[Len(word)]
ProtectedBy(text, phrases) ==
  LET Covered(phrase) ==
        LET finds == {[start |-> i, end |-> i + Len(phrase), rank |-> 0] :
                        i \in {j \in DOMAIN text : StandsAt(phrase, Each(text, Lower), j)}}
        IN  UNION {f.start..(f.end - 1) : f \in ToSet(LeftToRight(finds, Len(text)))}
  IN  UNION {Covered(phrase) : phrase \in phrases}

\* Neither is touched by a step that keeps the section.
LEMMA SectionDecides ==
    ASSUME NEW text, Profile' = Profile
    PROVE  /\ \A i : Punctuation(text, i)' = Punctuation(text, i)
           /\ Protected(text)' = Protected(text)
           /\ \A i, word : Spelling(text, i, word)' = Spelling(text, i, word)
           /\ \A i, terms : MatchesAt(text, i, terms)' = MatchesAt(text, i, terms)
<1>1. \A i : Punctuation(text, i)' = Punctuation(text, i)
  BY DEF Punctuation
<1>2. Protected(text) = ProtectedBy(text, Profile.whiteList)
  BY DEF Protected, ProtectedBy
<1>3. Protected(text)' = ProtectedBy(text, Profile.whiteList')
  BY DEF Protected, ProtectedBy
<1>4. \A i, word : Spelling(text, i, word) = SpellingBy(text, i, word, Profile.punctuation)
  BY DEF Spelling, SpellingBy, ReadBy, Punctuation
<1>5. \A i, word : Spelling(text, i, word)' = SpellingBy(text, i, word, Profile.punctuation')
  BY DEF Spelling, SpellingBy, ReadBy, Punctuation, FoldLeft, MapThenFoldSet
<1>6. Protected(text)' = Protected(text)
  BY <1>2, <1>3
<1>7. \A i, word : Spelling(text, i, word)' = Spelling(text, i, word)
  BY <1>4, <1>5
<1>8. \A i, terms : MatchesAt(text, i, terms)' = MatchesAt(text, i, terms)
  BY <1>6, <1>7 DEF MatchesAt
<1> QED BY <1>1, <1>6, <1>7, <1>8

\* What a handler makes of a text: it finds what is forbidden, and nothing else.
LEMMA FilterKeeps ==
    ASSUME section \in DOMAIN Sections, cloudWords \subseteq Seq(Symbols),
           NEW text \in Texts, NEW place, NEW operator, Filter(text, place, operator)
    PROVE  FilterExact'
<1> PICK terms : terms = IF place \in Profile.places THEN WordsInForce ELSE {}
  OBVIOUS
<1> PICK result : result = Filtered(text, place).text
  OBVIOUS
<1> PICK final : final = IF place = "chat" THEN Guarded(result) ELSE result
  OBVIOUS
<1> PICK n : n = Len(text)
  OBVIOUS
<1>1. text \in Seq(Symbols) /\ Blocked \in Seq(Seq(Symbols))
  BY FilterAssumption
<1>2. n \in Nat /\ DOMAIN text = 1..n
  BY <1>1, LenProperties
<1>3. Wordy(terms)
  BY WordsInForceAreWords DEF Wordy
<1>4. filtered'.of = text /\ filtered'.words = terms /\ filtered'.to = final
  BY DEF Filter
<1>5. UNCHANGED <<section, cloudWords>>
  BY DEF Filter, cloudVars
<1>6. /\ result \in Seq(Symbols) /\ Len(result) = n
      /\ \A k \in 1..n : result[k] = text[k] \/ result[k] = "*"
      /\ \A k \in 1..n : result[k] # text[k] =>
           /\ ~Punctuation(text, k) /\ k \notin Protected(text)
           /\ \E i \in 1..n : \E word \in MatchesAt(text, i, terms) : k \in Spelling(text, i, word)
      /\ \A i \in 1..n : \A word \in MatchesAt(text, i, terms) : Punctuation(text, i) \/ result[i] = "*"
  <2>1. CASE place \in Profile.places
    <3>1. result = FilterWithCount(text, terms).text
      BY <2>1 DEF Filtered
    <3> QED BY <1>1, <1>3, <3>1, FilterIs
  <2>2. CASE place \notin Profile.places
    <3>1. result = text /\ terms = {}
      BY <2>2 DEF Filtered
    <3>2. \A i \in 1..n : MatchesAt(text, i, terms) = {}
      BY <3>1 DEF MatchesAt
    <3> QED BY <1>1, <3>1, <3>2
  <2> QED BY <2>1, <2>2
<1>7. /\ final \in Seq(Symbols) /\ Len(final) = n
      /\ \A k \in 1..n : final[k] = result[k] \/ final[k] = "*"
      /\ \A k \in 1..n : final[k] # result[k] =>
           \E w \in ToSet(Blocked), i \in 1..n : Blocks(w, text, i) /\ k \in i..(i + Len(w) - 1)
  <2>1. CASE place = "chat"
    <3>1. final = Guarded(result)
      BY <2>1
    <3>2. /\ final \in Seq(Symbols) /\ Len(final) = n
          /\ \A k \in 1..n : final[k] = result[k] \/ final[k] = "*"
          /\ \A k \in 1..n : final[k] # result[k] =>
               \E w \in ToSet(Blocked), i \in 1..n :
                 StandsAt(w, Each(result, Lower), i) /\ k \in i..(i + Len(w) - 1)
      BY <1>6, <3>1, GuardIs
    <3>3. ASSUME NEW w \in ToSet(Blocked), NEW i \in 1..n, StandsAt(w, Each(result, Lower), i)
          PROVE  Blocks(w, text, i)
      <4>1. w \in Seq(Symbols)
        BY <1>1, LenProperties DEF ToSet
      <4> QED BY <1>1, <1>6, <3>3, <4>1, StandsBlocks
    <3> QED BY <3>2, <3>3
  <2>2. CASE place # "chat"
    <3>1. final = result
      BY <2>2
    <3> QED BY <1>6, <3>1
  <2> QED BY <2>1, <2>2
<1>8. ASSUME NEW i \in 1..n, NEW word \in MatchesAt(text, i, terms)
      PROVE  Punctuation(text, i) \/ final[i] = "*"
  BY <1>6, <1>7
<1>9. ASSUME NEW k \in 1..n, final[k] # text[k]
      PROVE  \/ /\ ~Punctuation(text, k) /\ k \notin Protected(text)
                /\ \E i \in 1..n : \E word \in MatchesAt(text, i, terms) : k \in Spelling(text, i, word)
             \/ \E w \in ToSet(Blocked), i \in 1..n : Blocks(w, text, i) /\ k \in i..(i + Len(w) - 1)
  BY <1>6, <1>7, <1>9
<1>10. Profile' = Profile
  BY <1>5 DEF Profile
<1>11. /\ \A i : Punctuation(text, i)' = Punctuation(text, i)
       /\ Protected(text)' = Protected(text)
       /\ \A i, word : Spelling(text, i, word)' = Spelling(text, i, word)
  BY <1>10, SectionDecides
<1>12. \A i : MatchesAt(text, i, terms)' = MatchesAt(text, i, terms)
  BY <1>10, SectionDecides
<1>13. NoOccurrenceSurvives'
  BY <1>2, <1>4, <1>8, <1>11, <1>12 DEF NoOccurrenceSurvives
<1>14. OnlyWordsTouched'
  <2>1. Len(filtered'.to) = Len(filtered'.of) /\ DOMAIN filtered'.of = 1..n
    BY <1>2, <1>4, <1>7
  <2>2. ASSUME NEW k \in 1..n, filtered'.to[k] # filtered'.of[k]
        PROVE  (\/ /\ ~Punctuation(filtered.of, k) /\ k \notin Protected(filtered.of)
                   /\ \E i \in DOMAIN filtered.of : \E word \in MatchesAt(filtered.of, i, filtered.words) :
                        k \in Spelling(filtered.of, i, word)
                \/ \E w \in ToSet(Blocked), i \in DOMAIN filtered.of :
                     Blocks(w, filtered.of, i) /\ k \in i..(i + Len(w) - 1))'
    <3>1. final[k] # text[k]
      BY <1>4, <2>2
    <3>2. /\ Punctuation(filtered.of, k)' = Punctuation(text, k)
          /\ Protected(filtered.of)' = Protected(text)
      BY <1>4, <1>11
    <3>3. ASSUME NEW i \in 1..n, NEW word \in MatchesAt(text, i, terms), k \in Spelling(text, i, word)
          PROVE  (\E j \in DOMAIN filtered.of : \E v \in MatchesAt(filtered.of, j, filtered.words) :
                    k \in Spelling(filtered.of, j, v))'
      <4>1. word \in MatchesAt(filtered.of, i, filtered.words)' /\ k \in Spelling(filtered.of, i, word)'
        BY <1>4, <1>11, <1>12, <3>3
      <4> QED BY <2>1, <4>1
    <3>4. ASSUME NEW w \in ToSet(Blocked), NEW i \in 1..n, Blocks(w, text, i) /\ k \in i..(i + Len(w) - 1)
          PROVE  (\E v \in ToSet(Blocked), j \in DOMAIN filtered.of :
                    Blocks(v, filtered.of, j) /\ k \in j..(j + Len(v) - 1))'
      <4>1. (Blocks(w, filtered.of, i) /\ k \in i..(i + Len(w) - 1))'
        BY <1>4, <3>4
      <4> QED BY <2>1, <4>1
    <3> QED BY <1>9, <3>1, <3>2, <3>3, <3>4
  <2> QED BY <2>1, <2>2 DEF OnlyWordsTouched
<1> QED BY <1>13, <1>14 DEF FilterExact

\* While nothing has been filtered there is nothing to find.
LEMMA NothingIsExact == filtered = NothingFiltered => FilterExact
<1> SUFFICES ASSUME filtered = NothingFiltered PROVE FilterExact
  OBVIOUS
<1>1. filtered.of = <<>> /\ filtered.to = <<>> /\ filtered.words = {}
  BY DEF NothingFiltered
<1>2. DOMAIN filtered.of = {} /\ Len(filtered.to) = Len(filtered.of)
  BY <1>1
<1>3. NoOccurrenceSurvives
  BY <1>2 DEF NoOccurrenceSurvives
<1>4. OnlyWordsTouched
  BY <1>2 DEF OnlyWordsTouched
<1> QED BY <1>3, <1>4 DEF FilterExact

\* A step that changes nothing leaves the filter exact.
LEMMA StutterIsExact == FilterExact /\ UNCHANGED filterVars => FilterExact'
<1> SUFFICES ASSUME FilterExact, UNCHANGED filterVars PROVE FilterExact'
  OBVIOUS
<1>1. filtered' = filtered /\ Profile' = Profile
  BY DEF filterVars, cloudVars, Profile
<1> PICK f : f = filtered
  OBVIOUS
<1>2. filtered' = f
  BY <1>1
<1>3. /\ \A i : Punctuation(f.of, i)' = Punctuation(f.of, i)
      /\ Protected(f.of)' = Protected(f.of)
      /\ \A i, word : Spelling(f.of, i, word)' = Spelling(f.of, i, word)
      /\ \A i, terms : MatchesAt(f.of, i, terms)' = MatchesAt(f.of, i, terms)
  BY <1>1, SectionDecides
<1>4. NoOccurrenceSurvives'
  BY <1>2, <1>3 DEF FilterExact, NoOccurrenceSurvives
<1>5. OnlyWordsTouched'
  BY <1>2, <1>3 DEF FilterExact, OnlyWordsTouched, Blocks
<1> QED BY <1>4, <1>5 DEF FilterExact

\* The cloud words are in order and are words, and the last text was filtered exactly.
WordsInv == CloudInv /\ cloudWords \subseteq Seq(Symbols) /\ FilterExact

\* The words are words at the start, and nothing has been filtered.
LEMMA WordsInitHolds == WordsInit => WordsInv
<1> SUFFICES ASSUME WordsInit PROVE WordsInv
  OBVIOUS
<1>1. CloudInv
  BY CloudInitHolds DEF WordsInit
<1>2. cloudWords = {}
  BY DEF WordsInit, CloudInit
<1>3. FilterExact
  BY NothingIsExact DEF WordsInit
<1> QED BY <1>1, <1>2, <1>3 DEF WordsInv

\* The words stay words, and whatever a handler makes of a text is exact.
LEMMA WordsStepHolds == WordsInv /\ [WordsNext]_filterVars => WordsInv'
<1> SUFFICES ASSUME WordsInv, [WordsNext]_filterVars PROVE WordsInv'
  OBVIOUS
<1>1. [CloudNext]_cloudVars
  BY DEF WordsNext, Filter, filterVars
<1>2. CloudInv'
  BY <1>1, CloudStepHolds DEF WordsInv
<1>3. cloudWords' \subseteq Seq(Symbols)
  BY <1>1, CloudWordsStayWords DEF WordsInv, CloudInv
<1>4. CASE filtered' = NothingFiltered
  <2>1. (filtered = NothingFiltered => FilterExact)'
    BY NothingIsExact, PTL
  <2>2. NothingFiltered' = NothingFiltered
    BY DEF NothingFiltered
  <2> QED BY <1>2, <1>3, <1>4, <2>1, <2>2 DEF WordsInv
<1>5. ASSUME NEW text \in Texts, NEW place, NEW operator, Filter(text, place, operator) PROVE WordsInv'
  <2>1. FilterExact'
    BY <1>5, FilterKeeps DEF WordsInv, CloudInv, CloudTypeOK
  <2> QED BY <1>2, <1>3, <2>1 DEF WordsInv
<1>6. CASE UNCHANGED filterVars
  BY <1>2, <1>3, <1>6, StutterIsExact DEF WordsInv
<1> QED BY <1>4, <1>5, <1>6 DEF WordsNext

\* Every occurrence of a word in force is found and covered, however it is spelled and
\* wherever it stands, and nothing is replaced that is not part of such a word or of a
\* blocked one (FilterExact of filter.rs and MessageGuard), for all texts and words.
THEOREM FilterIsExact == WordsSpec => []FilterExact
<1>1. WordsInv => FilterExact
  BY DEF WordsInv
<1> QED BY <1>1, WordsInitHolds, WordsStepHolds, PTL DEF WordsSpec

-----------------------------------------------------------------------------
(* RedisConnection: a parse, level by level and element by element         *)

\* One level of parse, above a table of the levels.
ParseAt(g, depth) ==
    IF depth > MaxDepth THEN [bytes \in Seq(Alphabet) |-> <<"error">>]
    ELSE [bytes \in Seq(Alphabet) |-> ParseWith(bytes, g[depth + 1])]

\* The recursion of parse has a solution: the levels are found from the deepest up.
LEMMA ParseIs ==
    \A depth \in 0..(MaxDepth + 1) : Parse[depth] = ParseAt(Parse, depth)
<1> DEFINE M == MaxDepth + 1
           P == {k \in 0..M : \E g : g = [depth \in (M - k)..M |-> ParseAt(g, depth)]}
<1>0. M \in Nat /\ M = MaxDepth + 1 /\ MaxDepth \in Nat
  BY RedisAssumption
<1> HIDE DEF M
<1>1. 0 \in P
  <2> DEFINE g == [depth \in (M - 0)..M |-> [bytes \in Seq(Alphabet) |-> <<"error">>]]
  <2>1. ASSUME NEW depth \in (M - 0)..M PROVE depth > MaxDepth
    BY <1>0
  <2>2. ASSUME NEW depth \in (M - 0)..M PROVE ParseAt(g, depth) = [bytes \in Seq(Alphabet) |-> <<"error">>]
    <3> HIDE DEF g
    <3> QED BY <2>1 DEF ParseAt
  <2>3. g = [depth \in (M - 0)..M |-> ParseAt(g, depth)]
    BY <2>2
  <2> HIDE DEF g
  <2> QED BY <1>0, <2>3
<1>2. ASSUME NEW k \in 0..(M - 1), k \in P PROVE k + 1 \in P
  <2>1. PICK g : g = [depth \in (M - k)..M |-> ParseAt(g, depth)]
    BY <1>2
  <2> DEFINE D == (M - (k + 1))..M
             h == [depth \in D |-> IF depth = M - (k + 1) THEN ParseAt(g, depth) ELSE g[depth]]
  <2>2. ASSUME NEW depth \in D PROVE h[depth] = ParseAt(h, depth)
    <3>1. depth \in Int /\ (depth # M - (k + 1) => depth \in (M - k)..M)
      BY <1>0
    <3>2. depth <= MaxDepth => depth + 1 \in D /\ depth + 1 # M - (k + 1)
      BY <1>0
    <3>3. ParseAt(h, depth) = ParseAt(g, depth)
      <4>1. CASE depth > MaxDepth
        BY <4>1 DEF ParseAt
      <4>2. CASE ~(depth > MaxDepth)
        <5>1. h[depth + 1] = g[depth + 1]
          BY <1>0, <3>1, <3>2, <4>2
        <5> HIDE DEF h
        <5> QED BY <4>2, <5>1 DEF ParseAt
      <4> QED BY <4>1, <4>2
    <3>4. depth \in (M - k)..M => g[depth] = ParseAt(g, depth)
      <4> DEFINE f == [e \in (M - k)..M |-> ParseAt(g, e)]
      <4>1. g = f
        BY <2>1
      <4>2. depth \in (M - k)..M => f[depth] = ParseAt(g, depth)
        OBVIOUS
      <4> HIDE DEF f
      <4> QED BY <4>1, <4>2
    <3> HIDE DEF D
    <3>5. h[depth] = IF depth = M - (k + 1) THEN ParseAt(g, depth) ELSE g[depth]
      OBVIOUS
    <3> QED BY <3>1, <3>3, <3>4, <3>5
  <2>3. h = [depth \in D |-> ParseAt(h, depth)]
    <3> DEFINE f == [depth \in D |-> IF depth = M - (k + 1) THEN ParseAt(g, depth) ELSE g[depth]]
    <3>1. h = [depth \in D |-> h[depth]]
      <4> HIDE DEF D
      <4> QED OBVIOUS
    <3> HIDE DEF h, D, f
    <3> QED BY <2>2, <3>1
  <2>4. k + 1 \in 0..M
    BY <1>0
  <2> HIDE DEF h
  <2> QED BY <2>3, <2>4
<1>3. P = 0..M
  <2>1. P \in SUBSET (0..M)
    OBVIOUS
  <2> HIDE DEF P
  <2> QED BY <1>0, <1>1, <1>2, <2>1, Throughout
<1>4. \E g : g = [depth \in (M - M)..M |-> ParseAt(g, depth)]
  <2>1. M \in P
    <3> HIDE DEF P
    <3> QED BY <1>0, <1>3
  <2> QED BY <2>1
<1>5. PICK g : g = [depth \in 0..M |-> ParseAt(g, depth)]
  <2>1. M - M = 0
    BY <1>0
  <2> QED BY <1>4, <2>1
<1>6. Parse = CHOOSE f : f = [depth \in 0..M |-> ParseAt(f, depth)]
  BY <1>0 DEF Parse, ParseAt, M
<1>7. Parse = [depth \in 0..M |-> ParseAt(Parse, depth)]
  BY <1>5, <1>6
<1>8. ASSUME NEW depth \in 0..M PROVE Parse[depth] = ParseAt(Parse, depth)
  <2> DEFINE f == [d \in 0..M |-> ParseAt(Parse, d)]
  <2>1. f[depth] = ParseAt(Parse, depth)
    OBVIOUS
  <2>2. Parse = f
    BY <1>7
  <2> HIDE DEF f
  <2> QED BY <2>1, <2>2
<1> QED BY <1>0, <1>8

\* What one more element makes of an array.
WithNext(before, bytes, inner) ==
    IF before[1] # "value" THEN before
    ELSE IF inner[From(bytes, before[3])][1] # "value" THEN inner[From(bytes, before[3])]
    ELSE Answer("array", Append(before[2][2], inner[From(bytes, before[3])][2]),
                before[3] + inner[From(bytes, before[3])][3])

ElementAt(g, i, bytes, header, inner) ==
    IF i = 0 THEN Answer("array", <<>>, header) ELSE WithNext(g[i - 1], bytes, inner)

\* The answers before and after each element, the last of them of the whole array.
AreElements(e, bytes, header, length, inner) ==
    /\ e[0] = Answer("array", <<>>, header)
    /\ \A i \in 1..length : e[i] = WithNext(e[i - 1], bytes, inner)
    /\ ArrayAt(bytes, header, length, inner) = e[length]

\* The recursion over the elements of an array has a solution.
LEMMA ElementsAre ==
    ASSUME NEW bytes, NEW header, NEW length \in Nat, NEW inner
    PROVE  \E e : AreElements(e, bytes, header, length, inner)
<1> DEFINE B(g, i) == ElementAt(g, i, bytes, header, inner)
           P == {k \in 0..length : \E g : g = [i \in 0..k |-> B(g, i)]}
<1>1. 0 \in P
  <2> DEFINE g == [i \in 0..0 |-> Answer("array", <<>>, header)]
  <2>1. ASSUME NEW i \in 0..0 PROVE B(g, i) = Answer("array", <<>>, header)
    <3> HIDE DEF g
    <3> QED BY DEF ElementAt
  <2> HIDE DEF B
  <2>2. g = [i \in 0..0 |-> B(g, i)]
    BY <2>1
  <2> HIDE DEF g
  <2> QED BY <2>2
<1>2. ASSUME NEW k \in 0..(length - 1), k \in P PROVE k + 1 \in P
  <2> HIDE DEF B
  <2>1. PICK g : g = [i \in 0..k |-> B(g, i)]
    BY <1>2
  <2> DEFINE D == 0..(k + 1)
             h == [i \in D |-> IF i = k + 1 THEN B(g, i) ELSE g[i]]
  <2>2. ASSUME NEW i \in D PROVE h[i] = B(h, i)
    <3>1. i \in Int /\ (i # k + 1 => i \in 0..k)
      OBVIOUS
    <3>2. i # 0 => i - 1 \in D /\ i - 1 # k + 1
      OBVIOUS
    <3>3. B(h, i) = B(g, i)
      <4>1. CASE i = 0
        <5> HIDE DEF h
        <5> QED BY <4>1 DEF ElementAt, B
      <4>2. CASE i # 0
        <5>1. h[i - 1] = g[i - 1]
          BY <3>1, <3>2, <4>2
        <5> HIDE DEF h
        <5> QED BY <4>2, <5>1 DEF ElementAt, B
      <4> QED BY <4>1, <4>2
    <3>4. i \in 0..k => g[i] = B(g, i)
      <4> DEFINE f == [e \in 0..k |-> B(g, e)]
      <4>1. g = f
        BY <2>1
      <4>2. i \in 0..k => f[i] = B(g, i)
        OBVIOUS
      <4> HIDE DEF f
      <4> QED BY <4>1, <4>2
    <3> HIDE DEF D
    <3>5. h[i] = IF i = k + 1 THEN B(g, i) ELSE g[i]
      OBVIOUS
    <3> QED BY <3>1, <3>3, <3>4, <3>5
  <2>3. h = [i \in D |-> B(h, i)]
    <3>1. h = [i \in D |-> h[i]]
      <4> HIDE DEF D
      <4> QED OBVIOUS
    <3> HIDE DEF h, D
    <3> QED BY <2>2, <3>1
  <2>4. k + 1 \in 0..length
    OBVIOUS
  <2> HIDE DEF h
  <2> QED BY <2>3, <2>4
<1>3. P = 0..length
  <2>1. P \in SUBSET (0..length)
    OBVIOUS
  <2> HIDE DEF P
  <2> QED BY <1>1, <1>2, <2>1, Throughout
<1>4. \E g : g = [i \in 0..length |-> B(g, i)]
  <2>1. length \in P
    <3> HIDE DEF P
    <3> QED BY <1>3
  <2> HIDE DEF B
  <2> QED BY <2>1
<1> DEFINE e == CHOOSE g : g = [i \in 0..length |-> B(g, i)]
<1>5. e = [i \in 0..length |-> B(e, i)]
  <2> HIDE DEF B
  <2> QED BY <1>4
<1>6. ArrayAt(bytes, header, length, inner) = e[length]
  BY DEF ArrayAt, ElementAt, WithNext
<1> HIDE DEF e
<1>7. ASSUME NEW i \in 0..length PROVE e[i] = B(e, i)
  <2> DEFINE f == [j \in 0..length |-> B(e, j)]
  <2> HIDE DEF B
  <2>1. f[i] = B(e, i)
    OBVIOUS
  <2>2. e = f
    BY <1>5
  <2> HIDE DEF f
  <2> QED BY <2>1, <2>2
<1>8. e[0] = Answer("array", <<>>, header)
  BY <1>7 DEF ElementAt
<1>9. ASSUME NEW i \in 1..length PROVE e[i] = WithNext(e[i - 1], bytes, inner)
  BY <1>7 DEF ElementAt
<1> QED BY <1>6, <1>8, <1>9 DEF AreElements

-----------------------------------------------------------------------------
(* RedisConnection: streams in parts                                       *)

\* What is left of a stream behind n symbols.
LEMMA FromIs ==
    ASSUME NEW S, NEW b \in Seq(S), NEW n \in 0..Len(b)
    PROVE  /\ From(b, n) \in Seq(S) /\ Len(From(b, n)) = Len(b) - n
           /\ \A i \in 1..(Len(b) - n) : From(b, n)[i] = b[n + i]
<1>1. Len(b) \in Nat /\ n \in Nat /\ n <= Len(b)
  BY LenProperties
<1>2. \A i \in (n + 1)..Len(b) : b[i] \in S
  <2>1. \A i \in (n + 1)..Len(b) : i \in 1..Len(b)
    BY <1>1
  <2> QED BY <2>1, ElementOfSeq
<1>3. /\ SubSeq(b, n + 1, Len(b)) \in Seq(S)
      /\ Len(SubSeq(b, n + 1, Len(b))) = IF n + 1 <= Len(b) THEN Len(b) - (n + 1) + 1 ELSE 0
      /\ \A i \in 1..(Len(b) - (n + 1) + 1) : SubSeq(b, n + 1, Len(b))[i] = b[n + 1 + i - 1]
  <2>1. n + 1 \in Int /\ Len(b) \in Int
    BY <1>1
  <2> QED BY <1>2, <2>1, SubSeqProperties
<1>4. (IF n + 1 <= Len(b) THEN Len(b) - (n + 1) + 1 ELSE 0) = Len(b) - n /\ Len(b) - (n + 1) + 1 = Len(b) - n
  BY <1>1
<1>5. \A i \in 1..(Len(b) - n) : n + 1 + i - 1 = n + i
  BY <1>1
<1> QED BY <1>3, <1>4, <1>5 DEF From

\* A part of a stream, and its symbols.
LEMMA PartIs ==
    ASSUME NEW S, NEW b \in Seq(S), NEW m \in Nat \ {0}, NEW n \in Int, n <= Len(b)
    PROVE  /\ SubSeq(b, m, n) \in Seq(S) /\ Len(SubSeq(b, m, n)) = IF m <= n THEN n - m + 1 ELSE 0
           /\ \A i \in 1..(n - m + 1) : SubSeq(b, m, n)[i] = b[m + i - 1]
<1>1. Len(b) \in Nat
  BY LenProperties
<1>2. \A i \in m..n : b[i] \in S
  <2>1. \A i \in m..n : i \in 1..Len(b)
    BY <1>1
  <2> QED BY <2>1, ElementOfSeq
<1> QED BY <1>2, SubSeqProperties

\* More behind a stream changes neither what is left of it nor its parts.
LEMMA OfMore ==
    ASSUME NEW S, NEW b \in Seq(S), NEW c \in Seq(S)
    PROVE  /\ \A n \in 0..Len(b) : From(b \o c, n) = From(b, n) \o c
           /\ \A m \in Nat \ {0}, n \in Int : n <= Len(b) => SubSeq(b \o c, m, n) = SubSeq(b, m, n)
<1>1. /\ Len(b) \in Nat /\ Len(c) \in Nat /\ b \o c \in Seq(S) /\ Len(b \o c) = Len(b) + Len(c)
      /\ \A i \in 1..(Len(b) + Len(c)) : (b \o c)[i] = IF i <= Len(b) THEN b[i] ELSE c[i - Len(b)]
  BY LenProperties, ConcatProperties
<1>2. ASSUME NEW n \in 0..Len(b) PROVE From(b \o c, n) = From(b, n) \o c
  <2>1. n \in 0..Len(b \o c) /\ n \in Nat
    BY <1>1
  <2>2. /\ From(b \o c, n) \in Seq(S) /\ Len(From(b \o c, n)) = Len(b) + Len(c) - n
        /\ \A i \in 1..(Len(b) + Len(c) - n) : From(b \o c, n)[i] = (b \o c)[n + i]
    <3> DEFINE a == b \o c
    <3>1. a \in Seq(S) /\ n \in 0..Len(a) /\ Len(a) = Len(b) + Len(c)
      BY <1>1, <2>1
    <3> HIDE DEF a
    <3>2. /\ From(a, n) \in Seq(S) /\ Len(From(a, n)) = Len(a) - n
          /\ \A i \in 1..(Len(a) - n) : From(a, n)[i] = a[n + i]
      BY <3>1, FromIs
    <3> QED BY <3>1, <3>2 DEF a
  <2>3. /\ From(b, n) \in Seq(S) /\ Len(From(b, n)) = Len(b) - n
        /\ \A i \in 1..(Len(b) - n) : From(b, n)[i] = b[n + i]
    BY FromIs
  <2>4. /\ From(b, n) \o c \in Seq(S) /\ Len(From(b, n) \o c) = Len(b) - n + Len(c)
        /\ \A i \in 1..(Len(b) - n + Len(c)) : (From(b, n) \o c)[i] = IF i <= Len(b) - n THEN From(b, n)[i] ELSE c[i - (Len(b) - n)]
    <3> DEFINE a == From(b, n)
    <3>1. a \in Seq(S) /\ Len(a) = Len(b) - n
      BY <2>3
    <3> HIDE DEF a
    <3>2. /\ a \o c \in Seq(S) /\ Len(a \o c) = Len(a) + Len(c)
          /\ \A i \in 1..(Len(a) + Len(c)) : (a \o c)[i] = IF i <= Len(a) THEN a[i] ELSE c[i - Len(a)]
      BY <3>1, ConcatProperties
    <3> QED BY <3>1, <3>2 DEF a
  <2>5. ASSUME NEW i \in 1..(Len(b) + Len(c) - n) PROVE From(b \o c, n)[i] = (From(b, n) \o c)[i]
    <3>1. i \in 1..(Len(b) - n + Len(c)) /\ n + i \in 1..(Len(b) + Len(c)) /\ i \in Int
      BY <1>1, <2>1
    <3>2. From(b \o c, n)[i] = IF n + i <= Len(b) THEN b[n + i] ELSE c[n + i - Len(b)]
      BY <1>1, <2>2, <3>1
    <3>3. (From(b, n) \o c)[i] = IF i <= Len(b) - n THEN From(b, n)[i] ELSE c[i - (Len(b) - n)]
      BY <2>4, <3>1
    <3>4. /\ (n + i <= Len(b)) = (i <= Len(b) - n) /\ n + i - Len(b) = i - (Len(b) - n)
          /\ i <= Len(b) - n => i \in 1..(Len(b) - n)
      BY <1>1, <2>1, <3>1
    <3> QED BY <2>3, <3>2, <3>3, <3>4
  <2>6. Len(From(b \o c, n)) = Len(From(b, n) \o c)
    BY <1>1, <2>1, <2>2, <2>4
  <2> QED BY <2>2, <2>4, <2>5, <2>6, SeqEqual
<1>3. ASSUME NEW m \in Nat \ {0}, NEW n \in Int, n <= Len(b) PROVE SubSeq(b \o c, m, n) = SubSeq(b, m, n)
  <2>1. n <= Len(b \o c)
    BY <1>1, <1>3
  <2>2. /\ SubSeq(b \o c, m, n) \in Seq(S) /\ Len(SubSeq(b \o c, m, n)) = (IF m <= n THEN n - m + 1 ELSE 0)
        /\ \A i \in 1..(n - m + 1) : SubSeq(b \o c, m, n)[i] = (b \o c)[m + i - 1]
    BY <1>1, <2>1, PartIs
  <2>3. /\ SubSeq(b, m, n) \in Seq(S) /\ Len(SubSeq(b, m, n)) = (IF m <= n THEN n - m + 1 ELSE 0)
        /\ \A i \in 1..(n - m + 1) : SubSeq(b, m, n)[i] = b[m + i - 1]
    BY <1>3, PartIs
  <2>4. ASSUME NEW i \in 1..Len(SubSeq(b \o c, m, n)) PROVE SubSeq(b \o c, m, n)[i] = SubSeq(b, m, n)[i]
    <3>1. i \in 1..(n - m + 1)
      BY <2>2
    <3>2. m + i - 1 \in 1..(Len(b) + Len(c)) /\ m + i - 1 <= Len(b)
      BY <1>1, <1>3, <3>1
    <3> QED BY <1>1, <2>2, <2>3, <3>1, <3>2
  <2> QED BY <2>2, <2>3, <2>4, SeqEqual
<1> QED BY <1>2, <1>3

\* A stream is its first n symbols and what is left.
LEMMA InTwo ==
    ASSUME NEW S, NEW b \in Seq(S), NEW n \in 0..Len(b)
    PROVE  SubSeq(b, 1, n) \in Seq(S) /\ SubSeq(b, 1, n) \o From(b, n) = b /\ From(b, 0) = b
<1>1. Len(b) \in Nat /\ n \in Nat /\ n <= Len(b)
  BY LenProperties
<1>2. SubSeq(b, 1, n) \in Seq(S)
  BY <1>1, PartIs
<1>3. SubSeq(b, 1, n) \o SubSeq(b, n + 1, Len(b)) = SubSeq(b, 1, Len(b))
  <2>1. 1 \in 1..(Len(b) + 1) /\ n \in (1 - 1)..Len(b) /\ Len(b) \in n..Len(b)
    BY <1>1
  <2> QED BY <2>1, ConcatAdjacentSubSeq
<1>4. SubSeq(b, 1, Len(b)) = b
  BY SubSeqFull
<1>5. 0 + 1 = 1
  OBVIOUS
<1> QED BY <1>2, <1>3, <1>4, <1>5 DEF From

\* The end of the first line is found once and for all.
LEMMA LineEndIs ==
    ASSUME NEW S, NEW b \in Seq(S)
    PROVE  /\ LineEnd(b) = 0 \/ LineEnd(b) \in 2..(Len(b) - 1)
           /\ \A c \in Seq(S) : LineEnd(b) # 0 => LineEnd(b \o c) = LineEnd(b)
<1> DEFINE Ends(s) == {p \in 2..(Len(s) - 1) : s[p] = "CR" /\ s[p + 1] = "LF"}
<1>0. Len(b) \in Nat
  BY LenProperties
<1>1. LineEnd(b) = IF Ends(b) = {} THEN 0 ELSE Min(Ends(b))
  BY DEF LineEnd
<1>2. ASSUME NEW T \in SUBSET Nat, T # {} PROVE Min(T) \in T /\ \A y \in T : Min(T) <= y
  <2>1. PICK x \in T : \A y \in T : x <= y
    BY <1>2, Least
  <2> QED BY <2>1 DEF Min
<1>3. ASSUME Ends(b) # {} PROVE Min(Ends(b)) \in Ends(b) /\ \A y \in Ends(b) : Min(Ends(b)) <= y
  <2>1. Ends(b) \in SUBSET Nat
    BY <1>0
  <2> HIDE DEF Ends
  <2> QED BY <1>2, <1>3, <2>1
<1>4. LineEnd(b) = 0 \/ LineEnd(b) \in 2..(Len(b) - 1)
  <2>1. Ends(b) # {} => LineEnd(b) \in Ends(b)
    <3> HIDE DEF Ends
    <3> QED BY <1>1, <1>3
  <2>2. Ends(b) = {} => LineEnd(b) = 0
    BY <1>1
  <2> QED BY <2>1, <2>2
<1>5. ASSUME NEW c \in Seq(S), LineEnd(b) # 0 PROVE LineEnd(b \o c) = LineEnd(b)
  <2>1. /\ Len(b) \in Nat /\ Len(c) \in Nat /\ b \o c \in Seq(S) /\ Len(b \o c) = Len(b) + Len(c)
        /\ \A i \in 1..(Len(b) + Len(c)) : (b \o c)[i] = IF i <= Len(b) THEN b[i] ELSE c[i - Len(b)]
    BY LenProperties, ConcatProperties
  <2>2. Ends(b) # {} /\ LineEnd(b) \in Ends(b) /\ \A y \in Ends(b) : LineEnd(b) <= y
    <3> HIDE DEF Ends
    <3> QED BY <1>1, <1>3, <1>5
  <2>3. LineEnd(b \o c) = IF Ends(b \o c) = {} THEN 0 ELSE Min(Ends(b \o c))
    BY DEF LineEnd
  <2>4. LineEnd(b) \in Ends(b \o c)
    <3>1. LineEnd(b) \in 2..(Len(b) - 1) /\ b[LineEnd(b)] = "CR" /\ b[LineEnd(b) + 1] = "LF"
      BY <2>2
    <3> DEFINE p == LineEnd(b)
    <3>2. p \in 1..(Len(b) + Len(c)) /\ p + 1 \in 1..(Len(b) + Len(c)) /\ p <= Len(b) /\ p + 1 <= Len(b)
          /\ p \in 2..(Len(b \o c) - 1)
      BY <2>1, <3>1
    <3> HIDE DEF p
    <3>3. (b \o c)[p] = b[p] /\ (b \o c)[p + 1] = b[p + 1]
      BY <2>1, <3>2
    <3> QED BY <3>1, <3>2, <3>3 DEF p
  <2>5. ASSUME NEW y \in Ends(b \o c), y < LineEnd(b) PROVE FALSE
    <3>1. y \in 2..(Len(b \o c) - 1) /\ (b \o c)[y] = "CR" /\ (b \o c)[y + 1] = "LF"
      OBVIOUS
    <3>2. LineEnd(b) \in 2..(Len(b) - 1)
      BY <2>2
    <3>3. y \in 2..(Len(b) - 1) /\ y \in 1..(Len(b) + Len(c)) /\ y + 1 \in 1..(Len(b) + Len(c)) /\ y <= Len(b) /\ y + 1 <= Len(b)
      BY <2>1, <2>5, <3>1, <3>2
    <3>4. (b \o c)[y] = b[y] /\ (b \o c)[y + 1] = b[y + 1]
      BY <2>1, <3>3
    <3>5. y \in Ends(b)
      BY <3>1, <3>3, <3>4
    <3>6. LineEnd(b) <= y
      BY <2>2, <3>5
    <3> QED BY <2>5, <3>2, <3>3, <3>6
  <2>6. Ends(b \o c) \in SUBSET Nat
    BY <2>1
  <2>7. LineEnd(b \o c) \in Ends(b \o c) /\ \A y \in Ends(b \o c) : LineEnd(b \o c) <= y
    <3> HIDE DEF Ends
    <3> QED BY <1>2, <2>3, <2>4, <2>6
  <2>8. LineEnd(b \o c) <= LineEnd(b) /\ ~(LineEnd(b \o c) < LineEnd(b))
    <3> HIDE DEF Ends
    <3> QED BY <2>4, <2>5, <2>7
  <2>9. LineEnd(b \o c) \in Nat /\ LineEnd(b) \in Nat
    <3> HIDE DEF Ends
    <3> QED BY <2>4, <2>6, <2>7
  <2> QED BY <2>8, <2>9
<1> QED BY <1>4, <1>5

-----------------------------------------------------------------------------
(* RedisConnection: what was answered stays answered                       *)

\* A text or a null, if the value is a text; and an array of such, or a null, if it
\* is an array.
Flat(v) == v[1] \in {"status", "bulk"} => v[2] = "null" \/ v[2] \in Seq(Alphabet)
ArrayOfFlat(v) == v[1] = "array" /\ \E T : v[2] \in Seq(T) /\ \A x \in T : Flat(x)
WellShaped(v) == Flat(v) /\ (v[1] = "array" => v[2] = "null" \/ ArrayOfFlat(v))

\* What was answered, a value or a failure, does not change when more arrives; and a
\* value takes what it is made of, and no more.
Stable(f) ==
    \A b \in Seq(Alphabet) :
      /\ f[b][1] \in {"value", "more", "error"}
      /\ f[b][1] = "value" => f[b][3] \in 1..Len(b) /\ WellShaped(f[b][2])
      /\ f[b][1] \in {"value", "error"} => \A c \in Seq(Alphabet) : f[b \o c] = f[b]

\* The answer so far within an array whose header took so much.
InArray(p, b, header) ==
    /\ p[1] \in {"value", "more", "error"}
    /\ p[1] = "value" => p[3] \in header..Len(b) /\ ArrayOfFlat(p[2])

\* One more element, with more to come behind the stream.
LEMMA NextInArray ==
    ASSUME NEW inner, Stable(inner), NEW b \in Seq(Alphabet), NEW c \in Seq(Alphabet),
           NEW header \in 1..Len(b), NEW p, InArray(p, b, header)
    PROVE  /\ InArray(WithNext(p, b, inner), b, header)
           /\ WithNext(p, b, inner)[1] \in {"value", "error"} => WithNext(p, b \o c, inner) = WithNext(p, b, inner)
<1>1. CASE p[1] # "value"
  BY <1>1 DEF WithNext
<1>2. CASE p[1] = "value"
  <2>1. p[3] \in header..Len(b) /\ ArrayOfFlat(p[2]) /\ p[3] \in 0..Len(b) /\ Len(b) \in Nat
    BY <1>2, LenProperties DEF InArray
  <2> DEFINE x == From(b, p[3])
             r == inner[x]
  <2>2. x \in Seq(Alphabet) /\ Len(x) = Len(b) - p[3] /\ From(b \o c, p[3]) = x \o c
    BY <2>1, FromIs, OfMore
  <2>3. WithNext(p, b, inner) = (IF r[1] # "value" THEN r ELSE Answer("array", Append(p[2][2], r[2]), p[3] + r[3]))
    BY <1>2 DEF WithNext
  <2> HIDE DEF x
  <2>4. /\ r[1] \in {"value", "more", "error"}
        /\ r[1] = "value" => r[3] \in 1..Len(x) /\ WellShaped(r[2])
        /\ r[1] \in {"value", "error"} => inner[x \o c] = r
    BY <2>2 DEF Stable
  <2>5. WithNext(p, b \o c, inner) = (IF inner[x \o c][1] # "value" THEN inner[x \o c]
                                      ELSE Answer("array", Append(p[2][2], inner[x \o c][2]), p[3] + inner[x \o c][3]))
    BY <1>2, <2>2 DEF WithNext
  <2> HIDE DEF r
  <2>6. CASE r[1] # "value"
    BY <2>3, <2>4, <2>5, <2>6 DEF InArray
  <2>7. CASE r[1] = "value"
    <3>1. WithNext(p, b, inner) = Answer("array", Append(p[2][2], r[2]), p[3] + r[3]) /\ inner[x \o c] = r
      BY <2>3, <2>4, <2>7
    <3>2. WithNext(p, b \o c, inner) = WithNext(p, b, inner)
      BY <2>5, <2>7, <3>1
    <3>3. p[3] + r[3] \in header..Len(b)
      BY <2>1, <2>2, <2>4, <2>7
    <3>4. PICK T : p[2][2] \in Seq(T) /\ \A t \in T : Flat(t)
      BY <2>1 DEF ArrayOfFlat
    <3>5. Flat(r[2])
      BY <2>4, <2>7 DEF WellShaped
    <3>6. Append(p[2][2], r[2]) \in Seq(T \cup {r[2]})
      <4>1. p[2][2] \in Seq(T \cup {r[2]})
        BY <3>4, SeqMonotonic
      <4> QED BY <4>1, AppendProperties
    <3>7. ArrayOfFlat(<<"array", Append(p[2][2], r[2])>>)
      BY <3>4, <3>5, <3>6 DEF ArrayOfFlat
    <3> HIDE DEF x, r
    <3>8. InArray(WithNext(p, b, inner), b, header)
      BY <3>1, <3>3, <3>7 DEF InArray, Answer
    <3> QED BY <3>2, <3>8
  <2> QED BY <2>6, <2>7
<1> QED BY <1>1, <1>2 DEF InArray

\* An array is answered once and for all.
LEMMA ArrayStable ==
    ASSUME NEW inner, Stable(inner), NEW b \in Seq(Alphabet), NEW c \in Seq(Alphabet),
           NEW header \in 1..Len(b), NEW length \in Nat
    PROVE  /\ InArray(ArrayAt(b, header, length, inner), b, header)
           /\ ArrayAt(b, header, length, inner)[1] \in {"value", "error"} =>
                ArrayAt(b \o c, header, length, inner) = ArrayAt(b, header, length, inner)
<1>1. PICK e : AreElements(e, b, header, length, inner)
  BY ElementsAre
<1>2. PICK g : AreElements(g, b \o c, header, length, inner)
  BY ElementsAre
<1> DEFINE Good(i) == InArray(e[i], b, header) /\ (e[i][1] \in {"value", "error"} => g[i] = e[i])
           P == {i \in 0..length : Good(i)}
<1>3. 0 \in P
  <2>1. ArrayOfFlat(<<"array", <<>>>>)
    <3>1. <<>> \in Seq({})
      BY EmptySeq
    <3> DEFINE v == <<"array", <<>>>>
    <3>2. v[1] = "array" /\ v[2] = <<>>
      OBVIOUS
    <3> HIDE DEF v
    <3>3. \E T : v[2] \in Seq(T) /\ \A x \in T : Flat(x)
      <4> WITNESS {}
      <4> QED BY <3>1, <3>2
    <3> QED BY <3>2, <3>3 DEF ArrayOfFlat, v
  <2>2. InArray(Answer("array", <<>>, header), b, header)
    BY <2>1, LenProperties DEF InArray, Answer
  <2> QED BY <1>1, <1>2, <2>2 DEF AreElements
<1>4. ASSUME NEW k \in 0..(length - 1), k \in P PROVE k + 1 \in P
  <2>1. k + 1 \in 1..length /\ (k + 1) - 1 = k /\ k + 1 \in 0..length
    OBVIOUS
  <2>2. e[k + 1] = WithNext(e[k], b, inner) /\ g[k + 1] = WithNext(g[k], b \o c, inner)
    BY <1>1, <1>2, <2>1 DEF AreElements
  <2>3. InArray(e[k], b, header) /\ (e[k][1] \in {"value", "error"} => g[k] = e[k])
    BY <1>4
  <2>4. /\ InArray(WithNext(e[k], b, inner), b, header)
        /\ WithNext(e[k], b, inner)[1] \in {"value", "error"} => WithNext(e[k], b \o c, inner) = WithNext(e[k], b, inner)
    BY <2>3, NextInArray
  <2>5. e[k][1] = "more" => WithNext(e[k], b, inner) = e[k]
    BY DEF WithNext
  <2>6. e[k][1] \in {"value", "more", "error"}
    BY <2>3 DEF InArray
  <2>7. Good(k + 1)
    BY <2>2, <2>3, <2>4, <2>5, <2>6
  <2> HIDE DEF Good
  <2> QED BY <2>1, <2>7
<1>5. P = 0..length
  <2>1. P \in SUBSET (0..length)
    OBVIOUS
  <2> HIDE DEF P
  <2> QED BY <1>3, <1>4, <2>1, Throughout
<1>6. Good(length)
  <2>1. length \in P
    <3> HIDE DEF P
    <3> QED BY <1>5
  <2> HIDE DEF Good
  <2> QED BY <2>1
<1> QED BY <1>1, <1>2, <1>6 DEF AreElements

\* A number is one, at most as long as the reader counts.
LEMMA NumberIs ==
    ASSUME NEW text, IsNumber(text)
    PROVE  NumberOf(text) \in Int
<1>1. \A d \in DOMAIN Numerals : Numerals[d] \in Nat
  BY RedisAssumption
<1>2. CASE Len(text) = 1 /\ text[1] \in DOMAIN Numerals
  BY <1>1, <1>2 DEF NumberOf
<1>3. CASE Len(text) = 2 /\ text[1] = "-" /\ text[2] \in DOMAIN Numerals
  <2>1. Len(text) # 1 /\ Numerals[text[2]] \in Nat
    BY <1>1, <1>3
  <2> QED BY <2>1 DEF NumberOf
<1> QED BY <1>2, <1>3 DEF IsNumber

\* A string is answered once and for all.
LEMMA BulkStable ==
    ASSUME NEW b \in Seq(Alphabet), NEW c \in Seq(Alphabet), NEW header \in 1..Len(b), NEW length \in Nat
    PROVE  LET r == BulkAt(b, header, length)
           IN  /\ r[1] \in {"value", "more", "error"}
               /\ r[1] = "value" => r[3] \in 1..Len(b) /\ r[2][1] = "bulk" /\ r[2][2] \in Seq(Alphabet)
               /\ r[1] \in {"value", "error"} => BulkAt(b \o c, header, length) = r
<1> DEFINE stop == header + length
<1>1. /\ Len(b) \in Nat /\ Len(b \o c) \in Nat /\ Len(b \o c) >= Len(b) /\ header \in Nat
      /\ stop \in Nat /\ stop >= header
  BY LenProperties, ConcatProperties
<1>2. CASE Len(b) < stop + 2
  <2>1. BulkAt(b, header, length) = <<"more">>
    BY <1>2 DEF BulkAt
  <2> QED BY <2>1
<1>3. CASE ~(Len(b) < stop + 2)
  <2>1. /\ SubSeq(b \o c, stop + 1, stop + 2) = SubSeq(b, stop + 1, stop + 2)
        /\ SubSeq(b \o c, header + 1, stop) = SubSeq(b, header + 1, stop)
    <3>1. stop + 1 \in Nat \ {0} /\ stop + 2 \in Int /\ stop + 2 <= Len(b) /\ header + 1 \in Nat \ {0} /\ stop \in Int /\ stop <= Len(b)
      BY <1>1, <1>3
    <3> HIDE DEF stop
    <3> QED BY <3>1, OfMore
  <2>2. SubSeq(b, header + 1, stop) \in Seq(Alphabet)
    <3>1. stop \in Int /\ stop <= Len(b) /\ header + 1 \in Nat \ {0}
      BY <1>1, <1>3
    <3> HIDE DEF stop
    <3> QED BY <3>1, PartIs
  <2>3. ~(Len(b \o c) < stop + 2)
    BY <1>1, <1>3
  <2>4. BulkAt(b, header, length) = IF SubSeq(b, stop + 1, stop + 2) # <<"CR", "LF">> THEN <<"error">>
                                    ELSE Answer("bulk", SubSeq(b, header + 1, stop), stop + 2)
    BY <1>3 DEF BulkAt
  <2>5. BulkAt(b \o c, header, length) = BulkAt(b, header, length)
    BY <2>1, <2>3, <2>4 DEF BulkAt
  <2>6. stop + 2 \in 1..Len(b)
    BY <1>1, <1>3
  <2> HIDE DEF stop
  <2>7. CASE SubSeq(b, stop + 1, stop + 2) # <<"CR", "LF">>
    <3>1. BulkAt(b, header, length) = <<"error">>
      BY <2>4, <2>7
    <3> QED BY <2>5, <3>1
  <2>8. CASE SubSeq(b, stop + 1, stop + 2) = <<"CR", "LF">>
    <3>1. BulkAt(b, header, length) = Answer("bulk", SubSeq(b, header + 1, stop), stop + 2)
      BY <2>4, <2>8
    <3> QED BY <2>2, <2>5, <2>6, <3>1 DEF Answer
  <2> QED BY <2>7, <2>8
<1> QED BY <1>2, <1>3

\* So it is for every kind of value, if it is for the elements of the arrays.
LEMMA LevelStable ==
    ASSUME NEW inner, Stable(inner), NEW b \in Seq(Alphabet), NEW c \in Seq(Alphabet)
    PROVE  LET r == ParseWith(b, inner)
           IN  /\ r[1] \in {"value", "more", "error"}
               /\ r[1] = "value" => r[3] \in 1..Len(b) /\ WellShaped(r[2])
               /\ r[1] \in {"value", "error"} => ParseWith(b \o c, inner) = r
<1> DEFINE d == b \o c
           end == LineEnd(b)
           text == SubSeq(b, 2, end - 1)
           header == end + 1
           length == NumberOf(text)
<1>0. Len(b) \in Nat /\ Len(c) \in Nat /\ d \in Seq(Alphabet) /\ Len(d) = Len(b) + Len(c)
  BY LenProperties, ConcatProperties
<1>1. CASE b = <<>>
  <2>1. ParseWith(b, inner) = <<"more">>
    BY <1>1 DEF ParseWith
  <2> QED BY <2>1
<1>2. ASSUME b # <<>> PROVE d # <<>> /\ d[1] = b[1]
  <2>1. Len(b) >= 1
    BY <1>0, <1>2, EmptySeq
  <2>2. 1 \in 1..(Len(b) + Len(c)) /\ 1 <= Len(b)
    BY <1>0, <2>1
  <2>3. d[1] = b[1]
    BY <2>2, ConcatProperties
  <2>4. Len(d) # 0
    BY <1>0, <2>1
  <2>5. d # <<>>
    BY <2>4, EmptySeq
  <2> QED BY <2>3, <2>5
<1>3. CASE b # <<>> /\ b[1] \notin {"+", "-", ":", "$", "*"}
  <2>1. ParseWith(b, inner) = <<"error">> /\ ParseWith(d, inner) = <<"error">>
    BY <1>2, <1>3 DEF ParseWith
  <2> QED BY <2>1
<1>4. CASE b # <<>> /\ b[1] \in {"+", "-", ":", "$", "*"} /\ end = 0
  <2>1. ParseWith(b, inner) = <<"more">>
    BY <1>4 DEF ParseWith
  <2> QED BY <2>1
<1>5. CASE b # <<>> /\ b[1] \in {"+", "-", ":", "$", "*"} /\ end # 0
  <2>1. end \in 2..(Len(b) - 1) /\ LineEnd(d) = end
    BY <1>5, LineEndIs
  <2>2. header \in 1..Len(b) /\ end \in Nat
    BY <1>0, <2>1
  <2>3. text \in Seq(Alphabet) /\ SubSeq(d, 2, end - 1) = text
    <3>1. 2 \in Nat \ {0} /\ end - 1 \in Int /\ end - 1 <= Len(b)
      BY <1>0, <2>1
    <3> HIDE DEF end
    <3> QED BY <3>1, PartIs, OfMore
  <2>4. IsNumber(text) => length \in Int
    BY NumberIs
  <2> DEFINE R(s) == IF b[1] = "+" THEN Answer("status", text, header)
                     ELSE IF b[1] = "-" \/ ~IsNumber(text) THEN <<"error">>
                     ELSE IF b[1] = ":" THEN Answer("integer", length, header)
                     ELSE IF length < 0 THEN Answer(IF b[1] = "$" THEN "bulk" ELSE "array", "null", header)
                     ELSE IF b[1] = "$" THEN BulkAt(s, header, length)
                     ELSE ArrayAt(s, header, length, inner)
  <2>5. ParseWith(b, inner) = R(b)
    BY <1>5 DEF ParseWith
  <2>6. ParseWith(d, inner) = R(d)
    BY <1>2, <1>5, <2>1, <2>3 DEF ParseWith
  <2> HIDE DEF end, text, header, length, d
  <2>7. CASE b[1] = "+"
    <3>1. R(b) = Answer("status", text, header) /\ R(d) = R(b)
      BY <2>7
    <3>2. WellShaped(<<"status", text>>)
      <4> DEFINE v == <<"status", text>>
      <4>1. v[1] = "status" /\ v[2] = text
        OBVIOUS
      <4> HIDE DEF v
      <4>2. WellShaped(v)
        BY <2>3, <4>1 DEF WellShaped, Flat
      <4> QED BY <4>2 DEF v
    <3> HIDE DEF R
    <3> QED BY <2>2, <2>5, <2>6, <3>1, <3>2 DEF Answer, d
  <2>8. CASE b[1] # "+" /\ (b[1] = "-" \/ ~IsNumber(text))
    <3>1. R(b) = <<"error">> /\ R(d) = R(b)
      BY <2>8
    <3> QED BY <2>5, <2>6, <3>1 DEF d
  <2>9. CASE b[1] = ":" /\ IsNumber(text)
    <3>1. R(b) = Answer("integer", length, header) /\ R(d) = R(b)
      BY <2>9
    <3>2. WellShaped(<<"integer", length>>)
      <4> DEFINE v == <<"integer", length>>
      <4>1. v[1] = "integer"
        OBVIOUS
      <4> HIDE DEF v
      <4>2. WellShaped(v)
        BY <4>1 DEF WellShaped, Flat
      <4> QED BY <4>2 DEF v
    <3> HIDE DEF R
    <3> QED BY <2>2, <2>5, <2>6, <3>1, <3>2 DEF Answer, d
  <2>10. CASE b[1] \in {"$", "*"} /\ IsNumber(text) /\ length < 0
    <3> DEFINE kind == IF b[1] = "$" THEN "bulk" ELSE "array"
    <3>1. R(b) = Answer(kind, "null", header) /\ R(d) = R(b)
      BY <2>10
    <3>2. WellShaped(<<kind, "null">>)
      BY DEF WellShaped, Flat
    <3> HIDE DEF kind, R
    <3> QED BY <2>2, <2>5, <2>6, <3>1, <3>2 DEF Answer, d
  <2>11. CASE b[1] = "$" /\ IsNumber(text) /\ ~(length < 0)
    <3>1. R(b) = BulkAt(b, header, length) /\ R(d) = BulkAt(d, header, length) /\ length \in Nat
      BY <2>4, <2>11
    <3> DEFINE r == BulkAt(b, header, length)
    <3>2. /\ r[1] \in {"value", "more", "error"}
          /\ r[1] = "value" => r[3] \in 1..Len(b) /\ r[2][1] = "bulk" /\ r[2][2] \in Seq(Alphabet)
          /\ r[1] \in {"value", "error"} => BulkAt(d, header, length) = r
      BY <2>2, <3>1, BulkStable DEF d
    <3> HIDE DEF r
    <3>3. r[1] = "value" => WellShaped(r[2])
      BY <3>2 DEF WellShaped, Flat
    <3>4. ParseWith(b, inner) = r /\ ParseWith(d, inner) = BulkAt(d, header, length)
      BY <2>5, <2>6, <3>1 DEF r
    <3> QED BY <3>2, <3>3, <3>4 DEF d
  <2>12. CASE b[1] = "*" /\ IsNumber(text) /\ ~(length < 0)
    <3>1. R(b) = ArrayAt(b, header, length, inner) /\ R(d) = ArrayAt(d, header, length, inner) /\ length \in Nat
      BY <2>4, <2>12
    <3> DEFINE r == ArrayAt(b, header, length, inner)
    <3>2. InArray(r, b, header) /\ (r[1] \in {"value", "error"} => ArrayAt(d, header, length, inner) = r)
      BY <2>2, <3>1, ArrayStable DEF d
    <3> HIDE DEF r
    <3>3. r[1] = "value" => WellShaped(r[2]) /\ r[3] \in 1..Len(b)
      BY <2>2, <3>2 DEF WellShaped, Flat, InArray, ArrayOfFlat
    <3>4. ParseWith(b, inner) = r /\ ParseWith(d, inner) = ArrayAt(d, header, length, inner)
      BY <2>5, <2>6, <3>1 DEF r
    <3> QED BY <3>2, <3>3, <3>4 DEF d, InArray
  <2> QED BY <1>5, <2>7, <2>8, <2>9, <2>10, <2>11, <2>12
<1> QED BY <1>1, <1>3, <1>4, <1>5

\* Parse is stable at each depth: down from the deepest, where everything is refused.
LEMMA ParseStable ==
    \A depth \in 0..(MaxDepth + 1) : Stable(Parse[depth])
<1> DEFINE M == MaxDepth + 1
           P == {k \in 0..M : Stable(Parse[M - k])}
<1>0. M \in Nat /\ M = MaxDepth + 1 /\ MaxDepth \in Nat
  BY RedisAssumption
<1> HIDE DEF M
<1>1. 0 \in P
  <2>1. M - 0 \in 0..(MaxDepth + 1) /\ M - 0 > MaxDepth
    BY <1>0
  <2>2. Parse[M - 0] = [bytes \in Seq(Alphabet) |-> <<"error">>]
    BY <2>1, ParseIs DEF ParseAt
  <2>3. Stable([bytes \in Seq(Alphabet) |-> <<"error">>])
    BY ConcatProperties DEF Stable
  <2>4. Stable(Parse[M - 0])
    BY <2>2, <2>3
  <2> QED BY <1>0, <2>4
<1>2. ASSUME NEW k \in 0..(M - 1), k \in P PROVE k + 1 \in P
  <2>1. k + 1 \in 0..M /\ M - (k + 1) \in 0..(MaxDepth + 1) /\ ~(M - (k + 1) > MaxDepth) /\ M - (k + 1) + 1 = M - k
    BY <1>0
  <2> DEFINE inner == Parse[M - k]
             f == [bytes \in Seq(Alphabet) |-> ParseWith(bytes, inner)]
  <2>2. Stable(inner)
    BY <1>2
  <2>3. Parse[M - (k + 1)] = f
    BY <2>1, ParseIs DEF ParseAt
  <2> HIDE DEF inner
  <2>4. Stable(f)
    <3>1. ASSUME NEW b \in Seq(Alphabet)
          PROVE  /\ f[b][1] \in {"value", "more", "error"}
                 /\ f[b][1] = "value" => f[b][3] \in 1..Len(b) /\ WellShaped(f[b][2])
      <4>1. f[b] = ParseWith(b, inner)
        OBVIOUS
      <4>2. <<>> \in Seq(Alphabet)
        BY EmptySeq
      <4> HIDE DEF f
      <4> QED BY <2>2, <4>1, <4>2, LevelStable
    <3>2. ASSUME NEW b \in Seq(Alphabet), f[b][1] \in {"value", "error"}, NEW c \in Seq(Alphabet)
          PROVE  f[b \o c] = f[b]
      <4>1. f[b] = ParseWith(b, inner) /\ f[b \o c] = ParseWith(b \o c, inner)
        BY ConcatProperties
      <4> HIDE DEF f
      <4> QED BY <2>2, <3>2, <4>1, LevelStable
    <3> HIDE DEF f
    <3> QED BY <3>1, <3>2 DEF Stable
  <2>5. Stable(Parse[M - (k + 1)])
    BY <2>3, <2>4
  <2> QED BY <2>1, <2>5
<1>3. P = 0..M
  <2>1. P \in SUBSET (0..M)
    OBVIOUS
  <2> HIDE DEF P
  <2> QED BY <1>0, <1>1, <1>2, <2>1, Throughout
<1>4. ASSUME NEW depth \in 0..M PROVE Stable(Parse[depth])
  <2>1. M - depth \in 0..M /\ M - (M - depth) = depth
    BY <1>0
  <2>2. M - depth \in P
    <3> HIDE DEF P
    <3> QED BY <1>3, <2>1
  <2>3. Stable(Parse[M - (M - depth)])
    BY <2>2
  <2> QED BY <2>1, <2>3
<1> QED BY <1>0, <1>4

-----------------------------------------------------------------------------
(* RedisConnection: what is drained of a stream                            *)

\* What poll answers, above a table of what it answers of the shorter streams.
DrainAt(g, bytes) ==
    IF Parse[0][bytes][1] = "value"
    THEN [g[Behind(bytes, Parse[0][bytes])] EXCEPT !.payloads = PayloadOf(Parse[0][bytes][2]) \o @]
    ELSE [payloads |-> <<>>, rest |-> bytes, failed |-> Parse[0][bytes][1] = "error"]

Shorter(n) == {b \in Seq(Alphabet) : Len(b) < n}
IsDrain(g, n) == \A b \in Shorter(n) : g[b] = DrainAt(g, b)

\* What is left behind a value is shorter than what it was read from.
LEMMA BehindIsShorter ==
    ASSUME NEW b \in Seq(Alphabet), Parse[0][b][1] = "value"
    PROVE  /\ Behind(b, Parse[0][b]) \in Seq(Alphabet) /\ Len(Behind(b, Parse[0][b])) < Len(b)
           /\ Len(Behind(b, Parse[0][b])) \in Nat /\ Parse[0][b][3] \in 1..Len(b)
           /\ Behind(b, Parse[0][b]) = From(b, Parse[0][b][3])
<1>1. Stable(Parse[0])
  <2>1. 0 \in 0..(MaxDepth + 1)
    BY RedisAssumption
  <2> QED BY <2>1, ParseStable
<1>2. Parse[0][b][3] \in 1..Len(b)
  BY <1>1 DEF Stable
<1> DEFINE n == Parse[0][b][3]
<1>3. n \in 0..Len(b) /\ n >= 1 /\ Len(b) \in Nat
  BY <1>2, LenProperties
<1> HIDE DEF n
<1>4. From(b, n) \in Seq(Alphabet) /\ Len(From(b, n)) = Len(b) - n
  BY <1>3, FromIs
<1>5. Len(From(b, n)) \in Nat /\ Len(From(b, n)) < Len(b)
  BY <1>3, <1>4
<1> QED BY <1>2, <1>4, <1>5 DEF Behind, n

\* The table of a stream settles only on what is behind its first value.
LEMMA DrainAtIs ==
    ASSUME NEW g, NEW h, NEW b \in Seq(Alphabet),
           Parse[0][b][1] = "value" => g[Behind(b, Parse[0][b])] = h[Behind(b, Parse[0][b])]
    PROVE  DrainAt(g, b) = DrainAt(h, b)
  BY DEF DrainAt

\* Two tables agree wherever both are defined.
LEMMA DrainsAgree ==
    ASSUME NEW g, NEW h, NEW n \in Nat, NEW m \in Nat, IsDrain(g, n), IsDrain(h, m),
           NEW b \in Seq(Alphabet), Len(b) < n, Len(b) < m
    PROVE  g[b] = h[b]
<1> DEFINE Wrong == {k \in Nat : \E s \in Seq(Alphabet) : Len(s) = k /\ k < n /\ k < m /\ g[s] # h[s]}
<1>1. SUFFICES ASSUME Wrong # {} PROVE FALSE
  <2>1. Len(b) \in Nat
    BY LenProperties
  <2> QED BY <2>1
<1>2. PICK k \in Wrong : \A j \in Wrong : k <= j
  <2>1. Wrong \in SUBSET Nat
    OBVIOUS
  <2> HIDE DEF Wrong
  <2> QED BY <1>1, <2>1, Least
<1>3. PICK s \in Seq(Alphabet) : Len(s) = k /\ k < n /\ k < m /\ g[s] # h[s]
  OBVIOUS
<1>4. k \in Nat /\ g[s] = DrainAt(g, s) /\ h[s] = DrainAt(h, s)
  BY <1>3 DEF IsDrain, Shorter
<1>5. CASE Parse[0][s][1] = "value"
  <2> DEFINE x == Behind(s, Parse[0][s])
  <2>1. x \in Seq(Alphabet) /\ Len(x) < Len(s) /\ Len(x) \in Nat
    BY <1>5, BehindIsShorter
  <2> HIDE DEF x
  <2>2. Len(x) \notin Wrong
    <3> HIDE DEF Wrong
    <3> QED BY <1>2, <1>3, <1>4, <2>1
  <2>3. g[x] = h[x]
    BY <1>3, <1>4, <2>1, <2>2
  <2>4. DrainAt(g, s) = DrainAt(h, s)
    BY <2>3, DrainAtIs DEF x
  <2> QED BY <1>3, <1>4, <2>4
<1>6. CASE Parse[0][s][1] # "value"
  <2>1. DrainAt(g, s) = DrainAt(h, s)
    BY <1>6, DrainAtIs
  <2> QED BY <1>3, <1>4, <2>1
<1> QED BY <1>5, <1>6

\* There is a table for every length.
LEMMA DrainsExist ==
    ASSUME NEW n \in Nat
    PROVE  \E g : IsDrain(g, n)
<1> DEFINE P == {k \in 0..n : \E g : IsDrain(g, k)}
<1>1. 0 \in P
  <2>1. Shorter(0) = {}
    BY LenProperties DEF Shorter
  <2>2. IsDrain(<<>>, 0)
    BY <2>1 DEF IsDrain
  <2> QED BY <2>2
<1>2. ASSUME NEW k \in 0..(n - 1), k \in P PROVE k + 1 \in P
  <2>1. PICK g : IsDrain(g, k)
    BY <1>2
  <2> DEFINE h == [b \in Shorter(k + 1) |-> DrainAt(g, b)]
  <2>2. ASSUME NEW b \in Shorter(k + 1) PROVE h[b] = DrainAt(h, b)
    <3>1. b \in Seq(Alphabet) /\ Len(b) < k + 1 /\ Len(b) \in Nat
      BY LenProperties DEF Shorter
    <3>2. h[b] = DrainAt(g, b)
      OBVIOUS
    <3>3. CASE Parse[0][b][1] = "value"
      <4> DEFINE x == Behind(b, Parse[0][b])
      <4>1. x \in Seq(Alphabet) /\ Len(x) < Len(b) /\ Len(x) \in Nat
        BY <3>1, <3>3, BehindIsShorter
      <4> HIDE DEF x
      <4>2. x \in Shorter(k + 1) /\ x \in Shorter(k)
        BY <3>1, <4>1 DEF Shorter
      <4>3. h[x] = DrainAt(g, x) /\ g[x] = DrainAt(g, x)
        BY <2>1, <4>2 DEF IsDrain
      <4> HIDE DEF h
      <4>4. h[x] = g[x]
        BY <4>3
      <4>5. DrainAt(g, b) = DrainAt(h, b)
        BY <3>1, <4>4, DrainAtIs DEF x
      <4> QED BY <3>2, <4>5
    <3>4. CASE Parse[0][b][1] # "value"
      <4> HIDE DEF h
      <4>1. DrainAt(g, b) = DrainAt(h, b)
        BY <3>1, <3>4, DrainAtIs
      <4> QED BY <3>2, <4>1
    <3> QED BY <3>3, <3>4
  <2>3. IsDrain(h, k + 1)
    <3> HIDE DEF h
    <3> QED BY <2>2 DEF IsDrain
  <2>4. k + 1 \in 0..n
    OBVIOUS
  <2> HIDE DEF h
  <2> QED BY <2>3, <2>4
<1>3. P = 0..n
  <2>1. P \in SUBSET (0..n)
    OBVIOUS
  <2> HIDE DEF P
  <2> QED BY <1>1, <1>2, <2>1, Throughout
<1>4. n \in P
  <2> HIDE DEF P
  <2> QED BY <1>3
<1> QED BY <1>4

\* The recursion of poll has a solution.
LEMMA DrainedIs ==
    \A b \in Seq(Alphabet) : Drained[b] = DrainAt(Drained, b)
<1> DEFINE G(n) == CHOOSE g : IsDrain(g, n)
           F == [b \in Seq(Alphabet) |-> G(Len(b) + 1)[b]]
<1>1. ASSUME NEW n \in Nat PROVE IsDrain(G(n), n)
  BY DrainsExist
<1> HIDE DEF G
<1>2. ASSUME NEW b \in Seq(Alphabet) PROVE F[b] = DrainAt(F, b)
  <2>1. Len(b) \in Nat /\ Len(b) + 1 \in Nat /\ b \in Shorter(Len(b) + 1)
    BY LenProperties DEF Shorter
  <2> DEFINE g == G(Len(b) + 1)
  <2>2. IsDrain(g, Len(b) + 1)
    BY <1>1, <2>1
  <2>3. F[b] = g[b]
    OBVIOUS
  <2>4. g[b] = DrainAt(g, b)
    BY <2>1, <2>2 DEF IsDrain
  <2>5. CASE Parse[0][b][1] = "value"
    <3> DEFINE x == Behind(b, Parse[0][b])
    <3>1. x \in Seq(Alphabet) /\ Len(x) < Len(b) /\ Len(x) \in Nat
      BY <2>5, BehindIsShorter
    <3> HIDE DEF x
    <3>2. F[x] = G(Len(x) + 1)[x]
      BY <3>1
    <3> HIDE DEF F
    <3>3. IsDrain(G(Len(x) + 1), Len(x) + 1) /\ Len(x) + 1 \in Nat /\ Len(x) < Len(x) + 1 /\ Len(x) < Len(b) + 1
      BY <1>1, <2>1, <3>1
    <3> HIDE DEF g
    <3>4. g[x] = G(Len(x) + 1)[x]
      BY <2>1, <2>2, <3>1, <3>3, DrainsAgree
    <3>5. g[x] = F[x]
      BY <3>2, <3>4
    <3>6. DrainAt(g, b) = DrainAt(F, b)
      BY <3>5, DrainAtIs DEF x
    <3> QED BY <2>3, <2>4, <3>6
  <2>6. CASE Parse[0][b][1] # "value"
    <3> HIDE DEF F, g
    <3>1. DrainAt(g, b) = DrainAt(F, b)
      BY <2>6, DrainAtIs
    <3> QED BY <2>3, <2>4, <3>1
  <2> QED BY <2>5, <2>6
<1>3. F = [b \in Seq(Alphabet) |-> DrainAt(F, b)]
  <2>1. F = [b \in Seq(Alphabet) |-> F[b]]
    OBVIOUS
  <2> HIDE DEF F
  <2> QED BY <1>2, <2>1
<1>4. \E f : f = [b \in Seq(Alphabet) |-> DrainAt(f, b)]
  <2> HIDE DEF F
  <2> QED BY <1>3
<1>5. Drained = CHOOSE f : f = [b \in Seq(Alphabet) |-> DrainAt(f, b)]
  BY DEF Drained, DrainAt
<1>6. Drained = [b \in Seq(Alphabet) |-> DrainAt(Drained, b)]
  BY <1>4, <1>5
<1>7. ASSUME NEW b \in Seq(Alphabet) PROVE Drained[b] = DrainAt(Drained, b)
  <2> DEFINE f == [s \in Seq(Alphabet) |-> DrainAt(Drained, s)]
  <2>1. f[b] = DrainAt(Drained, b) /\ Drained = f
    BY <1>6
  <2> HIDE DEF f
  <2> QED BY <2>1
<1> QED BY <1>7

\* What is drained of a stream.
DrainResult == [payloads : Seq(Seq(Alphabet)), rest : Seq(Alphabet), failed : BOOLEAN]

\* What parse answers at the outermost level stays answered when more arrives.
LEMMA ParseAnswers == Stable(Parse[0])
<1>1. 0 \in 0..(MaxDepth + 1)
  BY RedisAssumption
<1> QED BY <1>1, ParseStable

\* The payload of a value is none or a text.
LEMMA PayloadIs ==
    ASSUME NEW v, WellShaped(v)
    PROVE  PayloadOf(v) \in Seq(Seq(Alphabet))
<1> DEFINE last == v[2][3]
           Told == /\ v[1] = "array" /\ v[2] # "null" /\ Len(v[2]) >= 3
                   /\ v[2][1] \in {<<"bulk", <<"message">>>>, <<"status", <<"message">>>>}
                   /\ v[2][2] \in {<<"bulk", Channel>>, <<"status", Channel>>}
                   /\ last[1] \in {"bulk", "status"} /\ last[2] # "null"
<1>1. PayloadOf(v) = IF Told THEN <<last[2]>> ELSE <<>>
  BY DEF PayloadOf
<1>2. CASE Told
  <2>1. PICK T : v[2] \in Seq(T) /\ \A x \in T : Flat(x)
    BY <1>2 DEF WellShaped, ArrayOfFlat
  <2>2. 3 \in 1..Len(v[2])
    BY <1>2, <2>1, LenProperties
  <2>3. last \in T
    BY <2>1, <2>2, ElementOfSeq
  <2>4. last[2] \in Seq(Alphabet)
    BY <1>2, <2>1, <2>3 DEF Flat
  <2> HIDE DEF last
  <2>5. <<last[2]>> \in Seq(Seq(Alphabet))
    BY <2>4
  <2> QED BY <1>1, <1>2, <2>5 DEF Told
<1>3. CASE ~Told
  <2>1. <<>> \in Seq(Seq(Alphabet))
    BY EmptySeq
  <2> HIDE DEF Told
  <2> QED BY <1>1, <1>3, <2>1
<1> QED BY <1>2, <1>3

\* What is drained of a stream whose first value is at its beginning.
LEMMA DrainedStep ==
    ASSUME NEW b \in Seq(Alphabet), Parse[0][b][1] = "value",
           Drained[Behind(b, Parse[0][b])] \in DrainResult
    PROVE  /\ Drained[b] \in DrainResult
           /\ Drained[b].payloads = PayloadOf(Parse[0][b][2]) \o Drained[Behind(b, Parse[0][b])].payloads
           /\ Drained[b].rest = Drained[Behind(b, Parse[0][b])].rest
           /\ Drained[b].failed = Drained[Behind(b, Parse[0][b])].failed
<1> DEFINE p == PayloadOf(Parse[0][b][2])
           a == Drained[Behind(b, Parse[0][b])]
<1>1. Drained[b] = [a EXCEPT !.payloads = p \o @]
  BY DrainedIs DEF DrainAt
<1>2. p \in Seq(Seq(Alphabet))
  <2>1. WellShaped(Parse[0][b][2])
    BY ParseAnswers DEF Stable
  <2> HIDE DEF p
  <2> QED BY <2>1, PayloadIs DEF p
<1>3. a \in DrainResult
  OBVIOUS
<1> HIDE DEF a, p
<1>4. p \o a.payloads \in Seq(Seq(Alphabet))
  <2>1. a.payloads \in Seq(Seq(Alphabet))
    BY <1>3 DEF DrainResult
  <2> QED BY <1>2, <2>1, ConcatProperties
<1>5. /\ Drained[b] \in DrainResult /\ Drained[b].payloads = p \o a.payloads
      /\ Drained[b].rest = a.rest /\ Drained[b].failed = a.failed
  BY <1>1, <1>3, <1>4 DEF DrainResult
<1> QED BY <1>5 DEF a, p

\* What is drained of a stream that begins with no value.
LEMMA DrainedEnd ==
    ASSUME NEW b \in Seq(Alphabet), Parse[0][b][1] # "value"
    PROVE  /\ Drained[b] \in DrainResult /\ Drained[b].payloads = <<>>
           /\ Drained[b].rest = b /\ Drained[b].failed = (Parse[0][b][1] = "error")
<1>1. Drained[b] = [payloads |-> <<>>, rest |-> b, failed |-> Parse[0][b][1] = "error"]
  BY DrainedIs DEF DrainAt
<1>2. <<>> \in Seq(Seq(Alphabet))
  BY EmptySeq
<1> QED BY <1>1, <1>2 DEF DrainResult

\* The drained is of its kind; what is left begins with no value.
LEMMA DrainedTypes ==
    \A b \in Seq(Alphabet) :
      Drained[b] \in DrainResult /\ (~Drained[b].failed => Parse[0][Drained[b].rest][1] = "more")
<1> DEFINE Good(b) == Drained[b] \in DrainResult /\ (~Drained[b].failed => Parse[0][Drained[b].rest][1] = "more")
           Wrong == {k \in Nat : \E b \in Seq(Alphabet) : Len(b) = k /\ ~Good(b)}
<1>1. SUFFICES ASSUME Wrong # {} PROVE FALSE
  <2>1. \A b \in Seq(Alphabet) : Len(b) \in Nat
    BY LenProperties
  <2> HIDE DEF Good
  <2>2. \A b \in Seq(Alphabet) : Good(b)
    BY <2>1
  <2> QED BY <2>2 DEF Good
<1>2. PICK k \in Wrong : \A j \in Wrong : k <= j
  <2>1. Wrong \in SUBSET Nat
    OBVIOUS
  <2> HIDE DEF Wrong
  <2> QED BY <1>1, <2>1, Least
<1> HIDE DEF Good
<1>3. PICK b \in Seq(Alphabet) : Len(b) = k /\ ~Good(b)
  OBVIOUS
<1>4. CASE Parse[0][b][1] = "value"
  <2> DEFINE x == Behind(b, Parse[0][b])
  <2>1. x \in Seq(Alphabet) /\ Len(x) < Len(b) /\ Len(x) \in Nat
    BY <1>4, BehindIsShorter
  <2> HIDE DEF x
  <2>2. Len(x) \notin Wrong /\ k \in Nat
    <3>1. k \in Nat
      OBVIOUS
    <3> HIDE DEF Wrong
    <3> QED BY <1>2, <1>3, <2>1, <3>1
  <2>3. Good(x)
    BY <2>1, <2>2
  <2>4. Good(b)
    BY <1>4, <2>3, DrainedStep DEF Good, x
  <2> QED BY <1>3, <2>4
<1>5. CASE Parse[0][b][1] # "value"
  <2>1. Parse[0][b][1] \in {"more", "error"}
    BY <1>5, ParseAnswers DEF Stable
  <2>2. Good(b)
    BY <1>5, <2>1, DrainedEnd DEF Good
  <2> QED BY <1>3, <2>2
<1> QED BY <1>4, <1>5

\* Read in two, a stream gives what it gives at once.
Resumes(b, c) ==
    Drained[b \o c].payloads =
      IF Drained[b].failed THEN Drained[b].payloads
      ELSE Drained[b].payloads \o Drained[Drained[b].rest \o c].payloads

\* Every stream may be drained in two reads; otherwise a shortest one could not.
LEMMA DrainResumes ==
    \A b, c \in Seq(Alphabet) : Resumes(b, c)
<1> DEFINE Wrong == {k \in Nat : \E b, c \in Seq(Alphabet) : Len(b) = k /\ ~Resumes(b, c)}
<1>1. SUFFICES ASSUME Wrong # {} PROVE FALSE
  <2>1. \A b \in Seq(Alphabet) : Len(b) \in Nat
    BY LenProperties
  <2> QED BY <2>1
<1>2. PICK k \in Wrong : \A j \in Wrong : k <= j
  <2>1. Wrong \in SUBSET Nat
    OBVIOUS
  <2> HIDE DEF Wrong
  <2> QED BY <1>1, <2>1, Least
<1>3. PICK b \in Seq(Alphabet), c \in Seq(Alphabet) : Len(b) = k /\ ~Resumes(b, c)
  OBVIOUS
<1>4. b \o c \in Seq(Alphabet) /\ Len(b) \in Nat
  BY ConcatProperties, LenProperties
<1>5. CASE Parse[0][b][1] = "value"
  <2> DEFINE n == Parse[0][b][3]
             x == From(b, n)
             v == Parse[0][b][2]
  <2>1. x \in Seq(Alphabet) /\ Len(x) < Len(b) /\ Len(x) \in Nat /\ n \in 1..Len(b) /\ x = Behind(b, Parse[0][b])
    BY <1>5, BehindIsShorter
  <2>2. Parse[0][b \o c] = Parse[0][b]
    BY <1>5, ParseAnswers DEF Stable
  <2>3. Behind(b \o c, Parse[0][b \o c]) = x \o c
    <3>1. n \in 0..Len(b)
      BY <2>1
    <3> HIDE DEF n
    <3>2. From(b \o c, n) = From(b, n) \o c
      BY <3>1, OfMore
    <3> QED BY <2>2, <3>2 DEF Behind, n
  <2> HIDE DEF x, n
  <2>4. Len(x) \notin Wrong
    <3>1. k \in Nat
      OBVIOUS
    <3> HIDE DEF Wrong
    <3> QED BY <1>2, <1>3, <2>1, <3>1
  <2>5. Resumes(x, c)
    BY <2>1, <2>4
  <2>6. x \o c \in Seq(Alphabet) /\ Drained[x] \in DrainResult /\ Drained[x \o c] \in DrainResult
    <3>1. x \o c \in Seq(Alphabet)
      BY <2>1, ConcatProperties
    <3> QED BY <2>1, <3>1, DrainedTypes
  <2>7. /\ Drained[b].payloads = PayloadOf(v) \o Drained[x].payloads
        /\ Drained[b].rest = Drained[x].rest /\ Drained[b].failed = Drained[x].failed
    BY <1>5, <2>1, <2>6, DrainedStep
  <2>8. Drained[b \o c].payloads = PayloadOf(v) \o Drained[x \o c].payloads
    <3> DEFINE d == b \o c
    <3>1. d \in Seq(Alphabet) /\ Parse[0][d][1] = "value" /\ Behind(d, Parse[0][d]) = x \o c /\ Parse[0][d][2] = v
      BY <1>4, <1>5, <2>2, <2>3
    <3> HIDE DEF d, v
    <3>2. Drained[d].payloads = PayloadOf(v) \o Drained[x \o c].payloads
      BY <2>6, <3>1, DrainedStep
    <3> QED BY <3>2 DEF d
  <2>9. CASE Drained[b].failed
    BY <1>3, <2>5, <2>7, <2>8, <2>9 DEF Resumes
  <2>10. CASE ~Drained[b].failed
    <3>1. PICK p \in Seq(Seq(Alphabet)) : p = PayloadOf(v)
      <4>1. WellShaped(v)
        BY <1>5, ParseAnswers DEF Stable
      <4> HIDE DEF v
      <4> QED BY <4>1, PayloadIs
    <3>2. PICK q \in Seq(Seq(Alphabet)) : q = Drained[x].payloads
      BY <2>6 DEF DrainResult
    <3>3. PICK r \in Seq(Seq(Alphabet)) : r = Drained[Drained[x].rest \o c].payloads
      <4>1. Drained[x].rest \in Seq(Alphabet)
        BY <2>6 DEF DrainResult
      <4>2. Drained[x].rest \o c \in Seq(Alphabet)
        BY <4>1, ConcatProperties
      <4>3. Drained[Drained[x].rest \o c] \in DrainResult
        BY <4>2, DrainedTypes
      <4> QED BY <4>3 DEF DrainResult
    <3>4. Drained[x \o c].payloads = q \o r
      BY <2>5, <2>7, <2>10, <3>2, <3>3 DEF Resumes
    <3>5. p \o (q \o r) = (p \o q) \o r
      <4> HIDE DEF Wrong, v
      <4> QED BY ConcatAssociative, SMTT(60)
    <3>6. Drained[b \o c].payloads = p \o (q \o r) /\ Drained[b].payloads = p \o q
      BY <2>7, <2>8, <3>1, <3>2, <3>4
    <3>7. Drained[Drained[b].rest \o c].payloads = r
      BY <2>7, <3>3
    <3> QED BY <1>3, <2>10, <3>5, <3>6, <3>7 DEF Resumes
  <2> QED BY <2>9, <2>10
<1>6. CASE Parse[0][b][1] # "value"
  <2>1. /\ Drained[b].payloads = <<>> /\ Drained[b].rest = b /\ Drained[b].failed = (Parse[0][b][1] = "error")
    BY <1>6, DrainedEnd
  <2>2. CASE Parse[0][b][1] = "error"
    <3>1. Parse[0][b \o c] = Parse[0][b]
      BY <2>2, ParseAnswers DEF Stable
    <3> DEFINE d == b \o c
    <3>2. Parse[0][d][1] # "value" /\ d \in Seq(Alphabet)
      BY <1>4, <2>2, <3>1
    <3> HIDE DEF d
    <3>3. Drained[d].payloads = <<>>
      BY <3>2, DrainedEnd
    <3> QED BY <1>3, <2>1, <2>2, <3>3 DEF Resumes, d
  <2>3. CASE Parse[0][b][1] # "error"
    <3> DEFINE q == Drained[b \o c].payloads
    <3>1. q \in Seq(Seq(Alphabet))
      BY <1>4, DrainedTypes DEF DrainResult
    <3> HIDE DEF q
    <3>2. <<>> \o q = q
      BY <3>1, ConcatEmptySeq
    <3> QED BY <1>3, <2>1, <2>3, <3>2 DEF Resumes, q
  <2> QED BY <2>2, <2>3
<1> QED BY <1>5, <1>6

\* Joining is associative, for symbols and for texts.
LEMMA SymbolsJoin ==
    \A p, q, r \in Seq(Alphabet) : (p \o q) \o r = p \o (q \o r)
  BY ConcatAssociative

\* What a stream gives is a sequence of texts.
LEMMA PayloadsAre ==
    ASSUME NEW b \in Seq(Alphabet)
    PROVE  PayloadsIn(b) \in Seq(Seq(Alphabet))
  BY DrainedTypes DEF PayloadsIn, DrainResult

\* What was pending and what is under way give, with anything that may still come, what
\* is drained of the first n symbols, and then the rest of them.
ReadsOn(pend, wire, n, more, d) ==
    PayloadsIn((pend \o wire) \o more) =
      IF d.failed THEN d.payloads ELSE d.payloads \o PayloadsIn((d.rest \o From(wire, n)) \o more)

\* The read of a tick hands over what the stream has up to there, and loses nothing behind it.
LEMMA ReadOn ==
    ASSUME NEW pend \in Seq(Alphabet), NEW wire \in Seq(Alphabet), NEW n \in 0..Len(wire), NEW more \in Seq(Alphabet)
    PROVE  ReadsOn(pend, wire, n, more, Drained[pend \o SubSeq(wire, 1, n)])
<1> DEFINE d == Drained[pend \o SubSeq(wire, 1, n)]
<1> HIDE DEF d
<1>1. PICK x \in Seq(Alphabet) : x = SubSeq(wire, 1, n)
  BY InTwo
<1>2. PICK y \in Seq(Alphabet) : y = From(wire, n)
  BY FromIs
<1>3. wire = x \o y
  BY <1>1, <1>2, InTwo
<1>4. PICK b \in Seq(Alphabet) : b = pend \o x
  BY ConcatProperties
<1>5. PICK c \in Seq(Alphabet) : c = y \o more
  BY ConcatProperties
<1>6. (pend \o wire) \o more = b \o c
  <2>1. (pend \o x) \o y = pend \o (x \o y)
    <3>1. pend \in Seq(Alphabet) /\ x \in Seq(Alphabet) /\ y \in Seq(Alphabet)
      OBVIOUS
    <3>2. \A r \in Seq(Alphabet) : (pend \o x) \o r = pend \o (x \o r)
      BY SymbolsJoin
    <3> QED BY <3>1, <3>2
  <2>2. (b \o y) \o more = b \o (y \o more)
    BY SymbolsJoin
  <2> QED BY <1>3, <1>4, <1>5, <2>1, <2>2
<1>7. d = Drained[b] /\ d \in DrainResult
  BY <1>1, <1>4, DrainedTypes DEF d
<1>8. PICK r \in Seq(Alphabet) : r = d.rest
  BY <1>7 DEF DrainResult
<1>9. (r \o y) \o more = r \o c
  <2>1. (r \o y) \o more = r \o (y \o more)
    BY SymbolsJoin
  <2> QED BY <1>5, <2>1
<1>10. Resumes(b, c)
  BY DrainResumes
<1> QED BY <1>2, <1>6, <1>7, <1>8, <1>9, <1>10 DEF ReadsOn, Resumes, PayloadsIn, d

\* A sequence begins whatever is longer by something.
LEMMA BeginsThat ==
    ASSUME NEW S, NEW p \in Seq(S), NEW q \in Seq(S)
    PROVE  IsPrefix(p, p \o q)
<1>1. Len(p) \in Nat /\ Len(p \o q) = Len(p) + Len(q) /\ Len(q) \in Nat /\ p \o q \in Seq(S)
  BY LenProperties, ConcatProperties
<1>2. SubSeq(p \o q, 1, Len(p)) = SubSeq(p, 1, Len(p))
  BY <1>1, OfMore
<1> QED BY <1>1, <1>2 DEF IsPrefix

\* The texts handed over, and what is pending and under way, make what was written.
Agrees(c, stream, given) ==
    /\ Parse[0][c.pending][1] = "more"
    /\ \A more \in Seq(Alphabet) : given \o PayloadsIn((c.pending \o c.wire) \o more) = PayloadsIn(stream \o more)

Connections == [state : {"none", "open", "cut"}, wire : Seq(Alphabet), pending : Seq(Alphabet)]

\* So the texts handed over begin those of the stream, and make all of them with what
\* is pending and under way.
LEMMA AgreesNow ==
    ASSUME NEW c \in Connections, NEW stream \in Seq(Alphabet), NEW given \in Seq(Seq(Alphabet)), Agrees(c, stream, given)
    PROVE  /\ given \o PayloadsIn(c.pending \o c.wire) = PayloadsIn(stream)
           /\ IsPrefix(given, PayloadsIn(stream))
<1>1. PICK b \in Seq(Alphabet) : b = c.pending \o c.wire
  BY ConcatProperties DEF Connections
<1>2. <<>> \in Seq(Alphabet) /\ b \o <<>> = b /\ stream \o <<>> = stream
  BY EmptySeq, ConcatEmptySeq
<1>3. given \o PayloadsIn(b) = PayloadsIn(stream)
  <2>1. given \o PayloadsIn(b \o <<>>) = PayloadsIn(stream \o <<>>)
    BY <1>1, <1>2 DEF Agrees
  <2> QED BY <1>2, <2>1
<1>4. IsPrefix(given, given \o PayloadsIn(b))
  BY PayloadsAre, BeginsThat
<1> QED BY <1>1, <1>3, <1>4

\* A tick hands over what is drained, and keeps the rest.
LEMMA PumpAgrees ==
    ASSUME NEW c \in Connections, NEW stream \in Seq(Alphabet), NEW given \in Seq(Seq(Alphabet)), Agrees(c, stream, given),
           NEW n \in 0..Len(c.wire), NEW d, d = Drained[c.pending \o SubSeq(c.wire, 1, n)], NEW e,
           e.wire = From(c.wire, n), e.pending = d.rest
    PROVE  /\ given \o d.payloads \in Seq(Seq(Alphabet)) /\ d.rest \in Seq(Alphabet) /\ From(c.wire, n) \in Seq(Alphabet)
           /\ IsPrefix(given \o d.payloads, PayloadsIn(stream))
           /\ ~d.failed => Agrees(e, stream, given \o d.payloads)
<1>1. PICK pend \in Seq(Alphabet), wire \in Seq(Alphabet) : pend = c.pending /\ wire = c.wire
  BY DEF Connections
<1>2. d \in DrainResult /\ (~d.failed => Parse[0][d.rest][1] = "more")
  <2>1. pend \o SubSeq(wire, 1, n) \in Seq(Alphabet)
    <3>1. SubSeq(wire, 1, n) \in Seq(Alphabet)
      BY <1>1, InTwo
    <3> QED BY <3>1, ConcatProperties
  <2> QED BY <1>1, <2>1, DrainedTypes
<1>3. PICK p \in Seq(Seq(Alphabet)) : p = d.payloads
  BY <1>2 DEF DrainResult
<1>4. PICK r \in Seq(Alphabet) : r = d.rest
  BY <1>2 DEF DrainResult
<1>5. PICK y \in Seq(Alphabet) : y = From(wire, n)
  BY <1>1, FromIs
<1>6. given \o p \in Seq(Seq(Alphabet))
  BY ConcatProperties
<1>7. ASSUME NEW more \in Seq(Alphabet)
      PROVE  PayloadsIn(stream \o more) = given \o (IF d.failed THEN p ELSE p \o PayloadsIn((r \o y) \o more))
  <2>1. PayloadsIn((pend \o wire) \o more) = IF d.failed THEN p ELSE p \o PayloadsIn((r \o y) \o more)
    <3>1. n \in 0..Len(wire) /\ d = Drained[pend \o SubSeq(wire, 1, n)]
      BY <1>1
    <3>2. ReadsOn(pend, wire, n, more, d)
      BY <3>1, ReadOn
    <3> QED BY <1>3, <1>4, <1>5, <3>2 DEF ReadsOn
  <2>2. given \o PayloadsIn((pend \o wire) \o more) = PayloadsIn(stream \o more)
    BY <1>1 DEF Agrees
  <2> QED BY <2>1, <2>2
<1>8. ASSUME NEW more \in Seq(Alphabet)
      PROVE  /\ PayloadsIn((r \o y) \o more) \in Seq(Seq(Alphabet))
             /\ given \o (p \o PayloadsIn((r \o y) \o more)) = (given \o p) \o PayloadsIn((r \o y) \o more)
  <2>1. PICK z \in Seq(Alphabet) : z = (r \o y) \o more
    BY ConcatProperties
  <2>2. PICK q \in Seq(Seq(Alphabet)) : q = PayloadsIn(z)
    BY PayloadsAre
  <2>3. given \o (p \o q) = (given \o p) \o q
    BY ConcatAssociative, SMTT(60)
  <2> QED BY <2>1, <2>2, <2>3
<1>9. IsPrefix(given \o p, PayloadsIn(stream))
  <2>1. <<>> \in Seq(Alphabet) /\ stream \o <<>> = stream
    BY EmptySeq, ConcatEmptySeq
  <2>2. CASE d.failed
    <3>1. PayloadsIn(stream) = given \o p
      <4>1. PayloadsIn(stream \o <<>>) = given \o p
        BY <1>7, <2>1, <2>2
      <4> QED BY <2>1, <4>1
    <3>2. IsPrefix(given \o p, (given \o p) \o <<>>)
      <4>1. <<>> \in Seq(Seq(Alphabet))
        BY EmptySeq
      <4> QED BY <1>6, <4>1, BeginsThat
    <3>3. (given \o p) \o <<>> = given \o p
      BY <1>6, ConcatEmptySeq
    <3> QED BY <3>1, <3>2, <3>3
  <2>3. CASE ~d.failed
    <3>1. PICK q \in Seq(Seq(Alphabet)) : q = PayloadsIn((r \o y) \o <<>>)
      BY <1>8, <2>1
    <3>2. PayloadsIn(stream) = (given \o p) \o q
      <4>1. PayloadsIn(stream \o <<>>) = (given \o p) \o q
        BY <1>7, <1>8, <2>1, <2>3, <3>1
      <4> QED BY <2>1, <4>1
    <3>3. IsPrefix(given \o p, (given \o p) \o q)
      BY <1>6, BeginsThat
    <3> QED BY <3>2, <3>3
  <2> QED BY <2>2, <2>3
<1>10. ASSUME ~d.failed PROVE Agrees(e, stream, given \o p)
  <2>1. e.wire = y /\ e.pending = r
    BY <1>1, <1>4, <1>5
  <2>2. Parse[0][r][1] = "more"
    BY <1>2, <1>4, <1>10
  <2>3. \A more \in Seq(Alphabet) : (given \o p) \o PayloadsIn((r \o y) \o more) = PayloadsIn(stream \o more)
    BY <1>7, <1>8, <1>10
  <2> QED BY <2>1, <2>2, <2>3 DEF Agrees
<1> QED BY <1>1, <1>3, <1>4, <1>5, <1>6, <1>9, <1>10

\* What is written goes behind what is under way.
LEMMA WrittenAgrees ==
    ASSUME NEW c \in Connections, NEW stream \in Seq(Alphabet), NEW given, Agrees(c, stream, given),
           NEW bytes \in Seq(Alphabet), NEW e, e.wire = c.wire \o bytes, e.pending = c.pending
    PROVE  /\ Agrees(e, stream \o bytes, given) /\ stream \o bytes \in Seq(Alphabet)
           /\ c.wire \o bytes \in Seq(Alphabet)
<1>1. PICK pend \in Seq(Alphabet), wire \in Seq(Alphabet) : pend = c.pending /\ wire = c.wire
  BY DEF Connections
<1>2. ASSUME NEW more \in Seq(Alphabet)
      PROVE  given \o PayloadsIn((pend \o (wire \o bytes)) \o more) = PayloadsIn((stream \o bytes) \o more)
  <2>1. PICK z \in Seq(Alphabet) : z = bytes \o more
    BY ConcatProperties
  <2>2. (stream \o bytes) \o more = stream \o z
    <3>1. (stream \o bytes) \o more = stream \o (bytes \o more)
      BY SymbolsJoin
    <3> QED BY <2>1, <3>1
  <2>3. (pend \o (wire \o bytes)) \o more = (pend \o wire) \o z
    <3>1. PICK b \in Seq(Alphabet) : b = pend \o wire
      BY ConcatProperties
    <3>2. pend \o (wire \o bytes) = (pend \o wire) \o bytes
      BY SymbolsJoin
    <3>3. (b \o bytes) \o more = b \o (bytes \o more)
      BY SymbolsJoin
    <3> QED BY <2>1, <3>1, <3>2, <3>3
  <2>4. given \o PayloadsIn((pend \o wire) \o z) = PayloadsIn(stream \o z)
    BY <1>1 DEF Agrees
  <2> QED BY <2>2, <2>3, <2>4
<1>3. Parse[0][pend][1] = "more"
  BY <1>1 DEF Agrees
<1>4. stream \o bytes \in Seq(Alphabet) /\ wire \o bytes \in Seq(Alphabet)
  BY ConcatProperties
<1> QED BY <1>1, <1>2, <1>3, <1>4 DEF Agrees

\* Nothing is answered for an empty stream.
LEMMA NothingYet == Parse[0][<<>>][1] = "more" /\ <<>> \in Seq(Alphabet)
<1>1. <<>> \in Seq(Alphabet) /\ 0 \in 0..(MaxDepth + 1) /\ ~(0 > MaxDepth)
  BY RedisAssumption, EmptySeq
<1>2. Parse[0] = [bytes \in Seq(Alphabet) |-> ParseWith(bytes, Parse[0 + 1])]
  BY <1>1, ParseIs DEF ParseAt
<1>3. Parse[0][<<>>] = ParseWith(<<>>, Parse[0 + 1])
  BY <1>1, <1>2
<1>4. ParseWith(<<>>, Parse[0 + 1]) = <<"more">>
  BY DEF ParseWith
<1> QED BY <1>1, <1>3, <1>4

\* A new subscription has handed over nothing, and nothing was written on it.
LEMMA FreshAgrees ==
    ASSUME NEW c, c.wire = <<>>, c.pending = <<>>
    PROVE  Agrees(c, <<>>, <<>>)
<1>1. ASSUME NEW more \in Seq(Alphabet) PROVE <<>> \o PayloadsIn((<<>> \o <<>>) \o more) = PayloadsIn(<<>> \o more)
  <2>1. <<>> \o <<>> = <<>> /\ <<>> \o more = more
    BY NothingYet, ConcatEmptySeq
  <2>2. PICK q \in Seq(Seq(Alphabet)) : q = PayloadsIn(more)
    BY PayloadsAre
  <2>3. <<>> \o q = q
    BY ConcatEmptySeq
  <2> QED BY <2>1, <2>2, <2>3
<1> QED BY <1>1, NothingYet DEF Agrees

\* The numerals are there for what Redis counts.
LEMMA DigitIs ==
    ASSUME NEW n, n \in {0, 1, 2, 3, Len(Channel)} \cup {Len(p) : p \in Payloads}
    PROVE  DigitOf(n) \in DOMAIN Numerals /\ Numerals[DigitOf(n)] = n /\ DigitOf(n) \in Alphabet
<1>1. \E d \in DOMAIN Numerals : Numerals[d] = n
  BY RedisAssumption
<1>2. DigitOf(n) \in DOMAIN Numerals /\ Numerals[DigitOf(n)] = n
  BY <1>1 DEF DigitOf
<1>3. DOMAIN Numerals \subseteq Alphabet
  BY RedisAssumption
<1> QED BY <1>2, <1>3

\* The outermost level of parse.
LEMMA ParseFirst ==
    ASSUME NEW b \in Seq(Alphabet)
    PROVE  Parse[0][b] = ParseWith(b, Parse[1])
<1>1. 0 \in 0..(MaxDepth + 1) /\ ~(0 > MaxDepth) /\ 0 + 1 = 1
  BY RedisAssumption
<1>2. Parse[0] = [bytes \in Seq(Alphabet) |-> ParseWith(bytes, Parse[1])]
  BY <1>1, ParseIs DEF ParseAt
<1> QED BY <1>2

\* A count is answered once it is whole, and then nothing of it is left.
LEMMA CountAnswered ==
    ASSUME NEW k \in 0..2, NEW n \in 0..4
    PROVE  /\ CountOf(k) \in Seq(Alphabet) /\ Len(CountOf(k)) = 4
           /\ n < 4 => Parse[0][SubSeq(CountOf(k), 1, n)][1] # "value"
           /\ n = 4 => Parse[0][SubSeq(CountOf(k), 1, n)] = Answer("integer", k, 4)
<1>1. PICK d \in Alphabet : d = DigitOf(k) /\ d \in DOMAIN Numerals /\ Numerals[d] = k
  BY DigitIs
<1>2. {":", "CR", "LF"} \subseteq Alphabet
  BY RedisAssumption
<1>3. PICK q \in Seq(Alphabet) : q = CountOf(k)
  <2>1. CountOf(k) = <<":", d, "CR", "LF">>
    BY <1>1 DEF CountOf
  <2>2. <<":", d, "CR", "LF">> \in Seq(Alphabet)
    BY <1>2
  <2> QED BY <2>1, <2>2
<1>4. Len(q) = 4 /\ q[1] = ":" /\ q[2] = d /\ q[3] = "CR" /\ q[4] = "LF"
  BY <1>1, <1>3 DEF CountOf
<1>5. PICK s \in Seq(Alphabet) : s = SubSeq(q, 1, n)
  BY <1>4, InTwo
<1>6. Len(s) = n /\ \A i \in 1..n : s[i] = q[i]
  <2>1. 1 \in Nat \ {0} /\ n \in Int /\ n <= Len(q)
    BY <1>4
  <2>2. /\ Len(SubSeq(q, 1, n)) = IF 1 <= n THEN n - 1 + 1 ELSE 0
        /\ \A i \in 1..(n - 1 + 1) : SubSeq(q, 1, n)[i] = q[1 + i - 1]
    BY <2>1, PartIs
  <2>3. (IF 1 <= n THEN n - 1 + 1 ELSE 0) = n /\ n - 1 + 1 = n /\ \A i \in 1..n : 1 + i - 1 = i
    OBVIOUS
  <2> QED BY <1>5, <2>2, <2>3
<1>7. Parse[0][s] = ParseWith(s, Parse[1])
  BY ParseFirst
<1>8. ASSUME n < 4 PROVE Parse[0][s][1] # "value"
  <2>1. CASE n = 0
    <3>1. s = <<>>
      BY <1>6, <2>1, EmptySeq
    <3> QED BY <3>1, NothingYet
  <2>2. CASE n # 0
    <3>1. s # <<>>
      BY <1>6, <2>2, EmptySeq
    <3>2. s[1] = ":"
      BY <1>4, <1>6, <2>2
    <3>3. LineEnd(s) = 0
      <4>1. ASSUME NEW p \in 2..(n - 1) PROVE ~(s[p] = "CR" /\ s[p + 1] = "LF")
        <5>1. p = 2 /\ n = 3
          BY <1>8
        <5>2. s[p + 1] = "CR"
          BY <1>4, <1>6, <5>1
        <5> QED BY <5>2
      <4>2. {p \in 2..(Len(s) - 1) : s[p] = "CR" /\ s[p + 1] = "LF"} = {}
        BY <1>6, <4>1
      <4> QED BY <4>2 DEF LineEnd
    <3>4. ParseWith(s, Parse[1]) = <<"more">>
      BY <3>1, <3>2, <3>3 DEF ParseWith
    <3> QED BY <1>7, <3>4
  <2> QED BY <2>1, <2>2
<1>9. ASSUME n = 4 PROVE Parse[0][s] = Answer("integer", k, 4)
  <2>1. /\ Len(s) = 4 /\ s[1] = ":" /\ s[2] = d /\ s[3] = "CR" /\ s[4] = "LF" /\ s # <<>>
    BY <1>4, <1>6, <1>9, EmptySeq
  <2>2. LineEnd(s) = 3
    <3> DEFINE E == {p \in 2..(Len(s) - 1) : s[p] = "CR" /\ s[p + 1] = "LF"}
    <3>1. 3 \in E
      BY <2>1
    <3>2. ASSUME NEW p \in E PROVE p = 3
      <4>1. p \in {2, 3} /\ s[p + 1] = "LF"
        BY <2>1
      <4> QED BY <2>1, <4>1
    <3> HIDE DEF E
    <3>3. Min(E) = 3
      BY <3>1, <3>2 DEF Min
    <3> QED BY <3>1, <3>3 DEF E, LineEnd
  <2>3. PICK text : text = SubSeq(s, 2, 3 - 1)
    OBVIOUS
  <2>4. Len(text) = 1 /\ text[1] = d
    <3>1. 2 \in Nat \ {0} /\ 3 - 1 \in Int /\ 3 - 1 <= Len(s)
      BY <2>1
    <3>2. /\ Len(text) = IF 2 <= 3 - 1 THEN (3 - 1) - 2 + 1 ELSE 0
          /\ \A i \in 1..((3 - 1) - 2 + 1) : text[i] = s[2 + i - 1]
      BY <2>3, <3>1, PartIs
    <3>3. 1 \in 1..((3 - 1) - 2 + 1) /\ 2 + 1 - 1 = 2 /\ 2 <= 3 - 1 /\ (3 - 1) - 2 + 1 = 1
      OBVIOUS
    <3> QED BY <2>1, <3>2, <3>3
  <2>5. IsNumber(text) /\ NumberOf(text) = k
    BY <1>1, <2>4 DEF IsNumber, NumberOf
  <2>6. ParseWith(s, Parse[1]) = Answer("integer", NumberOf(text), 3 + 1)
    BY <2>1, <2>2, <2>3, <2>5 DEF ParseWith
  <2> QED BY <1>7, <2>5, <2>6
<1> QED BY <1>3, <1>4, <1>5, <1>8, <1>9

\* What Redis writes are symbols.
LEMMA WritesSymbols ==
    ASSUME NEW bytes, bytes \in Strays \cup {PushOf(p) : p \in Payloads}
    PROVE  bytes \in Seq(Alphabet)
<1>1. ASSUME NEW text \in Seq(Alphabet), Len(text) \in {0, 1, 2, 3, Len(Channel)} \cup {Len(p) : p \in Payloads}
      PROVE  BulkOf(text) \in Seq(Alphabet)
  <2>1. DigitOf(Len(text)) \in Alphabet /\ {"$", "CR", "LF"} \subseteq Alphabet
    BY <1>1, DigitIs, RedisAssumption
  <2>2. <<"$", DigitOf(Len(text)), "CR", "LF">> \in Seq(Alphabet) /\ <<"CR", "LF">> \in Seq(Alphabet)
    BY <2>1
  <2>3. <<"$", DigitOf(Len(text)), "CR", "LF">> \o text \in Seq(Alphabet)
    BY <2>2, ConcatProperties
  <2> QED BY <2>2, <2>3, ConcatProperties DEF BulkOf
<1>2. CASE bytes \in Strays
  BY <1>2, RedisAssumption
<1>3. ASSUME NEW p \in Payloads, bytes = PushOf(p) PROVE bytes \in Seq(Alphabet)
  <2>1. <<"message">> \in Seq(Alphabet) /\ Len(<<"message">>) = 1
    <3>1. "message" \in Alphabet
      BY RedisAssumption
    <3> QED BY <3>1
  <2>2. Channel \in Seq(Alphabet) /\ p \in Seq(Alphabet)
    BY RedisAssumption
  <2>3. ArrayOf3 \in Seq(Alphabet)
    <3>1. DigitOf(3) \in Alphabet /\ {"*", "CR", "LF"} \subseteq Alphabet
      BY DigitIs, RedisAssumption
    <3> QED BY <3>1 DEF ArrayOf3
  <2>4. PICK a \in Seq(Alphabet) : a = BulkOf(<<"message">>)
    BY <1>1, <2>1
  <2>5. PICK b \in Seq(Alphabet) : b = BulkOf(Channel)
    BY <1>1, <2>2
  <2>6. PICK c \in Seq(Alphabet) : c = BulkOf(p)
    BY <1>1, <2>2
  <2>7. PICK x \in Seq(Alphabet) : x = ArrayOf3 \o a
    BY <2>3, ConcatProperties
  <2>8. PICK y \in Seq(Alphabet) : y = x \o b
    BY ConcatProperties
  <2>9. y \o c \in Seq(Alphabet)
    BY ConcatProperties
  <2> QED BY <1>3, <2>4, <2>5, <2>6, <2>7, <2>8, <2>9 DEF PushOf
<1> QED BY <1>2, <1>3

-----------------------------------------------------------------------------
(* RedisConnection: both connections, cut, delayed and broken off          *)

\* Both connections, what was written and what was handed over, and the last publish.
Publishers == [state : {"none", "open", "cut"}, wire : {<<>>}, pending : {<<>>}]

RedisInv ==
    /\ subscription \in Connections /\ publisher \in Publishers
    /\ pushed \in [times : Nat, stream : Seq(Alphabet)] /\ handled \in Seq(Seq(Alphabet))
    /\ said \in [times : 0..MaxPublishes, answer : BOOLEAN, reached : 0..2]
    /\ said.answer => said.reached > 0
    /\ IsPrefix(handled, PayloadsIn(pushed.stream))
    /\ subscription.state # "none" => Agrees(subscription, pushed.stream, handled)

\* Initially there is no connection.
LEMMA RedisInitHolds == RedisInit => RedisInv
<1> SUFFICES ASSUME RedisInit PROVE RedisInv
  OBVIOUS
<1>1. subscription \in Connections /\ publisher \in Publishers /\ subscription.state = "none"
  BY NothingYet DEF RedisInit, Closed, Connections, Publishers
<1>2. pushed \in [times : Nat, stream : Seq(Alphabet)] /\ handled \in Seq(Seq(Alphabet)) /\ handled = <<>> /\ pushed.stream = <<>>
  <2>1. <<>> \in Seq(Seq(Alphabet))
    BY EmptySeq
  <2> QED BY <2>1, NothingYet DEF RedisInit
<1>3. said \in [times : 0..MaxPublishes, answer : BOOLEAN, reached : 0..2] /\ ~said.answer
  BY RedisAssumption DEF RedisInit
<1>4. IsPrefix(<<>>, PayloadsIn(<<>>))
  <2>1. Agrees(Closed, <<>>, <<>>)
    BY FreshAgrees DEF Closed
  <2>2. Closed \in Connections
    BY NothingYet DEF Closed, Connections
  <2>3. <<>> \in Seq(Seq(Alphabet)) /\ <<>> \in Seq(Alphabet)
    BY EmptySeq
  <2> QED BY <2>1, <2>2, <2>3, AgreesNow
<1> QED BY <1>1, <1>2, <1>3, <1>4 DEF RedisInv

\* What Redis writes on the subscription.
LEMMA WrittenKeeps ==
    ASSUME RedisInv, NEW bytes \in Seq(Alphabet), Written(bytes)
    PROVE  /\ subscription' \in Connections /\ pushed' \in [times : Nat, stream : Seq(Alphabet)]
           /\ IsPrefix(handled, PayloadsIn(pushed'.stream))
           /\ subscription'.state # "none" => Agrees(subscription', pushed'.stream, handled)
<1>1. CASE subscription.state = "open"
  <2>1. subscription' = [subscription EXCEPT !.wire = @ \o bytes] /\ pushed' = [times |-> pushed.times + 1, stream |-> pushed.stream \o bytes]
    BY <1>1 DEF Written
  <2>2. PICK c \in Connections : c = subscription
    BY DEF RedisInv
  <2>3. PICK e : e = subscription'
    OBVIOUS
  <2>4. PICK stream \in Seq(Alphabet) : stream = pushed.stream
    BY DEF RedisInv
  <2>5. e.wire = c.wire \o bytes /\ e.pending = c.pending /\ e.state = c.state
    BY <2>1, <2>2, <2>3 DEF Connections
  <2>6. Agrees(c, stream, handled) /\ handled \in Seq(Seq(Alphabet)) /\ pushed.times \in Nat
    BY <1>1, <2>2, <2>4 DEF RedisInv
  <2>7. Agrees(e, stream \o bytes, handled) /\ stream \o bytes \in Seq(Alphabet) /\ c.wire \o bytes \in Seq(Alphabet)
    BY <2>5, <2>6, WrittenAgrees
  <2>8. e \in Connections
    BY <2>1, <2>2, <2>3, <2>7 DEF Connections
  <2>9. IsPrefix(handled, PayloadsIn(stream \o bytes))
    BY <2>6, <2>7, <2>8, AgreesNow
  <2>10. pushed'.stream = stream \o bytes /\ pushed' \in [times : Nat, stream : Seq(Alphabet)]
    BY <2>1, <2>4, <2>6, <2>7
  <2> QED BY <2>3, <2>7, <2>8, <2>9, <2>10
<1>2. CASE subscription.state # "open"
  BY <1>2 DEF Written, RedisInv
<1> QED BY <1>1, <1>2

\* A new subscription starts with nothing written, pending or handed over.
LEMMA SubscribeKeeps ==
    ASSUME RedisInv, NEW greeting, NEW n, Subscribe(greeting, n)
    PROVE  RedisInv'
<1>1. UNCHANGED <<publisher, said>>
  BY DEF Subscribe
<1>2. CASE Greeted(greeting) /\ n = Len(Acknowledgement)
  <2>1. /\ subscription' = [state |-> "open", wire |-> <<>>, pending |-> <<>>]
        /\ pushed' = [times |-> 0, stream |-> <<>>] /\ handled' = <<>>
    BY <1>2 DEF Subscribe
  <2>2. PICK e : e = subscription'
    OBVIOUS
  <2>3. e \in Connections /\ e.wire = <<>> /\ e.pending = <<>>
    BY <2>1, <2>2, NothingYet DEF Connections
  <2>4. Agrees(e, <<>>, <<>>)
    BY <2>3, FreshAgrees
  <2>5. <<>> \in Seq(Seq(Alphabet)) /\ <<>> \in Seq(Alphabet)
    BY EmptySeq
  <2>6. IsPrefix(<<>>, PayloadsIn(<<>>))
    BY <2>3, <2>4, <2>5, AgreesNow
  <2>7. pushed' \in [times : Nat, stream : Seq(Alphabet)] /\ pushed'.stream = <<>> /\ handled' \in Seq(Seq(Alphabet))
    BY <2>1, <2>5
  <2> QED BY <1>1, <2>1, <2>2, <2>3, <2>4, <2>6, <2>7 DEF RedisInv
<1>3. CASE ~(Greeted(greeting) /\ n = Len(Acknowledgement))
  <2>1. subscription' = Closed /\ UNCHANGED <<pushed, handled>>
    BY <1>3 DEF Subscribe, Lost
  <2>2. subscription' \in Connections /\ subscription'.state = "none"
    BY <2>1, NothingYet DEF Closed, Connections
  <2> QED BY <1>1, <2>1, <2>2 DEF RedisInv
<1> QED BY <1>2, <1>3

\* A tick hands over what it read whole, and keeps the beginning of a value.
LEMMA PumpKeeps ==
    ASSUME RedisInv, NEW n \in 0..Len(subscription.wire), Pump(n)
    PROVE  RedisInv'
<1>1. PICK c \in Connections : c = subscription
  BY DEF RedisInv
<1>2. PICK d : d = Drained[c.pending \o SubSeq(c.wire, 1, n)]
  OBVIOUS
<1>3. PICK stream \in Seq(Alphabet) : stream = pushed.stream
  BY DEF RedisInv
<1>4. PICK given \in Seq(Seq(Alphabet)) : given = handled
  BY DEF RedisInv
<1>5. PICK e : e = [c EXCEPT !.wire = From(c.wire, n), !.pending = d.rest]
  OBVIOUS
<1>6. e.wire = From(c.wire, n) /\ e.pending = d.rest /\ n \in 0..Len(c.wire)
  BY <1>1, <1>5 DEF Connections
<1>7. Agrees(c, stream, given)
  BY <1>1, <1>3, <1>4 DEF Pump, IsOpen, RedisInv
<1>8. /\ given \o d.payloads \in Seq(Seq(Alphabet)) /\ d.rest \in Seq(Alphabet) /\ From(c.wire, n) \in Seq(Alphabet)
      /\ IsPrefix(given \o d.payloads, PayloadsIn(stream))
      /\ ~d.failed => Agrees(e, stream, given \o d.payloads)
  BY <1>2, <1>6, <1>7, PumpAgrees
<1>9. /\ handled' = given \o d.payloads /\ UNCHANGED <<publisher, pushed, said>>
      /\ IF d.failed \/ c.state = "cut" THEN subscription' = Closed ELSE subscription' = e
  BY <1>1, <1>2, <1>4, <1>5 DEF Pump, Lost
<1>10. CASE d.failed \/ c.state = "cut"
  <2>1. subscription' \in Connections /\ subscription'.state = "none"
    <3>1. subscription' = Closed
      BY <1>9, <1>10
    <3> QED BY <3>1, NothingYet DEF Closed, Connections
  <2> QED BY <1>3, <1>8, <1>9, <2>1 DEF RedisInv
<1>11. CASE ~(d.failed \/ c.state = "cut")
  <2>1. subscription' = e /\ Agrees(e, stream, given \o d.payloads)
    BY <1>8, <1>9, <1>11
  <2>2. e \in Connections
    BY <1>5, <1>8 DEF Connections
  <2> QED BY <1>3, <1>8, <1>9, <2>1, <2>2 DEF RedisInv
<1> QED BY <1>10, <1>11

\* A publish reads its own answer, or gives the connection up; the push is written behind the rest.
LEMMA PublishKeeps ==
    ASSUME RedisInv, NEW payload \in Payloads, NEW greeting, NEW n \in 0..8, NEW others \in 0..1,
           PublishMessage(payload, greeting, n, others)
    PROVE  RedisInv'
<1>1. PICK c \in Publishers : c = Dialled(greeting)
  BY DEF RedisInv, Dialled, Closed, Publishers
<1>2. PICK reached \in 0..2 : reached = IF c.state = "open" THEN Subscribers(others) ELSE 0
  BY DEF Subscribers
<1>3. PICK wire : wire = IF c.state = "open" THEN c.wire \o CountOf(reached) ELSE c.wire
  OBVIOUS
<1>4. c.wire = <<>> /\ c.pending = <<>>
  BY DEF Publishers
<1>5. /\ CountOf(reached) \in Seq(Alphabet) /\ Len(CountOf(reached)) = 4
      /\ \A m \in 0..4 : /\ m < 4 => Parse[0][SubSeq(CountOf(reached), 1, m)][1] # "value"
                         /\ m = 4 => Parse[0][SubSeq(CountOf(reached), 1, m)] = Answer("integer", reached, 4)
  BY CountAnswered
<1>6. wire \in Seq(Alphabet) /\ wire = IF c.state = "open" THEN CountOf(reached) ELSE <<>>
  BY <1>3, <1>4, <1>5, ConcatEmptySeq, NothingYet
<1>7. n \in 0..Len(wire)
  BY <1>1, <1>2, <1>3 DEF PublishMessage
<1>8. PICK bytes \in Seq(Alphabet) : bytes = SubSeq(wire, 1, n)
  BY <1>6, <1>7, InTwo
<1>9. c.pending \o bytes = bytes
  BY <1>4, ConcatEmptySeq
<1>10. PICK answer : answer = Parse[0][bytes]
  OBVIOUS
<1>11. /\ said' = [times |-> said.times + 1, reached |-> reached,
                   answer |-> IsOpen(c) /\ answer[1] = "value" /\ answer[2][1] = "integer" /\ answer[2][2] > 0]
       /\ publisher' = IF answer[1] = "value"
                       THEN [c EXCEPT !.wire = From(wire, n), !.pending = From(c.pending \o SubSeq(wire, 1, n), answer[3])]
                       ELSE Closed
       /\ IF c.state = "open" THEN Written(PushOf(payload)) ELSE UNCHANGED <<subscription, pushed>>
       /\ said.times < MaxPublishes /\ UNCHANGED <<due, handled>>
  BY <1>1, <1>2, <1>3, <1>8, <1>9, <1>10 DEF PublishMessage
<1>12. answer[1] = "value" => c.state = "open" /\ n = 4 /\ answer = Answer("integer", reached, 4)
  <2>1. CASE c.state = "open"
    <3>1. wire = CountOf(reached) /\ n \in 0..4
      BY <1>5, <1>6, <1>7, <2>1
    <3>2. n < 4 => Parse[0][bytes][1] # "value"
      BY <1>5, <1>8, <3>1
    <3>3. n = 4 => Parse[0][bytes] = Answer("integer", reached, 4)
      BY <1>5, <1>8, <3>1
    <3> QED BY <1>10, <2>1, <3>1, <3>2, <3>3
  <2>2. CASE c.state # "open"
    <3>1. wire = <<>> /\ n = 0
      BY <1>6, <1>7, <2>2, EmptySeq
    <3>2. bytes = <<>>
      BY <1>8, <3>1, SubSeqEmpty
    <3> QED BY <1>10, <3>2, NothingYet
  <2> QED BY <2>1, <2>2
<1>13. publisher' \in Publishers
  <2>1. CASE answer[1] = "value"
    <3>1. wire = CountOf(reached) /\ n = 4 /\ answer[3] = 4 /\ Len(wire) = 4
      BY <1>5, <1>6, <1>12, <2>1 DEF Answer
    <3>2. bytes = wire
      BY <1>6, <1>8, <3>1, SubSeqFull
    <3>3. From(wire, 4) = <<>>
      BY <3>1, SubSeqEmpty DEF From
    <3>4. publisher' = [c EXCEPT !.wire = <<>>, !.pending = <<>>]
      BY <1>8, <1>9, <1>11, <2>1, <3>1, <3>2, <3>3
    <3> QED BY <3>4 DEF Publishers
  <2>2. CASE answer[1] # "value"
    BY <1>11, <2>2 DEF Closed, Publishers
  <2> QED BY <2>1, <2>2
<1>14. said' \in [times : 0..MaxPublishes, answer : BOOLEAN, reached : 0..2] /\ (said'.answer => said'.reached > 0)
  <2>1. PICK isTold \in BOOLEAN : isTold = (IsOpen(c) /\ answer[1] = "value" /\ answer[2][1] = "integer" /\ answer[2][2] > 0)
    OBVIOUS
  <2>2. isTold => reached > 0
    <3>1. isTold => answer[1] = "value" /\ answer[2][2] > 0
      BY <2>1
    <3>2. answer[1] = "value" => answer[2][2] = reached
      BY <1>12 DEF Answer
    <3> QED BY <3>1, <3>2
  <2>3. said.times \in 0..MaxPublishes /\ said.times < MaxPublishes /\ MaxPublishes \in Nat
    BY <1>11, RedisAssumption DEF RedisInv
  <2>4. said' = [times |-> said.times + 1, reached |-> reached, answer |-> isTold]
    BY <1>11, <2>1
  <2> QED BY <2>2, <2>3, <2>4
<1>15. /\ subscription' \in Connections /\ pushed' \in [times : Nat, stream : Seq(Alphabet)]
       /\ IsPrefix(handled, PayloadsIn(pushed'.stream))
       /\ subscription'.state # "none" => Agrees(subscription', pushed'.stream, handled)
  <2>1. PushOf(payload) \in Seq(Alphabet)
    BY WritesSymbols
  <2>2. CASE c.state = "open"
    BY <1>11, <2>1, <2>2, WrittenKeeps
  <2>3. CASE c.state # "open"
    BY <1>11, <2>3 DEF RedisInv
  <2> QED BY <2>2, <2>3
<1>16. handled' = handled /\ handled \in Seq(Seq(Alphabet))
  BY <1>11 DEF RedisInv
<1> QED BY <1>13, <1>14, <1>15, <1>16 DEF RedisInv

\* What others have written comes behind what was under way.
LEMMA PushKeeps ==
    ASSUME RedisInv, NEW bytes \in Strays \cup {PushOf(p) : p \in Payloads}, Push(bytes)
    PROVE  RedisInv'
<1>1. bytes \in Seq(Alphabet)
  BY WritesSymbols
<1>2. Written(bytes) /\ UNCHANGED <<publisher, due, handled, said>>
  BY DEF Push
<1>3. /\ subscription' \in Connections /\ pushed' \in [times : Nat, stream : Seq(Alphabet)]
      /\ IsPrefix(handled, PayloadsIn(pushed'.stream))
      /\ subscription'.state # "none" => Agrees(subscription', pushed'.stream, handled)
  BY <1>1, <1>2, WrittenKeeps
<1> QED BY <1>2, <1>3 DEF RedisInv

\* A connection that is cut keeps what was under way on it.
LEMMA CutKeeps ==
    ASSUME RedisInv, Cut
    PROVE  RedisInv'
<1>1. UNCHANGED <<due, pushed, handled, said>>
  BY DEF Cut
<1>2. PICK c \in Connections : c = subscription
  BY DEF RedisInv
<1>3. PICK e : e = subscription'
  OBVIOUS
<1>4. e = IF c.state # "none" THEN [c EXCEPT !.state = "cut"] ELSE c
  BY <1>2, <1>3 DEF Cut, IsOpen
<1>5. e \in Connections /\ e.wire = c.wire /\ e.pending = c.pending /\ (e.state # "none" => c.state # "none")
  BY <1>4 DEF Connections
<1>6. publisher' \in Publishers
  BY DEF Cut, RedisInv, Publishers
<1>7. e.state # "none" => Agrees(e, pushed.stream, handled)
  BY <1>2, <1>5 DEF RedisInv, Agrees
<1> QED BY <1>1, <1>3, <1>5, <1>6, <1>7 DEF RedisInv

\* Every step preserves the invariant.
LEMMA RedisStepHolds == RedisInv /\ [RedisNext]_redisVars => RedisInv'
<1> SUFFICES ASSUME RedisInv, [RedisNext]_redisVars PROVE RedisInv'
  OBVIOUS
<1>1. CASE \E greeting \in Greetings, n \in {0, Len(Acknowledgement)} : Subscribe(greeting, n)
  BY <1>1, SubscribeKeeps
<1>2. CASE \E n \in 0..Len(subscription.wire) : Pump(n)
  BY <1>2, PumpKeeps
<1>3. CASE \E payload \in Payloads, greeting \in Greetings, n \in 0..8, others \in 0..1 :
             PublishMessage(payload, greeting, n, others)
  BY <1>3, PublishKeeps
<1>4. CASE \E bytes \in Strays \cup {PushOf(p) : p \in Payloads} : Push(bytes)
  BY <1>4, PushKeeps
<1>5. CASE Cut
  BY <1>5, CutKeeps
<1>6. CASE Delay
  BY <1>6 DEF Delay, RedisInv
<1>7. CASE UNCHANGED redisVars
  BY <1>7 DEF redisVars, RedisInv
<1> QED BY <1>1, <1>2, <1>3, <1>4, <1>5, <1>6, <1>7 DEF RedisNext

\* What the invariant says of each end.
LEMMA RedisInvSays == RedisInv => StreamExact
<1> SUFFICES ASSUME RedisInv PROVE StreamExact
  OBVIOUS
<1>1. RedisTypeOK
  BY DEF RedisInv, RedisTypeOK, Connections, Publishers
<1>2. TrueMeansReached /\ PayloadsInOrder
  BY DEF RedisInv, TrueMeansReached, PayloadsInOrder
<1>3. NothingHeldBack
  <2> SUFFICES ASSUME subscription.state = "open"
               PROVE  /\ Parse[0][subscription.pending][1] = "more"
                      /\ handled \o PayloadsIn(subscription.pending \o subscription.wire) = PayloadsIn(pushed.stream)
    BY DEF NothingHeldBack
  <2>1. Agrees(subscription, pushed.stream, handled) /\ subscription \in Connections
        /\ pushed.stream \in Seq(Alphabet) /\ handled \in Seq(Seq(Alphabet))
    BY DEF RedisInv
  <2>2. Parse[0][subscription.pending][1] = "more"
    BY <2>1 DEF Agrees
  <2>3. handled \o PayloadsIn(subscription.pending \o subscription.wire) = PayloadsIn(pushed.stream)
    BY <2>1, AgreesNow
  <2> QED BY <2>2, <2>3
<1> QED BY <1>1, <1>2, <1>3 DEF StreamExact

\* However the streams are cut into reads, delayed and broken off: the bridge is handed
\* the payloads that were written, whole, in order and once, none of them waits for what
\* comes after it, and a publish that answers true reached somebody.
THEOREM StreamsAreExact == RedisSpec => []StreamExact
<1>1. RedisSpec => []RedisInv
  BY RedisInitHolds, RedisStepHolds, PTL DEF RedisSpec
<1> QED BY <1>1, RedisInvSays, PTL
===============================================================================
