----------------------------- MODULE CloudWords -----------------------------
(***************************************************************************)
(* The cloud thesaurus of the plugin (cloud.rs): databases of words read   *)
(* over the network every hour and after a reload, a cache on disk behind  *)
(* them, and the words accumulated in memory.                              *)
(***************************************************************************)
EXTENDS Integers, Sequences

CONSTANTS Urls,
          Published,     \* [url -> sequence of the word sets it will publish]
          Sections,      \* the filter.yml sections a reload goes through
          MaxRestarts    \* bound of the model

ASSUME CloudAssumption ==
  /\ \A u \in Urls : Len(Published[u]) \in Nat \ {0} /\ DOMAIN Published[u] = 1..Len(Published[u])
  /\ Len(Sections) \in Nat \ {0} /\ DOMAIN Sections = 1..Len(Sections)
  /\ MaxRestarts \in Nat

VARIABLES section,       \* the section in force, an index of Sections
          edition,       \* what each url serves: its lastUpdateDate
          cloudWords,    \* CLOUD_WORDS
          lastUpdated,   \* LAST_UPDATED: the edition recorded for a url
          cache,         \* filters/<hex>.json: an edition, None or Torn
          restarts

cloudVars == <<section, edition, cloudWords, lastUpdated, cache, restarts>>

None == 0
Torn == -1
Profile == Sections[section]
WordsOf(u, e) == Published[u][e]

CloudInit ==
  /\ section = 1 /\ restarts = 0
  /\ edition     = [u \in Urls |-> 1]
  /\ cloudWords  = {}
  /\ lastUpdated = [u \in Urls |-> None]
  /\ cache       = [u \in Urls |-> None]

(***************************************************************************)
(* fetch and read_database: the body over the network, else the cached     *)
(* copy.  The date is recorded before the ignored words are taken out, and *)
(* a database of the recorded date contributes nothing.                    *)
(***************************************************************************)
Body(u, up) == IF u \in up THEN edition[u] ELSE cache[u]
\* Mutant: a database of the date of its cached copy contributes nothing.
AppliesIfNotCached(u, up) == Body(u, up) \notin {None, Torn, cache[u]}

Applies(u, up) == Body(u, up) \notin {None, Torn, lastUpdated[u]}
Read(u, up) == IF Applies(u, up) THEN WordsOf(u, Body(u, up)) \ Profile.ignored ELSE {}

\* Mutant: nothing is cached.
RefreshUncached(up) ==
  /\ Profile.enabled /\ Profile.urls # {}
  /\ cloudWords'  = cloudWords \cup UNION {Read(u, up) : u \in Profile.urls}
  /\ lastUpdated' = [u \in Urls |-> IF u \in Profile.urls /\ Applies(u, up)
                                    THEN Body(u, up) ELSE lastUpdated[u]]
  /\ UNCHANGED <<section, edition, cache, restarts>>

\* refresh, with the urls that answer.
Refresh(up) ==
  /\ Profile.enabled /\ Profile.urls # {}
  /\ cloudWords'  = cloudWords \cup UNION {Read(u, up) : u \in Profile.urls}
  /\ lastUpdated' = [u \in Urls |-> IF u \in Profile.urls /\ Applies(u, up)
                                    THEN Body(u, up) ELSE lastUpdated[u]]
  /\ cache'       = [u \in Urls |-> IF u \in Profile.urls \cap up /\ Read(u, up) # {}
                                    THEN edition[u] ELSE cache[u]]
  /\ UNCHANGED <<section, edition, restarts>>

\* Mutant: a reload forgets the words, but not the dates.
ReloadFilterForgetting ==
  /\ section < Len(Sections)
  /\ section' = section + 1 /\ cloudWords' = {}
  /\ UNCHANGED <<edition, lastUpdated, cache, restarts>>

\* A reload replaces the section; the words in memory stay.
ReloadFilter ==
  /\ section < Len(Sections)
  /\ section' = section + 1
  /\ UNCHANGED <<edition, cloudWords, lastUpdated, cache, restarts>>

Publish(u) ==
  /\ edition[u] < Len(Published[u])
  /\ edition' = [edition EXCEPT ![u] = @ + 1]
  /\ UNCHANGED <<section, cloudWords, lastUpdated, cache, restarts>>

\* The server stops: the statics are gone.  write_cache writes in place, so a
\* crash while it does leaves a file that read_database cannot parse.
Restart(torn) ==
  /\ restarts < MaxRestarts
  /\ restarts' = restarts + 1
  /\ cloudWords' = {}
  /\ lastUpdated' = [u \in Urls |-> None]
  /\ cache' = [u \in Urls |-> IF u \in torn THEN Torn ELSE cache[u]]
  /\ UNCHANGED <<section, edition>>

CloudNext ==
  \/ \E up \in SUBSET Urls : Refresh(up)
  \/ ReloadFilter
  \/ \E u \in Urls : Publish(u)
  \/ \E torn \in SUBSET Urls : Restart(torn)

CloudSpec == CloudInit /\ [][CloudNext]_cloudVars

\* Fair for each url: the scheduler refreshes again and again, and every url
\* answers again and again.
RefreshAnswered(u) == \E up \in SUBSET Urls : u \in up /\ Refresh(up)

(******************************* Properties ********************************)
CloudTypeOK ==
  /\ section \in DOMAIN Sections /\ restarts \in 0..MaxRestarts
  /\ \A u \in Urls : /\ edition[u] \in DOMAIN Published[u]
                     /\ lastUpdated[u] \in {None} \cup DOMAIN Published[u]
                     /\ cache[u] \in {None, Torn} \cup DOMAIN Published[u]

EverIgnored == UNION {Sections[s].ignored : s \in DOMAIN Sections}
Kept(u, e)  == WordsOf(u, e) \ EverIgnored

\* An edition is not read again once its date is recorded, so its words must be
\* in force from then on, those aside that some section ignores: also when other
\* urls change, the network fails or a reload comes in between.
RecordedInForce ==
  \A u \in Urls : lastUpdated[u] # None => Kept(u, lastUpdated[u]) \subseteq cloudWords

\* What is in force would be again after a restart without the network: unless a
\* crash tore the file, the cache holds the words of the edition recorded.
CacheRevives ==
  \A u \in Urls : lastUpdated[u] # None /\ cache[u] # Torn /\ Kept(u, lastUpdated[u]) # {} =>
    cache[u] # None /\ Kept(u, lastUpdated[u]) \subseteq WordsOf(u, cache[u])

\* A date on record stands for words: in force now, and in the cache for later.
WordsRecorded == RecordedInForce /\ CacheRevives

\* Whatever a url ends up serving is in force in the end, restarts, reloads,
\* failures and torn caches notwithstanding, for the urls the last section reads.
InForceInTheEnd ==
  Sections[Len(Sections)].enabled =>
    \A u \in Sections[Len(Sections)].urls :
      <>[](section = Len(Sections) => Kept(u, edition[u]) \subseteq cloudWords)
=============================================================================
