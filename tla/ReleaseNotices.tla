---------------------------- MODULE ReleaseNotices ----------------------------
(***************************************************************************)
(* The update checker of the plugin (updater.rs): the comparison of        *)
(* versions, and who is told of a release, when.  The host calls one    *)
(* handler at a time, so that a check is one step.                         *)
(*                                                                         *)
(* A version is [numbers, pre]: numbers, and the identifiers of a          *)
(* pre-release, each <<"number", n>> or <<"word", its alphabetical place>>.*)
(***************************************************************************)
EXTENDS Integers, Sequences, SequencesExt

CONSTANTS Ascending,     \* versions in the order of semver.org, lowest first
          Editions,      \* the payloads GitHub may serve of one release
          Admins,        \* who may hold trchat.admin
          MaxFound       \* bound of the model

ASSUME NoticesAssumption ==
  /\ Ascending \in Seq([numbers : Seq(Nat), pre : Seq({"number", "word"} \X Nat)])
  /\ MaxFound \in Nat

VARIABLES started,     \* updates.enabled when the plugin was loaded
          current,     \* CURRENT_VERSION, an index of Ascending
          served,      \* what GitHub serves: <<index, edition>>
          available,   \* AVAILABLE: what the last check found, or NoRelease
          notified,    \* NOTIFIED
          present, privileged,   \* who is on line, who holds the permission
          found,       \* how often a check found another release
          told,        \* [admin -> the last release told, in which finding, how often]
          promoted     \* those whose permission changed since both joining and the finding

noticeVars == <<started, current, served, available, notified, present, privileged,
                found, told, promoted>>

NoRelease == <<0, 0>>

(******************************** Versions *********************************)
Sign(n) == IF n < 0 THEN -1 ELSE IF n > 0 THEN 1 ELSE 0

\* The first difference decides.
FirstOf(signs) ==
  LET differ == {i \in DOMAIN signs : signs[i] # 0}
  IN  IF differ = {} THEN 0 ELSE signs[Min(differ)]

At(numbers, i) == IF i \in DOMAIN numbers THEN numbers[i] ELSE 0

\* Mutant: a word precedes a number.
CompareIdentifiersWordsFirst(pre, other, i) ==
  IF i \notin DOMAIN pre THEN -1
  ELSE IF i \notin DOMAIN other THEN 1
  ELSE IF pre[i][1] # other[i][1] THEN (IF pre[i][1] = "word" THEN -1 ELSE 1)
  ELSE Sign(pre[i][2] - other[i][2])

\* An identifier that is missing precedes any; a number precedes a word.
CompareIdentifiers(pre, other, i) ==
  IF i \notin DOMAIN pre THEN -1
  ELSE IF i \notin DOMAIN other THEN 1
  ELSE IF pre[i][1] # other[i][1] THEN (IF pre[i][1] = "number" THEN -1 ELSE 1)
  ELSE Sign(pre[i][2] - other[i][2])

\* SemanticVersion::cmp.
Compare(a, b) ==
  LET longest(s, t) == IF Len(s) > Len(t) THEN Len(s) ELSE Len(t)
      numbers == FirstOf([i \in 1..longest(a.numbers, b.numbers) |->
                            Sign(At(a.numbers, i) - At(b.numbers, i))])
  IN  IF numbers # 0 THEN numbers
      ELSE IF a.pre = <<>> \/ b.pre = <<>> THEN (IF a.pre = b.pre THEN 0 ELSE IF a.pre = <<>> THEN 1 ELSE -1)
      ELSE FirstOf([i \in 1..longest(a.pre, b.pre) |-> CompareIdentifiers(a.pre, b.pre, i)])

IsNewer(release) == Compare(Ascending[release[1]], Ascending[current]) = 1

(********************************* Notices *********************************)
NoticesInit ==
  /\ started \in BOOLEAN /\ current \in DOMAIN Ascending
  /\ served \in (DOMAIN Ascending) \X Editions
  /\ available = NoRelease /\ notified = {}
  /\ present = {} /\ privileged = {} /\ promoted = {}
  /\ found = 0
  /\ told = [p \in Admins |-> [release |-> NoRelease, finding |-> 0, times |-> 0]]

\* notify_player for each of a set of players.
Notified(players, release, finding, already) ==
  LET due == {p \in players \cap privileged : release # NoRelease /\ p \notin already}
  IN  /\ notified' = already \cup due
      /\ told' = [p \in Admins |-> IF p \in due
                                   THEN [release |-> release, finding |-> finding, times |-> told[p].times + 1]
                                   ELSE told[p]]

\* Mutant: those told of the release before are not told of this one.
CheckKeepsNotified ==
  /\ started
  /\ IF IsNewer(served)
     THEN /\ available' = served
          /\ IF available # served
             THEN /\ found < MaxFound /\ found' = found + 1
                  /\ promoted' = {}
                  /\ Notified(present, served, found', notified)
             ELSE UNCHANGED <<found, promoted, notified, told>>
     ELSE /\ available' = NoRelease
          /\ UNCHANGED <<found, promoted, notified, told>>
  /\ UNCHANGED <<started, current, served, present, privileged>>

\* Mutant: every check that finds a release tells of it.
CheckTellsEachTime ==
  /\ started
  /\ IF IsNewer(served)
     THEN /\ available' = served
          /\ IF available # served THEN found < MaxFound /\ found' = found + 1 ELSE UNCHANGED found
          /\ promoted' = {} /\ Notified(present, served, found', {})
     ELSE available' = NoRelease /\ UNCHANGED <<found, promoted, notified, told>>
  /\ UNCHANGED <<started, current, served, present, privileged>>

\* check and apply_payload, of a request that succeeds.
Check ==
  /\ started
  /\ IF IsNewer(served)
     THEN /\ available' = served
          /\ IF available # served
             THEN /\ found < MaxFound /\ found' = found + 1
                  /\ promoted' = {}
                  /\ Notified(present, served, found', {})
             ELSE UNCHANGED <<found, promoted, notified, told>>
     ELSE /\ available' = NoRelease
          /\ UNCHANGED <<found, promoted, notified, told>>
  /\ UNCHANGED <<started, current, served, present, privileged>>

Joins(p) ==
  /\ p \notin present
  /\ present' = present \cup {p} /\ promoted' = promoted \ {p}
  /\ IF started THEN Notified({p}, available, found, notified) ELSE UNCHANGED <<notified, told>>
  /\ UNCHANGED <<started, current, served, available, privileged, found>>

Leaves(p) ==
  /\ p \in present
  /\ present' = present \ {p}
  /\ UNCHANGED <<started, current, served, available, notified, privileged, found, told, promoted>>

\* The permission is given or taken: the checker is not told.
Permit(p) ==
  /\ privileged' = IF p \in privileged THEN privileged \ {p} ELSE privileged \cup {p}
  /\ promoted' = promoted \cup {p}
  /\ UNCHANGED <<started, current, served, available, notified, present, found, told>>

\* A release is published, edited or withdrawn.
Release(payload) ==
  /\ served' = payload
  /\ UNCHANGED <<started, current, available, notified, present, privileged, found, told, promoted>>

NoticesNext ==
  \/ Check
  \/ \E p \in Admins : Joins(p) \/ Leaves(p) \/ Permit(p)
  \/ \E payload \in (DOMAIN Ascending) \X Editions : Release(payload)

NoticesSpec == NoticesInit /\ [][NoticesNext]_noticeVars

(******************************* Properties ********************************)
NoticesTypeOK ==
  /\ served \in (DOMAIN Ascending) \X Editions
  /\ available \in {NoRelease} \cup (DOMAIN Ascending) \X Editions
  /\ found \in 0..MaxFound /\ notified \subseteq Admins
  /\ \A p \in Admins : told[p].times \in 0..found

\* A player is only told of a release that semver.org ranks above the version
\* that runs, whatever mix of numbers and pre-release identifiers they have.
OnlyNewerTold == \A p \in Admins : told[p].times > 0 => told[p].release[1] > current

\* Whoever is on line and was an administrator when joining, or when the release
\* was found, has been told of it, in this finding and not before: also after
\* leaving, rejoining, and a release that came back.
AdminsTold ==
  available # NoRelease =>
    \A p \in (present \cap privileged) \ promoted :
      told[p].finding = found /\ told[p].release = available

\* Administrators are told of every release found, and of nothing but newer ones.
ToldOfTheNewer == NoticesTypeOK /\ OnlyNewerTold /\ AdminsTold
===============================================================================
