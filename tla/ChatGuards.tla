------------------------------- MODULE ChatGuards -------------------------------
(***************************************************************************)
(* The guards a message passes before it is rendered and sent:             *)
(* ChatService.guardMessage of the mod and steps 4 to 9 of chat_pipeline   *)
(* of the plugin (chat.rs).  Both keep, for each player, the last message  *)
(* accepted, a window of similar messages and a window of accepted ones;   *)
(* they differ in what they put in the windows and in when they forget.    *)
(*                                                                         *)
(* A text is an atom; the constants say which texts are alike, too long,   *)
(* or repeat a phrase too often, and what the filters make of them.        *)
(***************************************************************************)
EXTENDS Integers, Sequences, FiniteSets

CONSTANTS
    Players,
    Texts, TooLong, Stuttering,
    AlikePairs,         \* similarity(a, b) >= antiRepeatSimilarity, when that is not 0
    Filtered, Blanked,  \* what the filter of filter.yml, and the blocked words, leave of a text
    Configurations,     \* the settings the run is checked for
    SimilarPeriod, FrequencyPeriod,
    NoMessage,          \* no message was accepted yet
    MaxTime, MaxAttempts, MaxOrders  \* bounds: the clock, messages, mutes and logouts

Configuration ==
    [port : {"mod", "plugin"}, similarity : {0, 1}, maxSimilar : Nat, compareAll : BOOLEAN,
     cooldown : Nat, maxFrequent : Nat, ops : SUBSET Players, bypass : SUBSET Players]

Said == [at : Nat, text : Texts]

ASSUME GuardsAssumption ==
    /\ Filtered \in [Texts -> Texts] /\ Blanked \in [Texts -> Texts]
    /\ Configurations \subseteq Configuration
    /\ SimilarPeriod \in Nat /\ FrequencyPeriod \in Nat
    /\ MaxTime \in Nat /\ MaxAttempts \in Nat /\ MaxOrders \in Nat
    /\ NoMessage \notin Said

VARIABLES
    settings,   \* settings.yml, who is operator, and who has trchat.bypass.*
    last,       \* chatStates; last_sent_at and last_message
    recent,     \* similarPeriodMessages; recent
    sends,      \* frequencyPeriodMessages; sends
    globalMute, muted,
    now,        \* the clock, in units the periods are multiples of
    attempts, orders,   \* how many of MaxAttempts and MaxOrders were used
    said        \* history: what each player tried to say, since the windows were empty

vars == <<settings, last, recent, sends, globalMute, muted, now, attempts, orders, said>>

IsMod == settings.port = "mod"
IsOp(p) == p \in settings.ops
Bypasses(p) == p \in settings.bypass
Set(f, p, v) == [q \in Players |-> IF q = p THEN v ELSE f[q]]

\* A place in a window: which attempt of the player, and when.
Entry(p) == [n |-> Len(said[p]) + 1, at |-> now]

-----------------------------------------------------------------------------
(* The windows *)

\* Mutant: an entry as old as the period is dropped.
FreshShort(W, period) == {e \in W : now - e.at < period}

\* removeIf(now - at > period); popping the front of a deque ordered by time.
Fresh(W, period) == {e \in W : now - e.at <= period}

Recent(p) == Fresh(recent[p], SimilarPeriod)
Sends(p) == Fresh(sends[p], FrequencyPeriod)

\* A threshold of 0 is reached by every pair.
Alike(a, b) == settings.similarity = 0 \/ <<a, b>> \in AlikePairs

\* The mod compares whatever the threshold; the plugin takes 0 for "off".
IsCompared(p) == ~IsOp(p) /\ ~Bypasses(p) /\ (IsMod \/ settings.similarity # 0)

IsSimilar(p, t) ==
    IF settings.compareAll THEN \E e \in Recent(p) : Alike(e.text, t)
    ELSE last[p] # NoMessage /\ Alike(last[p].text, t)

\* The mod leaves operators to the permission, the plugin exempts them.
IsCounted(p) == ~Bypasses(p) /\ (IsMod \/ ~IsOp(p)) /\ settings.maxFrequent > 0

-----------------------------------------------------------------------------
(* The guards, in the order of the code *)

TooSimilar(p, t) ==
    IsCompared(p) /\ IsSimilar(p, t) /\ Cardinality(Recent(p)) >= settings.maxSimilar

\* Mutant: the last unit of the cooldown is not waited for.
TooEarlyLax(p) ==
    ~IsOp(p) /\ last[p] # NoMessage /\ settings.cooldown - (now - last[p].at) > 1

TooEarly(p) ==
    ~IsOp(p) /\ last[p] # NoMessage /\ settings.cooldown - (now - last[p].at) > 0

TooFrequent(p) == IsCounted(p) /\ Cardinality(Sends(p)) >= settings.maxFrequent

Verdict(p, t) ==
    IF t \in TooLong THEN "too_long"
    ELSE IF globalMute /\ ~IsOp(p) THEN "global_muting"
    ELSE IF p \in muted THEN "muted"
    ELSE IF TooSimilar(p, t) THEN "too_similar"
    ELSE IF t \in Stuttering /\ ~Bypasses(p) THEN "too_duplicate"
    ELSE IF TooEarly(p) THEN "cooldown"
    ELSE IF TooFrequent(p) THEN "too_frequent"
    ELSE "accepted"

\* The verdicts given before the windows are looked at.
Early == {"too_long", "global_muting", "muted"}
Verdicts == Early \cup {"too_similar", "too_duplicate", "cooldown", "too_frequent", "accepted"}

\* filterChat spares operators in the mod only.
Shown(p, t) == Blanked[IF IsMod /\ IsOp(p) THEN t ELSE Filtered[t]]

-----------------------------------------------------------------------------
(* What a message leaves behind *)

\* Mutant: a refused message is remembered as the last one.
LastAfterAlways(p, t, v) == [at |-> now, text |-> Shown(p, t)]

\* Written once every guard has passed.
LastAfter(p, t, v) ==
    IF v = "accepted" THEN [at |-> now, text |-> Shown(p, t)] ELSE last[p]

\* A similar message joins the window before the later guards; the plugin adds
\* it even when it refuses it.
RecentAfter(p, t, v) ==
    IF v \in Early \/ ~IsCompared(p) THEN recent[p]
    ELSE IF IsSimilar(p, t) /\ (~IsMod \/ v # "too_similar")
    THEN Recent(p) \cup {[n |-> Entry(p).n, at |-> now, text |-> t]}
    ELSE Recent(p)

\* The plugin counts whatever it accepts, the mod only for who is limited.
SendsAfter(p, v) ==
    IF v = "accepted" /\ (IsCounted(p) \/ ~IsMod) THEN Sends(p) \cup {Entry(p)}
    ELSE IF v \in {"accepted", "too_frequent"} /\ IsCounted(p) THEN Sends(p)
    ELSE sends[p]

-----------------------------------------------------------------------------
Say(p, t) ==
    /\ attempts < MaxAttempts /\ attempts' = attempts + 1
    /\ LET v == Verdict(p, t)
       IN /\ last' = Set(last, p, LastAfter(p, t, v))
          /\ recent' = Set(recent, p, RecentAfter(p, t, v))
          /\ sends' = Set(sends, p, SendsAfter(p, v))
          /\ said' = Set(said, p, Append(said[p],
                 [at |-> now, text |-> t, shown |-> Shown(p, t), verdict |-> v]))
    /\ UNCHANGED <<settings, globalMute, muted, now, orders>>

Order == orders < MaxOrders /\ orders' = orders + 1

SetGlobalMute ==
    /\ Order
    /\ globalMute' = ~globalMute
    /\ UNCHANGED <<settings, last, recent, sends, muted, now, attempts, said>>

MutePlayer(p) ==
    /\ Order
    /\ muted' = muted \cup {p}
    /\ UNCHANGED <<settings, last, recent, sends, globalMute, now, attempts, said>>

\* By command, or because the mute expired.
UnmutePlayer(p) ==
    /\ p \in muted
    /\ muted' = muted \ {p}
    /\ UNCHANGED <<settings, last, recent, sends, globalMute, now, attempts, orders, said>>

\* A logout and the next login.  The plugin forgets nothing: it has no handler.
Rejoin(p) ==
    /\ Order /\ IsMod
    /\ last' = Set(last, p, NoMessage)
    /\ recent' = Set(recent, p, {})
    /\ sends' = Set(sends, p, {})
    /\ said' = Set(said, p, <<>>)
    /\ UNCHANGED <<settings, globalMute, muted, now, attempts>>

Tick ==
    /\ now < MaxTime /\ now' = now + 1
    /\ UNCHANGED <<settings, last, recent, sends, globalMute, muted, attempts, orders, said>>

Init ==
    /\ settings \in Configurations
    /\ last = [p \in Players |-> NoMessage]
    /\ recent = [p \in Players |-> {}]
    /\ sends = [p \in Players |-> {}]
    /\ globalMute = FALSE /\ muted = {}
    /\ now = 0 /\ attempts = 0 /\ orders = 0
    /\ said = [p \in Players |-> <<>>]

Next ==
    \/ \E p \in Players : (\E t \in Texts : Say(p, t)) \/ MutePlayer(p) \/ UnmutePlayer(p) \/ Rejoin(p)
    \/ SetGlobalMute \/ Tick

Spec == Init /\ [][Next]_vars

-----------------------------------------------------------------------------
(* What the history says of each attempt: the reference for the properties *)

Attempt == [at : Nat, text : Texts, shown : Texts, verdict : Verdicts]
Attempts(p) == 1..Len(said[p])
IsAccepted(p, i) == said[p][i].verdict = "accepted"
AcceptedBefore(p, i) == {j \in 1..(i - 1) : IsAccepted(p, j)}

\* The attempts up to the i-th that are at most the period older than it.
Within(p, i, period) == {j \in 1..i : said[p][i].at - said[p][j].at <= period}

\* The i-th is similar to what was shown of the last one accepted before it.
Echoes(p, i) ==
    \E j \in AcceptedBefore(p, i) :
        /\ \A k \in AcceptedBefore(p, i) : k <= j
        /\ Alike(said[p][j].shown, said[p][i].text)

\* The i-th counts as similar: in the plugin, although it was refused as such.
Counts(p, i) ==
    /\ Echoes(p, i) /\ said[p][i].verdict \notin Early
    /\ IsMod => said[p][i].verdict # "too_similar"

-----------------------------------------------------------------------------
(* Properties *)

\* The variables have their types; a window holds attempts of the player, each once.
TypeOK ==
    /\ settings \in Configurations
    /\ last \in [Players -> Said \cup {NoMessage}]
    /\ recent \in [Players -> SUBSET [n : Nat \ {0}, at : Nat, text : Texts]]
    /\ sends \in [Players -> SUBSET [n : Nat \ {0}, at : Nat]]
    /\ globalMute \in BOOLEAN /\ muted \subseteq Players
    /\ now \in 0..MaxTime /\ attempts \in 0..MaxAttempts /\ orders \in 0..MaxOrders
    /\ said \in [Players -> Seq(Attempt)]
    /\ \A p \in Players :
           /\ \A e \in sends[p] : e.n \in Attempts(p) /\ said[p][e.n].at = e.at
           /\ \A e \in recent[p] :
                  e.n \in Attempts(p) /\ said[p][e.n].at = e.at /\ said[p][e.n].text = e.text

\* The clock does not run backwards.
Ordered(p) ==
    \A i \in Attempts(p) :
        said[p][i].at <= now /\ \A j \in 1..i : said[p][j].at <= said[p][i].at

LastMatches(p) ==
    \/ last[p] = NoMessage /\ \A i \in Attempts(p) : ~IsAccepted(p, i)
    \/ \E i \in Attempts(p) :
           /\ IsAccepted(p, i) /\ last[p] = [at |-> said[p][i].at, text |-> said[p][i].shown]
           /\ \A j \in Attempts(p) : IsAccepted(p, j) => j <= i

SendsMatch(p) ==
    /\ \A e \in sends[p] : IsAccepted(p, e.n)
    /\ IsCounted(p) => \A i \in Attempts(p) :
           IsAccepted(p, i) /\ now - said[p][i].at <= FrequencyPeriod =>
               [n |-> i, at |-> said[p][i].at] \in sends[p]

RecentMatches(p) ==
    IsCompared(p) /\ ~settings.compareAll =>
        /\ \A e \in recent[p] : Counts(p, e.n)
        /\ \A i \in Attempts(p) :
               Counts(p, i) /\ now - said[p][i].at <= SimilarPeriod =>
                   [n |-> i, at |-> said[p][i].at, text |-> said[p][i].text] \in recent[p]

\* What is remembered of a player is what happened: the last accepted message,
\* and windows that hold every message of the period they count, and no other.
\* Trimming late, or from a guard that another one precludes, loses nothing.
WindowsMatch ==
    \A p \in Players : Ordered(p) /\ LastMatches(p) /\ SendsMatch(p) /\ RecentMatches(p)

\* Whatever was refused in between, two messages of a player who is no operator
\* are accepted at least the cooldown apart.
CooldownKept ==
    \A p \in Players \ settings.ops : \A i \in Attempts(p) : \A j \in AcceptedBefore(p, i) :
        IsAccepted(p, i) => said[p][i].at - said[p][j].at >= settings.cooldown

\* "Max messages allowed per period": no period that ends with an accepted
\* message holds more of them, however the windows were trimmed before.
FrequencyKept ==
    \A p \in Players : IsCounted(p) =>
        \A i \in Attempts(p) : IsAccepted(p, i) =>
            Cardinality({j \in Within(p, i, FrequencyPeriod) : IsAccepted(p, j)}) <= settings.maxFrequent

\* "Max similar messages allowed per period", when only the previous message is
\* compared with: refusals by later guards do not open the window again.
RepeatsKept ==
    \A p \in Players : IsCompared(p) /\ ~settings.compareAll =>
        \A i \in Attempts(p) : IsAccepted(p, i) /\ Echoes(p, i) =>
            Cardinality({j \in Within(p, i, SimilarPeriod) : IsAccepted(p, j) /\ Echoes(p, j)})
                <= settings.maxSimilar

\* Nobody gets past a limit, whichever guard ran before and whatever it refused.
LimitsKept == CooldownKept /\ FrequencyKept /\ RepeatsKept

\* At a threshold of 0, documented to disable the guard against repetitions, the
\* plugin compares nothing and the mod takes every two messages for similar.
EverythingIsSimilar == IsMod /\ settings.similarity = 0

\* Nobody is refused without the cause the hint names: a cooldown or a count is
\* of messages that were accepted; a message too similar is like the last one
\* accepted, and the similar ones that count are, in the mod, those that were let
\* pass, and in the plugin the refused ones as well.  The one exception is the mod
\* at a threshold of 0, where whatever was accepted before is cause enough.
HasCause(p, i) ==
    LET v == said[p][i].verdict
    IN  /\ v = "cooldown" =>
               \E j \in AcceptedBefore(p, i) : said[p][i].at - said[p][j].at < settings.cooldown
        /\ v = "too_frequent" =>
               Cardinality({j \in Within(p, i, FrequencyPeriod) \ {i} : IsAccepted(p, j)}) >= settings.maxFrequent
        /\ v = "too_similar" => settings.similarity # 0 \/ EverythingIsSimilar
        /\ v = "too_similar" /\ ~settings.compareAll =>
               /\ Echoes(p, i)
               /\ Cardinality({j \in Within(p, i, SimilarPeriod) \ {i} : Counts(p, j)}) >= settings.maxSimilar

RefusedForCause == \A p \in Players : \A i \in Attempts(p) : HasCause(p, i)

\* What TrChatConfig.java:74 and settings.yml:14 say of the threshold: 0 disables
\* the guard, nobody is told that a message was too similar.  False of the mod
\* (ChatService.java:747), which compares whatever the threshold.
ZeroDisables ==
    settings.similarity = 0 =>
        \A p \in Players : \A i \in Attempts(p) : said[p][i].verdict # "too_similar"
=============================================================================
