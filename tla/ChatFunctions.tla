---------------------------- MODULE ChatFunctions ----------------------------
(***************************************************************************)
(* The chat functions of functions.rs (mentions, item and inventory        *)
(* tokens) and the snapshots behind them (snapshot.rs, /trchat view).      *)
(*                                                                         *)
(* A message is a sequence of symbols, a symbol standing for a run of      *)
(* characters that no key or name splits.  Instants are read once per      *)
(* step; the snapshot ids, distinct in the code by a counter, are the      *)
(* positions in offered.                                                   *)
(***************************************************************************)
EXTENDS FiniteSets, TextScan

CONSTANTS Talkers,        \* the players on line
          Operators,      \* those of permission level two or more
          Barred,         \* pairs <<player, function>> without the permission
          NameOf,         \* the symbols of a player's name
          Messages,       \* what may be typed
          Slots,          \* what a slot may hold: "air", "vanilla" or "modded"
          Setups,         \* the configurations a reload goes through
          SnapshotTtl, MaxSnapshots,
          MaxClock, MaxOffered   \* bounds of the model

Priority == [Mention |-> 500, Item |-> 530, EnderChest |-> 540,
             Inventory |-> 550, MentionAll |-> 600]
FunctionNames == DOMAIN Priority

ASSUME FunctionsAssumption ==
  /\ Operators \subseteq Talkers
  /\ SnapshotTtl \in Nat \ {0} /\ MaxSnapshots \in Nat \ {0}
  /\ MaxClock \in Nat /\ MaxOffered \in Nat
  /\ \A p \in Talkers : NameOf[p] \in Seq(STRING) \ {<<>>}
  /\ Messages \subseteq Seq(STRING)
  /\ Len(Setups) \in Nat \ {0} /\ DOMAIN Setups = 1..Len(Setups)
  /\ \A s \in DOMAIN Setups :
       /\ Setups[s].enabled \subseteq FunctionNames
       /\ Setups[s].cooldown \in [FunctionNames -> Nat]
       /\ \A f \in Setups[s].enabled \ {"Mention"} : Setups[s].keys[f] \in Seq(Seq(STRING))

VARIABLES clock,      \* the monotonic clock
          setup,      \* the configuration in force, an index of Setups
          until,      \* FUNCTION_COOLDOWNS: when a function is free again
          store,      \* the snapshots kept, oldest first
          offered,    \* every snapshot a message ever offered
          grants,     \* the last use a cooldown was charged for
          outcome,    \* what process returned, if the last step was a message
          viewed      \* what /trchat view found, if the last step was one

functionsVars == <<clock, setup, until, store, offered, grants, outcome, viewed>>

Never == -1
Setup == Setups[setup]

(*************************** Finding the tokens ****************************)
\* strip_legacy_codes: a colour symbol goes with the symbol after it.
Stripped(text) ==
  LET Read(st, i) ==
        IF st.code THEN [st EXCEPT !.code = FALSE]
        ELSE IF text[i] = "&" /\ i < Len(text) THEN [st EXCEPT !.code = TRUE]
        ELSE [st EXCEPT !.kept = Append(@, text[i])]
  IN  FoldLeft(Read, [kept |-> <<>>, code |-> FALSE], Positions(Len(text))).kept

Past(symbols, body, i) ==
  IF i <= Len(body) /\ body[i] \in symbols THEN i + 1 ELSE i

Token(f, k, start, end, target) ==
  [function |-> f, rank |-> 10 * Priority[f] - k, start |-> start, end |-> end, target |-> target]

\* A mention: an optional "@", an optional space, the longest name standing there.
MentionsIn(body, names) ==
  LET At(i)   == Past({" "}, body, Past({"@"}, body, i))
      Here(i) == {n \in names : StandsAt(NameOf[n], body, At(i))}
      Longest(i) == CHOOSE n \in Here(i) : \A m \in Here(i) : Len(NameOf[m]) <= Len(NameOf[n])
  IN  {Token("Mention", 0, i, At(i) + Len(NameOf[Longest(i)]), Longest(i)) :
         i \in {j \in 1..Len(body) : Here(j) # {}}}

\* A key of an item, its slot ("-" and a digit, or a digit) included.
ItemEnd(body, after) ==
  LET digit == Past({"-"}, body, after)
  IN  IF Past({"1"}, body, digit) > digit THEN digit + 1 ELSE after

\* The k-th key of a function, each time it occurs.
KeysIn(f, k, key, body) ==
  {Token(f, k, i, IF f = "Item" THEN ItemEnd(body, i + Len(key)) ELSE i + Len(key), "") :
     i \in {j \in 1..Len(body) : StandsAt(key, body, j)}}

\* Every token of the functions switched on: each scan leaves out what overlaps.
TokensIn(functions, p, body) ==
  LET on == functions.enabled
      Scan(hits) == ToSet(LeftToRight(hits, Len(body)))
  IN  (IF "Mention" \in on THEN Scan(MentionsIn(body, Talkers \ {p})) ELSE {}) \cup
      UNION {UNION {Scan(KeysIn(f, k, functions.keys[f][k], body)) :
                      k \in DOMAIN functions.keys[f]} :
               f \in on \ {"Mention"}}

\* Mutant: only the start of a token decides.
AcceptedByStart(tokens, n) ==
  LeftToRight({[t EXCEPT !.rank = -t.rank] : t \in tokens}, n)

\* Mutant: a token may begin inside the one before.
AcceptedEveryStart(tokens, n) ==
  LET At(i) == {t \in tokens : t.start = i}
      Visit(acc, i) == IF At(i) = {} THEN acc
                       ELSE Append(acc, CHOOSE t \in At(i) : \A u \in At(i) : u.rank <= t.rank)
  IN  FoldLeft(Visit, <<>>, Positions(n))

\* process: by start and then by priority, each token past the one before.
Accepted(tokens, n) == LeftToRight(tokens, n)

Found == [s \in DOMAIN Setups |-> [p \in Talkers |-> [text \in Messages |->
            LET body   == Stripped(text)
                tokens == TokensIn(Setups[s], p, body)
            IN  [body |-> body, tokens |-> tokens, accepted |-> Accepted(tokens, Len(body))]]]]

\* Mutant: a snapshot still opens at the end of its time.
LiveToTheEnd(snapshots) ==
  LET Retain(kept, s) == IF clock - s.at <= SnapshotTtl THEN Append(kept, s) ELSE kept
  IN  FoldLeft(Retain, <<>>, snapshots)

(**************************** Using the tokens *****************************)
\* expire_snapshots retains those within their time.
Live(snapshots) ==
  LET Retain(kept, s) == IF clock - s.at < SnapshotTtl THEN Append(kept, s) ELSE kept
  IN  FoldLeft(Retain, <<>>, snapshots)

\* Mutant: the newest snapshot is kept in front.
StoredInFront(snapshots, id, limited) ==
  <<[id |-> id, at |-> clock, limited |-> limited]>> \o Live(snapshots)

\* Mutant: one more than the limit is kept.
StoredOneMore(snapshots, id, limited) ==
  LET live == Live(snapshots)
      room == IF limited /\ Len(live) > MaxSnapshots THEN Tail(live) ELSE live
  IN  Append(room, [id |-> id, at |-> clock, limited |-> limited])

\* create evicts the oldest to stay within the limit; create_item_snapshot does not.
Stored(snapshots, id, limited) ==
  LET live == Live(snapshots)
      room == IF limited /\ Len(live) >= MaxSnapshots
              THEN SubSeq(live, Len(live) - MaxSnapshots + 2, Len(live)) ELSE live
  IN  Append(room, [id |-> id, at |-> clock, limited |-> limited])

Waits(p, f) == Setup.cooldown[f] > 0 /\ p \notin Operators

\* Mutant: the permission aside, each token of a message asks again.
CanUseEachTime(p, t, st) ==
  /\ <<p, t.function>> \notin Barred
  /\ ~Waits(p, t.function) \/ st.until[<<p, t.function>>] <= clock

\* can_use_function: the permission, then once per message and per cooldown.
CanUse(p, t, st) ==
  /\ <<p, t.function>> \notin Barred
  /\ \/ ~Waits(p, t.function)
     \/ t.function \in st.granted
     \/ st.until[<<p, t.function>>] <= clock

Charges(p, t, st) == Waits(p, t.function) /\ t.function \notin st.granted

\* What one used token adds to the outcome; item is what the named slot holds.
Rendered(p, t, item, st) ==
  LET offers == \/ t.function \in {"Inventory", "EnderChest"}
                \/ t.function = "Item" /\ item # "air" /\ Setup.itemUi
      id     == Len(st.offered) + 1
      alerts == CASE t.function = "Mention"    -> {t.target}
                  [] t.function = "MentionAll" -> Talkers
                  [] OTHER                     -> {}
  IN [st EXCEPT !.mentioned = @ \cup (alerts \ {p}),
                !.safe      = @ /\ ~(t.function = "Item" /\ item = "modded"),
                !.store     = IF offers THEN Stored(@, id, t.function # "Item") ELSE @,
                !.offered   = IF offers THEN Append(@, clock) ELSE @]

Charged(p, t, st) ==
  IF ~Charges(p, t, st) THEN st
  ELSE [st EXCEPT !.granted = @ \cup {t.function},
                  !.until[<<p, t.function>>] = clock + Setup.cooldown[t.function]]

\* One token: the plain text up to it, then what it stands for, or the token as typed.
OneToken(p, body, item, before, t) ==
  LET piece == [text |-> SubSeq(body, before.cursor, t.start - 1),
                token |-> SubSeq(body, t.start, t.end - 1)]
      st    == [before EXCEPT !.pieces = Append(@, piece), !.cursor = t.end]
  IN  IF CanUse(p, t, st)
      THEN [Rendered(p, t, item, Charged(p, t, st)) EXCEPT !.used = @ \cup {t.function}]
      ELSE [st EXCEPT !.refused = @ \cup {t.function}]

\* The loop of process, token by token.
Render(p, found, item) ==
  LET start == [cursor |-> 1, pieces |-> <<>>, used |-> {}, refused |-> {},
                granted |-> {}, mentioned |-> {}, safe |-> TRUE,
                until |-> until, store |-> store, offered |-> offered]
      Turn(before, t) == OneToken(p, found.body, item, before, t)
  IN  FoldLeft(Turn, start, found.accepted)

(******************************** The steps ********************************)
NoOutcome == [sender |-> "", found |-> [body |-> <<>>, tokens |-> {}, accepted |-> <<>>],
              pieces |-> <<>>, rest |-> <<>>, used |-> {}, refused |-> {}, granted |-> {},
              mentioned |-> {}, safe |-> TRUE, since |-> <<>>]
NoView    == [found |-> FALSE, age |-> SnapshotTtl, newer |-> 0]

FunctionsInit ==
  /\ clock = 0 /\ setup = 1
  /\ until = [x \in Talkers \X FunctionNames |-> 0]
  /\ grants = [x \in Talkers \X FunctionNames |-> [at |-> Never, window |-> 0]]
  /\ store = <<>> /\ offered = <<>>
  /\ outcome = NoOutcome /\ viewed = NoView

\* A chat message (or a private one) goes through process.
Say(p, text, item) ==
  LET found == Found[setup][p][text]
      r     == Render(p, found, item)
  IN  /\ Len(r.offered) <= MaxOffered
      /\ until' = r.until /\ store' = r.store /\ offered' = r.offered
      /\ grants' = [x \in DOMAIN grants |->
                      IF x[1] = p /\ x[2] \in r.granted
                      THEN [at |-> clock, window |-> Setup.cooldown[x[2]]] ELSE grants[x]]
      /\ outcome' = [sender |-> p, found |-> found, pieces |-> r.pieces,
                     rest |-> SubSeq(found.body, r.cursor, Len(found.body)), used |-> r.used,
                     refused |-> r.refused, granted |-> r.granted,
                     mentioned |-> r.mentioned, safe |-> r.safe,
                     since |-> [f \in r.granted \cup r.refused |->
                                  [gap    |-> IF grants[<<p, f>>].at = Never THEN MaxClock + 1
                                              ELSE clock - grants[<<p, f>>].at,
                                   window |-> grants[<<p, f>>].window]]]
      /\ viewed' = NoView
      /\ UNCHANGED <<clock, setup>>

\* /trchat view: whoever clicks, while the snapshot is kept.
View(id) ==
  /\ store' = Live(store)
  /\ viewed' = [found |-> \E i \in DOMAIN store' : store'[i].id = id,
                age   |-> clock - offered[id],
                newer |-> Len(offered) - id]
  /\ outcome' = NoOutcome
  /\ UNCHANGED <<clock, setup, until, offered, grants>>

Reconfigure ==
  /\ setup < Len(Setups)
  /\ setup' = setup + 1
  /\ outcome' = NoOutcome /\ viewed' = NoView
  /\ UNCHANGED <<clock, until, store, offered, grants>>

TimePasses ==
  /\ clock < MaxClock
  /\ clock' = clock + 1
  /\ outcome' = NoOutcome /\ viewed' = NoView
  /\ UNCHANGED <<setup, until, store, offered, grants>>

FunctionsNext ==
  \/ \E p \in Talkers, text \in Messages, item \in Slots : Say(p, text, item)
  \/ \E id \in DOMAIN offered : View(id)
  \/ Reconfigure
  \/ TimePasses

FunctionsSpec == FunctionsInit /\ [][FunctionsNext]_functionsVars

(******************************* Properties ********************************)
FunctionsTypeOK ==
  /\ clock \in 0..MaxClock /\ setup \in DOMAIN Setups
  /\ until \in [Talkers \X FunctionNames -> Nat]
  /\ store \in Seq([id : DOMAIN offered, at : 0..clock, limited : BOOLEAN])
  /\ offered \in Seq(0..clock)
  /\ \A i, j \in DOMAIN store : i < j => store[i].id < store[j].id

\* The pieces of a message, one after the other.
Rejoined(pieces) ==
  LET Join(text, piece) == text \o piece.text \o piece.token
  IN  FoldLeft(Join, <<>>, pieces)

\* The message is cut into plain text and tokens without losing or repeating a
\* symbol of it: whatever is refused is shown as it was typed.
NothingLost == Rejoined(outcome.pieces) \o outcome.rest = outcome.found.body

\* Of the tokens that overlap, the one that starts first is kept and of those
\* that start together the one of the highest priority: a name is never
\* mentioned inside @all, and a token left out is covered by one that is kept.
StrongestFirst ==
  LET kept == ToSet(outcome.found.accepted)
  IN  /\ \A t, u \in kept : t # u => t.end <= u.start \/ u.end <= t.start
      /\ \A t \in outcome.found.tokens \ kept : \E u \in kept :
           /\ u.start <= t.start /\ t.start < u.end
           /\ u.start = t.start => u.rank >= t.rank

\* A function is charged no sooner than the cooldown of its last charge allows, a
\* message is refused it only within that cooldown, and never after it was
\* granted to an earlier token of the same message; being refused does not
\* start the cooldown again.
UsesSpaced ==
  /\ outcome.granted \cap outcome.refused = {}
  /\ \A f \in outcome.granted : outcome.since[f].gap >= outcome.since[f].window
  /\ \A f \in outcome.refused :
       <<outcome.sender, f>> \in Barred \/ outcome.since[f].gap < outcome.since[f].window

\* A token is found, claimed and charged for as it was typed, or shown as typed.
TokensGranted == FunctionsTypeOK /\ NothingLost /\ StrongestFirst /\ UsesSpaced

\* A snapshot opens as often as one likes until it is too old or as many newer
\* ones were offered as are kept, and never after its time.
ViewedWhileLive ==
  IF viewed.found THEN viewed.age < SnapshotTtl
  ELSE viewed = NoView \/ viewed.age >= SnapshotTtl \/ viewed.newer >= MaxSnapshots

\* However often item snapshots, which skip the limit, come in between, no more
\* inventories are kept than the limit.
InventoriesBounded ==
  Cardinality({i \in DOMAIN store : store[i].limited}) <= MaxSnapshots

\* What is offered can be looked at while it lives, and no more is kept.
SnapshotsKept == ViewedWhileLive /\ InventoriesBounded
=============================================================================
