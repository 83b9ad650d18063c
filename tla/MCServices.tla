------------------------------ MODULE MCServices ------------------------------
EXTENDS ChatFunctions, CommandController, WordFilter, FilterRefresh, Configuration,
        ReleaseNotices, ReleaseNotes, RedisConnection, WireComponents, Calendar,
        Rendering, MessageScores, ChatLog, ProxyReader

\* Two players, the name of one beginning the name of the other, the key of
\* Mention-All beginning like a mention, and a function key inside a name.
MCNameOf == [al |-> <<"al">>, ex |-> <<"al", "i">>]
MCMessages == {<<"@", " ", "al", "i", "-", "1">>, <<"@", "al", "&", "i", "@", "al">>,
               <<"e", "i", "1", "inv">>}
MCBarred == {<<"al", "EnderChest">>}
Windows(item, all) == [Mention |-> 0, Item |-> item, EnderChest |-> 0,
                       Inventory |-> 0, MentionAll |-> all]
MCSetups ==
  <<[enabled |-> FunctionNames, itemUi |-> TRUE, cooldown |-> Windows(2, 1),
     keys |-> [Item |-> <<<<"i">>>>, EnderChest |-> <<<<"e">>>>,
               Inventory |-> <<<<"inv">>>>, MentionAll |-> <<<<"@", "al">>, <<"al", "al">>>>]],
    [enabled |-> {"Item", "Inventory"}, itemUi |-> FALSE, cooldown |-> Windows(1, 0),
     keys |-> [Item |-> <<<<"i">>>>, Inventory |-> <<<<"inv">>>>]]>>

MCGrants == {<<"al", "vip">>, <<"ex", "trchat.bypass.cmdcooldown">>}
MCLines == {[label |-> "tpa", input |-> "tpa bob"], [label |-> "tpa", input |-> "tpa"],
            [label |-> "help", input |-> "help"], [label |-> "", input |-> ""]}
Condition(kind, node, nots) == [kind |-> kind, node |-> node, nots |-> nots]
Rule(pattern, exact, condition, window, source) ==
  [pattern |-> pattern, exact |-> exact, condition |-> condition,
   window |-> window, source |-> source, compiles |-> pattern # {}]
MCControllers ==
  <<[enabled |-> TRUE,
     rules |-> <<Rule({}, FALSE, Condition("empty", "", 0), 3, "bad"),
                 Rule({"tpa"}, TRUE, Condition("perm", "vip", 0), 1, "a"),
                 Rule({"tpa"}, FALSE, Condition("operator", "", 1), 2, "b")>>],
    [enabled |-> TRUE,
     rules |-> <<Rule({"tpa", "help"}, FALSE, Condition("other", "", 1), 3, "b")>>],
    [enabled |-> FALSE, rules |-> <<Rule({"tpa"}, FALSE, Condition("empty", "", 0), 1, "a")>>]>>
MCOperatorSets == {{}, {"al"}}

\* Two thesauri; one word begins another, and one is written in capitals.
MCPublished == [a |-> <<{<<"b", "d">>}, {<<"b", "d">>, <<"B", "a", "d">>}>>, b |-> <<{<<"a", "d">>}>>]
Words(enabled, urls, ignored, places, white) ==
  [enabled |-> enabled, urls |-> urls, ignored |-> ignored, places |-> places,
   local |-> {<<"b", "a">>}, punctuation |-> {".", "*"}, whiteList |-> white]
MCSections == <<Words(TRUE, {"a", "b"}, {<<"b", "d">>}, {"chat"}, {}),
                Words(TRUE, {"a"}, {}, {"chat", "anvil"}, {<<"a", "d">>})>>
MCTexts == {<<"b", ".", "F", "d", "B">>, <<"b", "a", "a", "d", "b">>, <<"a", ".", "b", ".", "d">>}
MCLower == [b |-> "b", a |-> "a", d |-> "d", B |-> "b", F |-> "F"] @@ ("." :> ".") @@ ("*" :> "*")
MCNorm == [MCLower EXCEPT !["F"] = "a"]
MCBlocked == <<<<"d", "b">>, <<"a", "d", "b">>>>

Settings1(enabled, ignored, local) ==
  [enabled |-> enabled, urls |-> {"a", "b"}, ignored |-> ignored, local |-> local]
MCProfiles == <<Settings1(TRUE, {"x"}, {"p"}), Settings1(FALSE, {}, {"q"}), Settings1(TRUE, {"y"}, {"p", "r"})>>
MCDatabases == [a |-> {"x", "y"}, b |-> {"y", "z"}]

\* Two versions of the resources, the second with a setting and a text more.
Tree(f) == f @@ (<<>> :> "map")
OneFile(key, value) == Tree(<<key>> :> value)
MCSchema == Tree((<<"Options">> :> "map") @@ (<<"Options", "Auto-Join">> :> "false") @@
                 (<<"Options", "Private">> :> "false") @@ (<<"Sender">> :> "map") @@ (<<"Sender", "chat">> :> "[]"))
Options(options) == Tree((<<"Options">> :> "map") @@ options)
MCBundle ==
  [settings |-> Tree((<<"chat">> :> "map") @@ (<<"chat", "cooldown">> :> "0") @@ (<<"words">> :> "[]")),
   datasource |-> OneFile("type", "file"), filter |-> OneFile("words", "[]"),
   Normal |-> Options(<<"Options", "Auto-Join">> :> "true"),
   function |-> OneFile("key", "k"), special |-> OneFile("SpecialChars", "[]"),
   lang |-> Tree((<<"Hello">> :> "hi") @@ (<<"Placeholder-Translations">> :> "map") @@
                 (<<"Placeholder-Translations", "yes">> :> "si"))]
MCBundled == <<MCBundle, [MCBundle EXCEPT !.settings = Tree(<<"chat", "limit">> :> "9") @@ @,
                                          !.lang = OneFile("Bye", "bye") @@ @]>>
MCEdits ==
  {<<"settings", Tree((<<"chat">> :> "map") @@ (<<"chat", "cooldown">> :> "5") @@ (<<"old">> :> "x"))>>,
   <<"settings", Tree((<<"chat">> :> "7") @@ (<<"words">> :> "[w]"))>>,
   <<"settings", Tree((<<"chat">> :> "map") @@ (<<"chat", "cooldown">> :> "map") @@ (<<"chat", "cooldown", "x">> :> "?"))>>,
   <<"Normal", Options(<<"Options", "Private">> :> "true") @@ (<<"Sender">> :> "map") @@ (<<"Sender", "chat">> :> "[w]")>>,
   <<"Custom", Options(<<"Options", "Auto-Join">> :> "true")>>, <<"lang", OneFile("Hello", "ho")>>,
   <<"settings", Missing>>}
  \cup {<<f, Bare("broken")>> : f \in Files} \cup {<<f, Bare("bare")>> : f \in {"function", "lang", "filter", "special"}}

\* Versions as semver.org orders them: 1.0-alpha.1, 1.0.0-alpha.beta, 1.0.0-beta.2,
\* 1.0.0-beta.11, 1.0.0, 1.0.0.1.
V(numbers, pre) == [numbers |-> numbers, pre |-> pre]
Number(n) == <<"number", n>>
Word(n) == <<"word", n>>
MCAscending == <<V(<<1, 0>>, <<Word(1), Number(1)>>), V(<<1, 0, 0>>, <<Word(1), Word(2)>>),
                 V(<<1, 0, 0>>, <<Word(2), Number(2)>>), V(<<1, 0, 0>>, <<Word(2), Number(11)>>),
                 V(<<1, 0, 0>>, <<>>), V(<<1, 0, 0, 1>>, <<>>)>>
MCNotes == {<<l>> : l \in UNION {[1..n -> {" ", "#", "-", "x"}] : n \in 1..5}}
           \cup [1..3 -> {<<>>, <<" ">>, <<" ", "x", " ">>, <<"-", " ", "x">>}]

\* A payload that is a line end, and what else Redis may write: nulls, an array
\* nested too deeply, an error.
Crlf == <<"CR", "LF">>
MCNumerals == ("0" :> 0) @@ ("1" :> 1) @@ ("2" :> 2) @@ ("3" :> 3)
MCAlphabet == {"+", "-", ":", "$", "*", "CR", "LF", "message", "subscribe", "ok", "NOAUTH", "LOADING", "x", "c"}
              \cup DOMAIN MCNumerals
MCPayloads == {<<"x">>, Crlf}
MCGreetings == {<<"+", "ok">> \o Crlf, <<"-", "NOAUTH">> \o Crlf}
MCChannel == <<"c">>
MCStrays == {<<"*", "2">> \o Crlf \o <<"$", "-", "1">> \o Crlf \o <<"*", "-", "1">> \o Crlf,
             <<"*", "1">> \o Crlf \o <<"*", "1">> \o Crlf \o <<"*", "0">> \o Crlf,
             <<"-", "LOADING">> \o Crlf}

\* Components as a plugin writes them: every click, in every place of a hover,
\* nested in children and in hovers. And what only a server with the mod writes.
Text(s) == <<"text", s>>
Plain(s) == Object("text" :> Text(s))
Event(action, fields) == Object(("action" :> Text(action)) @@ fields)
Carrying(key, event) == Object((key :> event) @@ ("text" :> Text("x")))
MCClicks == {Event("open_url", "url" :> Text("u")), Event("run_command", "command" :> Text("c")),
             Event("change_page", "page" :> <<"number", 3>>), Event("copy_to_clipboard", "value" :> Text("c"))}
MCClicked == {Plain("x")} \cup {Carrying("click_event", c) : c \in MCClicks}
MCHovers ==
  {Event("show_text", "value" :> List(l)) : l \in {<<>>} \cup [1..1 -> MCClicked] \cup [1..2 -> {Plain("x"), Plain("y")}]}
  \cup {Event("show_item", ("id" :> Text("i")) @@ f) : f \in {<<>>, "count" :> <<"number", 3>>}}
  \cup {Event("show_entity", ("id" :> Text("pig")) @@ ("uuid" :> Text("1")) @@ f) : f \in {<<>>, "name" :> List(<<Plain("x")>>)}}
MCHovered == MCClicked \cup {Carrying("hover_event", h) : h \in MCHovers}
MCComponents == MCHovered \cup {Carrying(k, List(l)) : k \in {"extra", "with"}, l \in [1..2 -> MCHovered]}
                \cup {Carrying("hover_event", Event("show_text", "value" :> List(<<c>>))) : c \in MCHovered}
PageClick == Carrying("clickEvent", Event("change_page", "value" :> Text("2")))
NamedEntity == Object(("type" :> Text("pig")) @@ ("name" :> PageClick))
MCModComponents ==
  {PageClick, Carrying("hoverEvent", Event("show_text", "contents" :> Plain("x"))),
   Carrying("hoverEvent", Event("show_item", "contents" :> Text("i"))),
   Carrying("extra", List(<<Carrying("hoverEvent", Event("show_entity", "contents" :> NamedEntity))>>))}

\* Over the last day of an era, over the epoch, a century that leaps and one that
\* does not, and the year 0.
MCWalks == {<<11014, <<2000, 2, 27>>, 3>>, <<0, <<1970, 1, 1>>, 800>>, <<-25875, <<1899, 2, 27>>, 400>>,
            <<10953, <<1999, 12, 28>>, 432>>, <<-719836, <<-1, 2, 27>>, 800>>}
Between(c) == <<"literal", c>>
MCPatterns ==
  {<<<<"y", 4>>, Between("-"), <<"M", 2>>, Between("-"), <<"d", 2>>, Between(" "),
     <<"H", 2>>, Between(":"), <<"m", 2>>, Between(":"), <<"s", 2>>>>,
   <<<<"d", 1>>, Between("."), <<"M", 1>>, Between("."), <<"y", 1>>, Between(" "),
     <<"H", 1>>, Between(":"), <<"m", 1>>, Between(":"), <<"s", 1>>>>}
MCTargets == {1900, 2000, 2023, 2024} \X {1, 2, 3, 4, 12, 13} \X {0, 1, 28, 29, 30, 31, 32}

\* Badges and other parts, for operators, for others, and for none; tiers of the
\* same and of other priorities; colours and none.
Always == <<0, "">>
Part(condition, text) == [condition |-> condition, text |-> text]
TierOf(condition, priority, prefix, colour, special, suffix) ==
  [condition |-> condition, priority |-> priority, prefix |-> prefix,
   colour |-> colour, special |-> special, suffix |-> suffix]
Badges == <<<<Part(<<0, "op">>, <<"&", "a", "O">>), Part(Always, <<"P", "{world}">>)>>, <<Part(<<1, "vip">>, <<"n">>)>>>>
Endings == <<<<Part(<<0, "vip">>, <<"V">>), Part(<<2, "op">>, <<"!">>)>>>>
MCChannels ==
  <<[formats |-> <<TierOf(Always, 1, Badges, "f", "b", Endings), TierOf(<<0, "vip">>, 2, <<>>, "", "b", Endings)>>,
     console |-> <<>>, sender |-> <<TierOf(Always, 1, Badges, "f", "b", <<>>)>>,
     receiver |-> <<TierOf(<<0, "op">>, 1, Badges, "f", "b", Endings)>>],
    [formats |-> <<TierOf(<<0, "?">>, 9, Badges, "f", "b", <<>>), TierOf(<<0, "op">>, 1, Badges, "a", "long", Endings),
                   TierOf(<<0, "op">>, 1, <<>>, "a", "", Endings)>>,
     console |-> <<TierOf(Always, 0, <<>>, "", "", <<>>)>>, sender |-> <<>>,
     receiver |-> <<TierOf(<<0, "op">>, 1, <<>>, "f", "b", <<>>), TierOf(Always, 0, <<>>, "long", "a", <<>>)>>]>>
MCSayings == UNION {[1..n -> {"x", "&", "a", "G", "E"}] : n \in 0..3}
             \cup {<<"G", "x", "E", "G", "G">>, <<"G", "{world}">>, <<"{world}", "&", "r", "G">>, <<"&", "a", "G", "E", "G">>}
MCNames == "{world}" :> <<"W">>

MCLowerCase == ("a" :> "a") @@ ("A" :> "a") @@ ("b" :> "b") @@ (" " :> " ")
MCFirst == {<<>>, <<"a", "b", "b">>, <<"a", "A", " ", "a", "a">>}
MCExcused == {{}, {<<"a">>}, {<<"a", "b">>, <<>>}}

\* Packets the reader takes up, those of one message empty as well; one for each
\* check that refuses one, and one whose data is corrupt.
Someone == CHOOSE u \in Uids : TRUE
WellFormed ==
  {p \in [uid : Uids, index : 1..MaxChunks, total : 1..MaxChunks,
          data : [len : 0..MaxChunkLength, ok : {TRUE}]] :
     p.index <= p.total /\ (p.data.len = 0 => p.uid = Someone)}
Malformed ==
  LET Bad(u, i, t, n) == [uid |-> u, index |-> i, total |-> t, data |-> [len |-> n, ok |-> TRUE]]
  IN {Bad(BadUid, 1, 1, 1), Bad(Someone, 0, 1, 1), Bad(Someone, 2, 1, 1), Bad(Someone, 1, 0, 1),
      Bad(Someone, 1, MaxChunks + 1, 1), Bad(Someone, 1, 1, MaxChunkLength + 1),
      [uid |-> Someone, index |-> 1, total |-> 1, data |-> [len |-> 1, ok |-> FALSE]]}
MCPackets == WellFormed \cup Malformed

ASSUME MCResources == KeysStay /\ BundleReadable

VARIABLE service   \* the one that moves; the others keep still

Moves(s, next, moved) ==
  /\ service = s /\ next
  /\ moved # 1 => UNCHANGED functionsVars
  /\ moved # 2 => UNCHANGED commandVars
  /\ moved # 3 => UNCHANGED filterVars
  /\ moved # 4 => UNCHANGED refreshVars
  /\ moved # 5 => UNCHANGED configVars
  /\ moved # 6 => UNCHANGED noticeVars
  /\ moved # 7 => UNCHANGED note
  /\ moved # 8 => UNCHANGED redisVars
  /\ moved # 9 => UNCHANGED wireVars
  /\ moved # 10 => UNCHANGED calendarVars
  /\ moved # 11 => UNCHANGED renderVars
  /\ moved # 12 => UNCHANGED scoreVars
  /\ moved # 13 => UNCHANGED logVars
  /\ moved # 14 => UNCHANGED vars

ServicesInit ==
        /\ Init /\ FunctionsInit /\ CommandInit /\ WordsInit /\ RefreshInit
        /\ ConfigInit /\ NoticesInit /\ NotesInit /\ RedisInit
        /\ WireInit /\ CalendarInit /\ RenderInit /\ ScoresInit /\ LogInit
        /\ service \in {"functions", "commands", "words", "refresh", "config",
                       "notices", "notes", "redis", "wire", "calendar",
                       "rendering", "scores", "log", "reader"}
        \* A component that keeps still has one state.
        /\ service # "notices" => started /\ current = 1 /\ served = <<1, 1>>
        /\ service # "commands" => operators = {}
        /\ service # "calendar" => walk[1] = 0
        /\ service # "scores" => first = <<>> /\ excused = {}
        /\ service # "log" => retention = 0
ServicesNext ==
        /\ UNCHANGED service
        /\ \/ Moves("functions", FunctionsNext, 1)
           \/ Moves("commands", CommandNext, 2)
           \/ Moves("words", WordsNext, 3)
           \/ Moves("refresh", RefreshNext, 4)
           \/ Moves("config", ConfigNext, 5)
           \/ Moves("notices", NoticesNext, 6)
           \/ Moves("notes", NotesNext, 7)
           \/ Moves("redis", RedisNext, 8)
           \/ Moves("wire", WireNext, 9)
           \/ Moves("calendar", CalendarNext, 10)
           \/ Moves("rendering", RenderNext, 11)
           \/ Moves("scores", ScoresNext, 12)
           \/ Moves("log", LogNext, 13)
           \/ Moves("reader", Next, 14)

\* The fairness each component states for its actions, while it is its turn.
Fairness ==
  /\ \A u \in Urls : WF_cloudVars(service = "words" /\ RefreshAnswered(u))
  /\ \A w \in Workers : /\ WF_refreshVars(service = "refresh" /\ FetchSome(w))
                         /\ WF_refreshVars(service = "refresh" /\ EndRefresh(w))
                         /\ WF_refreshVars(service = "refresh" /\ HourlyTick(w))
  /\ WF_vars(service = "reader" /\ Tick)
  /\ WF_vars(service = "reader" /\ Advance)

allVars == <<service, functionsVars, commandVars, filterVars, refreshVars,
             configVars, noticeVars, note, redisVars,
             wireVars, calendarVars, renderVars, scoreVars, logVars, vars>>
ServicesSpec == ServicesInit /\ [][ServicesNext]_allVars /\ Fairness

\* What the plugin shows or sends as a text is what its reference definition says:
\* components in the shape of either side, dates, patterns and durations (redis.rs,
\* clock.rs, placeholder.rs).  A component that keeps still is as it began.
FormatsAgree ==
  /\ service = "wire" => ArrivesAsSent /\ EachItsOwnShape
  /\ service = "calendar" => CalendarAgrees /\ ReadsBack /\ ClockShown /\ OnlyRealDates

\* And so are the notes of a release, a message in its colours, and the scores of
\* two messages (updater.rs, special.rs, chat.rs).
TextsAgree ==
  /\ service = "notes" => LinesAsThePatterns /\ NotesComplete
  /\ service = "rendering" => ColoursAsConfigured /\ ConsoleAsShown /\ OneBadge
  /\ service = "scores" => DistanceIsChanges /\ RepeatsFound

\* The words that are published, and the settings in force, prevail in the end, in
\* the plugin and in the mod (cloud.rs, FilterService.java).
WordsArrive == InForceInTheEnd /\ NewSettingsPrevail
===============================================================================
