------------------------------- MODULE Rendering -------------------------------
(***************************************************************************)
(* How a message is shown (chat.rs, special.rs, config.rs): the tier and   *)
(* the parts a channel has for this sender, the colour of the body, the    *)
(* glyphs of the resource pack, and the line on the console.  Function     *)
(* tokens, hovers and clicks are left out.                                 *)
(*                                                                         *)
(* A text is a sequence of characters, "&" begins a colour code, a name in *)
(* braces is one character.  What is shown is a sequence of characters     *)
(* with their colours.  A condition is <<how many !, what>>.               *)
(***************************************************************************)
EXTENDS Integers, Sequences, SequencesExt

CONSTANTS Channels,   \* [formats, console, sender, receiver], each a list of tiers
          Sayings,    \* what is said
          Glyphs,     \* special-chars.yml
          Joiners,    \* what continues a glyph: the joiner, skin tones, variations
          Codes,      \* the codes of colours
          Names,      \* what the names in braces stand for
          Rights      \* what a sender may hold: "op", nodes, a colour for its node

VARIABLES rights, picked, channel, view

renderVars == <<rights, picked, channel, view>>

\* Passes a condition: condition::test.
Passes(condition) ==
  LET holds == CASE condition[2] = "" -> TRUE [] condition[2] = "?" -> FALSE [] OTHER -> condition[2] \in rights
  IN  holds = (condition[1] % 2 = 0)

NoTier == [condition |-> <<0, "?">>, priority |-> 0, prefix |-> <<>>, colour |-> "", special |-> "", suffix |-> <<>>]

\* The first of the candidates that may be taken, by priority and then in order.
FirstTier(tiers, may) ==
  IF may = {} THEN NoTier
  ELSE tiers[CHOOSE i \in may : \A j \in may : \/ tiers[i].priority > tiers[j].priority
                                                \/ (tiers[i].priority = tiers[j].priority /\ i <= j)]

\* select_audience_layer.
Tier(tiers) == FirstTier(tiers, {i \in DOMAIN tiers : Passes(tiers[i].condition)})

\* The names in braces replaced by what they stand for.
WithNames(text) == FlattenSeq([i \in DOMAIN text |-> IF text[i] \in DOMAIN Names THEN Names[text[i]] ELSE <<text[i]>>])

\* Mutant: every variant that passes.
PartsOfAll(groups) ==
  LET passing == [g \in DOMAIN groups |-> SelectSeq(groups[g], LAMBDA v : Passes(v.condition))]
  IN  FlattenSeq([g \in DOMAIN groups |-> [i \in DOMAIN passing[g] |-> WithNames(passing[g][i].text)]])

\* group_components and resolved_group_texts: one variant of each group.
Parts(groups) ==
  LET passing == [g \in DOMAIN groups |-> SelectSeq(groups[g], LAMBDA v : Passes(v.condition))]
  IN  FlattenSeq([g \in DOMAIN groups |-> IF passing[g] = <<>> THEN <<>> ELSE <<WithNames(passing[g][1].text)>>])

\* strip_legacy_codes: a code goes with whatever follows it; the last "&" stays.
StripCodes(text) ==
  LET Step(s, i) == IF s.skip THEN [s EXCEPT !.skip = FALSE]
                    ELSE IF text[i] = "&" /\ i < Len(text) THEN [s EXCEPT !.skip = TRUE]
                    ELSE [s EXCEPT !.out = Append(@, text[i])]
  IN  FoldLeft(Step, [out |-> <<>>, skip |-> FALSE], [i \in DOMAIN text |-> i]).out

ColorCode(colour) == IF colour \in Codes THEN <<"&", colour>> ELSE <<>>

\* wrap_special_chars: seen is has_manual_color, manual and inside those of the run.
WrapSpecialChars(text, prefix, suffix) ==
  LET Put(s, i) == [s EXCEPT !.out = Append(@, text[i])]
      Step(s, i) ==
        CASE s.code -> [Put(s, i) EXCEPT !.code = FALSE]
          [] ~s.code /\ text[i] = "&" ->
               [Put(s, i) EXCEPT !.code = i < Len(text),
                                 !.seen = IF i = 1 /\ IsPrefix(suffix, text) THEN @ ELSE i = Len(text) \/ text[i + 1] # "r"]
          [] ~s.code /\ text[i] \in Glyphs \ {"&"} /\ ~s.inside ->
               [s EXCEPT !.out = @ \o (IF s.seen THEN <<>> ELSE prefix) \o <<text[i]>>, !.inside = TRUE, !.manual = s.seen]
          [] ~s.code /\ s.inside /\ text[i] \in (Glyphs \cup Joiners) \ {"&"} -> Put(s, i)
          [] OTHER -> [s EXCEPT !.out = @ \o (IF s.inside /\ ~s.manual THEN suffix ELSE <<>>) \o <<text[i]>>, !.inside = FALSE]
      end == FoldLeft(Step, [out |-> <<>>, inside |-> FALSE, manual |-> FALSE, seen |-> FALSE, code |-> FALSE],
                      [i \in DOMAIN text |-> i])
  IN  IF prefix = <<>> THEN text ELSE end.out \o (IF end.inside /\ ~end.manual THEN suffix ELSE <<>>)

\* sender_chat_color.
SenderColour == IF picked # "" /\ {"op", picked} \cap rights # {} THEN picked ELSE ""

\* The host reads a text with codes.
Shown(text) ==
  LET Step(s, i) == IF s.code THEN [s EXCEPT !.code = FALSE, !.colour = IF text[i] = "r" THEN "" ELSE text[i]]
                    ELSE IF text[i] = "&" /\ i < Len(text) /\ text[i + 1] \in Codes THEN [s EXCEPT !.code = TRUE]
                    ELSE [s EXCEPT !.out = Append(@, <<text[i], s.colour>>)]
  IN  FoldLeft(Step, [out |-> <<>>, colour |-> "", code |-> FALSE], [i \in DOMAIN text |-> i]).out

\* Mutant: the sender's colour without a tier.
BodyColourAnyway(tier) == IF SenderColour = "" THEN ColorCode(tier.colour) ELSE <<"&", SenderColour>>

\* layer_body_template_with_colour; without a tier the template is the bare message.
BodyColour(tier) == CASE tier = NoTier -> <<>>
                      [] tier # NoTier /\ SenderColour # "" -> <<"&", SenderColour>>
                      [] OTHER -> ColorCode(tier.colour)

\* Mutant: the glyphs are wrapped before the codes are stripped.
BodyWrappedFirst(tier, message) ==
  Shown(BodyColour(tier) \o WithNames(StripCodes(WrapSpecialChars(message, ColorCode(tier.special), BodyColour(tier)))))

\* render_template and wrap_special_characters: cleaned, coloured, then wrapped.
BodyShown(tier, message) ==
  Shown(WrapSpecialChars(BodyColour(tier) \o WithNames(StripCodes(message)), ColorCode(tier.special), BodyColour(tier)))

\* render_audience_view, and the component of a public message.
AudienceView(tiers, message) ==
  LET tier == Tier(tiers)
  IN  [prefix |-> Parts(tier.prefix), body |-> BodyShown(tier, message), suffix |-> Parts(tier.suffix)]

\* The flattened templates private messages fall back to: render_msg, select_layer,
\* layer_template.
Fallback(tiers, message) ==
  LET free == {i \in DOMAIN tiers : tiers[i].condition = <<0, "">>}
      tier == FirstTier(tiers, IF free # {} THEN free ELSE DOMAIN tiers)
      Flat(groups) == FlattenSeq([g \in DOMAIN groups |->
                        LET plain == SelectSeq(groups[g], LAMBDA v : v.condition = <<0, "">>)
                        IN  IF plain = <<>> THEN <<>> ELSE plain[1].text])
  IN  [prefix |-> <<>>, body |-> Shown(Flat(tier.prefix) \o ColorCode(tier.colour) \o message \o Flat(tier.suffix)),
       suffix |-> <<>>]

PrivateView(tiers, message) == IF Tier(tiers) = NoTier THEN Fallback(tiers, message) ELSE AudienceView(tiers, message)

\* Mutant: only the message is stripped.
ConsoleLineCoded(tiers, message) ==
  FlattenSeq(Parts(Tier(tiers).prefix)) \o StripCodes(message) \o FlattenSeq(Parts(Tier(tiers).suffix))

\* console_audience_line and assemble_console_text.
ConsoleLine(tiers, message) ==
  StripCodes(FlattenSeq(Parts(Tier(tiers).prefix)) \o message \o FlattenSeq(Parts(Tier(tiers).suffix)))

ConsoleTiers == IF Channels[channel].console = <<>> THEN Channels[channel].formats ELSE Channels[channel].console

NothingSaid == [message |-> <<>>, tiers |-> "none"]

RenderInit == rights = {} /\ picked = "" /\ channel = 1 /\ view = NothingSaid

\* The model stops at a message: what can be seen of it is all there is to check.

\* What chat_pipeline and log_to_console show of a message.
SayPublicly(message) ==
  /\ view = NothingSaid
  /\ view' = [message |-> message, tiers |-> "formats", shown |-> AudienceView(Channels[channel].formats, message),
              console |-> ConsoleLine(ConsoleTiers, message)]
  /\ UNCHANGED <<rights, picked, channel>>

\* A side of a private message.
SayPrivately(message, side) ==
  /\ view = NothingSaid
  /\ view' = [message |-> message, tiers |-> side, shown |-> PrivateView(Channels[channel][side], message),
              console |-> ConsoleLine(ConsoleTiers, message)]
  /\ UNCHANGED <<rights, picked, channel>>

\* ColorCommand: a colour needs its node when it is picked, and when it is used.
PickColour(colour) ==
  /\ view = NothingSaid
  /\ colour = "" \/ {"op", colour} \cap rights # {}
  /\ picked' = colour
  /\ UNCHANGED <<rights, channel, view>>

\* The host grants and takes back; a reload brings another channel.
Permitted(held) == view = NothingSaid /\ rights' = held /\ UNCHANGED <<picked, channel, view>>
ChannelReload(c) == view = NothingSaid /\ channel' = c /\ UNCHANGED <<rights, picked, view>>

RenderNext ==
  \/ \E message \in Sayings : SayPublicly(message) \/ \E side \in {"sender", "receiver"} : SayPrivately(message, side)
  \/ \E colour \in (Codes \ {"r"}) \cup {""} : PickColour(colour)
  \/ \E held \in SUBSET Rights : Permitted(held)
  \/ \E c \in DOMAIN Channels : ChannelReload(c)

(******************************* Properties ********************************)
Chars(shown) == [i \in DOMAIN shown |-> shown[i][1]]
ViewTier == Tier(Channels[channel][view.tiers])
ByTier == view # NothingSaid /\ (view.tiers = "formats" \/ ViewTier # NoTier)

\* Every character of a body has the colour that was configured for it: a glyph, with
\* what continues it, that of the glyphs, any other the sender's own if they may use
\* it and else that of the tier, whatever codes the sender typed; and none of them has
\* a colour when no tier passes.  (A final "&" behind a glyph takes its colour, and so
\* does the rest when no colour is configured.)
ColoursAsConfigured ==
  ByTier =>
    LET text == Chars(view.shown.body)
        own  == CASE SenderColour # "" -> SenderColour
                  [] SenderColour = "" /\ ViewTier.colour \in Codes -> ViewTier.colour
                  [] OTHER -> ""
        InRun(i) == \E j \in 1..i : text[j] \in Glyphs /\ \A k \in (j + 1)..i : text[k] \in Glyphs \cup Joiners
    IN  /\ text = WithNames(StripCodes(view.message))
        /\ \A i \in DOMAIN text :
             IF ViewTier = NoTier THEN view.shown.body[i][2] = ""
             ELSE text[i] # "&" /\ (own # "" \/ InRun(i)) =>
                    view.shown.body[i][2] = IF InRun(i) /\ ViewTier.special \in Codes THEN ViewTier.special ELSE own

\* A channel without a console tier is printed as it is shown, though the line is put
\* together on its own: the same parts in the same places, and nothing of a glyph's
\* colour left.  (A final "&" takes a character of the suffix with it, and a name in
\* braces stays as it was typed: see the README.)
ConsoleAsShown ==
  ByTier /\ view.tiers = "formats" /\ Channels[channel].console = <<>>
    /\ (view.message # <<>> => Last(view.message) # "&" /\ \A n \in DOMAIN Names : n \notin ToSet(view.message))
    => view.console = StripCodes(FlattenSeq(view.shown.prefix)) \o Chars(view.shown.body) \o StripCodes(FlattenSeq(view.shown.suffix))

\* A group contributes one of its variants or nothing: whoever is both, an operator
\* and a player, has one badge; and nobody is given a part they have no right to.
OneBadge ==
  ByTier =>
    LET Bound(groups, shown) ==
          /\ Len(shown) <= Len(groups)
          /\ \A t \in ToSet(shown) : \E g \in DOMAIN groups : \E v \in ToSet(groups[g]) :
               WithNames(v.text) = t /\ Passes(v.condition)
    IN  Bound(ViewTier.prefix, view.shown.prefix) /\ Bound(ViewTier.suffix, view.shown.suffix)
===============================================================================
