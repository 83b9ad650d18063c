----------------------------- MODULE ReleaseNotes -----------------------------
(***************************************************************************)
(* How the plugin reads the notes of a release (updater.rs, after          *)
(* ReleaseNotes.java): a text is a sequence of lines, a line a sequence of *)
(* symbols, of which " " is the blank and "#" and "-" are the markers.     *)
(***************************************************************************)
EXTENDS Integers, Sequences, SequencesExt

CONSTANT Notes   \* the texts a release may have

VARIABLE note    \* the last text shown, and the lines it became

TrimStart(s) == LET kept == {i \in DOMAIN s : s[i] # " "}
                IN  IF kept = {} THEN <<>> ELSE SubSeq(s, Min(kept), Len(s))
TrimEnd(s)   == LET kept == {i \in DOMAIN s : s[i] # " "}
                IN  IF kept = {} THEN <<>> ELSE SubSeq(s, 1, Max(kept))
TrimHashes(s) == LET kept == {i \in DOMAIN s : s[i] # "#"}
                 IN  IF kept = {} THEN <<>> ELSE SubSeq(s, 1, Max(kept))

\* match_marked: what stands after the marker, or NoMatch.
NoMatch == <<"no match">>
\* Mutant: the blank after the marker is not asked for.
MatchMarkedTight(s, marker) ==
  LET from == TrimStart(s)
      rest == SubSeq(from, Len(marker) + 1, Len(from))
  IN  IF ~IsPrefix(marker, from) THEN NoMatch
      ELSE IF TrimEnd(TrimStart(rest)) = <<>> THEN <<" ">>
      ELSE TrimEnd(TrimStart(rest))

MatchMarked(s, marker) ==
  LET from == TrimStart(s)
      rest == SubSeq(from, Len(marker) + 1, Len(from))
  IN  IF ~IsPrefix(marker, from) \/ TrimStart(rest) = rest THEN NoMatch
      ELSE IF TrimEnd(TrimStart(rest)) = <<>> THEN <<" ">>
      ELSE TrimEnd(TrimStart(rest))

\* heading_text: without the closing run of an ATX heading.
HeadingText(s) ==
  LET trimmed == TrimEnd(s)
      open    == TrimHashes(trimmed)
  IN  TrimStart(TrimEnd(IF Len(open) < Len(trimmed) /\ Len(TrimEnd(open)) < Len(open)
                        THEN TrimEnd(open) ELSE trimmed))

\* parse_line, of a line that normalize trimmed at its end.
ParseLine(s) ==
  IF TrimStart(s) = <<>> THEN [kind |-> "blank", text |-> <<>>]
  ELSE IF MatchMarked(s, <<"#", "#", "#">>) # NoMatch
       THEN [kind |-> "###", text |-> HeadingText(MatchMarked(s, <<"#", "#", "#">>))]
  ELSE IF MatchMarked(s, <<"#", "#">>) # NoMatch
       THEN [kind |-> "##", text |-> HeadingText(MatchMarked(s, <<"#", "#">>))]
  ELSE IF MatchMarked(s, <<"-">>) # NoMatch
       THEN [kind |-> "-", text |-> MatchMarked(s, <<"-">>)]
  ELSE [kind |-> "text", text |-> s]

\* Mutant: the last line that says something is cut off.
NormalizeShort(text) ==
  LET kept == {i \in DOMAIN text : TrimStart(text[i]) # <<>>}
  IN  IF kept = {} THEN <<>>
      ELSE [i \in 1..(Max(kept) - Min(kept)) |-> TrimEnd(text[i + Min(kept) - 1])]

\* normalize: no blank lines at either end, no blanks at the end of a line.
Normalize(text) ==
  LET kept == {i \in DOMAIN text : TrimStart(text[i]) # <<>>}
  IN  IF kept = {} THEN <<>>
      ELSE [i \in 1..(Max(kept) - Min(kept) + 1) |-> TrimEnd(text[i + Min(kept) - 1])]

NotesInit == note = [of |-> <<>>, lines |-> <<>>]

\* notification_parts: every line of the notes, each parsed by itself.
ShowNotes(text) ==
  LET lines == Normalize(text)
  IN  note' = [of |-> text, lines |-> [i \in DOMAIN lines |-> [of |-> lines[i], is |-> ParseLine(lines[i])]]]

\* One text per behaviour: nothing is kept from one to the next.
NotesNext == note.of = <<>> /\ \E text \in Notes : ShowNotes(text)

(******************************* Properties ********************************)
\* Every line is what the patterns of the mod, ^ *<marker> +(.+?) *$ tried one
\* after the other, make of it: the marker is alone, the text goes from the first
\* symbol after the blanks to the last, and a heading loses its closing run only.
LinesAsThePatterns ==
  LET Heads(s, marker) ==   \* where the texts start that the pattern can find in s
        {i \in DOMAIN s : s[i] # " " /\ \E m \in 1..(i - Len(marker) - 1) :
           /\ SubSeq(s, m, m + Len(marker) - 1) = marker
           /\ \A k \in 1..(i - 1) : k \in m..(m + Len(marker) - 1) \/ s[k] = " "}
      Marker(kind) == CASE kind = "###" -> <<"#", "#", "#">> [] kind = "##" -> <<"#", "#">> [] OTHER -> <<"-">>
      Closing(s, i) == s[i] = " " /\ i < Len(s) /\ \A j \in (i + 1)..Len(s) : s[j] \in {"#"}
      Agrees(s, is) ==
        CASE is.kind = "blank" -> \A i \in DOMAIN s : s[i] = " "
          [] is.kind = "text"  -> is.text = s /\ \A k \in {"###", "##", "-"} : Heads(s, Marker(k)) = {}
          [] OTHER -> \E i \in Heads(s, Marker(is.kind)) :
               LET text == SubSeq(s, i, Len(s))
                   cuts == {c \in DOMAIN text : Closing(text, c)}
               IN  IF is.kind = "-" \/ cuts = {} THEN is.text = text
                   ELSE is.text = TrimEnd(SubSeq(text, 1, Min(cuts)))
  IN  \A i \in DOMAIN note.lines : Agrees(note.lines[i].of, note.lines[i].is)

\* No line that says something is lost, and none is empty at either end.
NotesComplete ==
  LET Says0(lines) == SelectSeq(lines, LAMBDA l : TrimStart(l) # <<>>)
      shown == [i \in DOMAIN note.lines |-> note.lines[i].of]
  IN  /\ Says0(shown) = [i \in DOMAIN Says0(note.of) |-> TrimEnd(Says0(note.of)[i])]
      /\ \A i \in DOMAIN note.lines \cap {1, Len(note.lines)} : note.lines[i].is.kind # "blank"
===============================================================================
