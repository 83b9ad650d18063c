----------------------------- MODULE WordFilter -----------------------------
(***************************************************************************)
(* The word filter of the plugin: filter.rs (TextFilter and MessageGuard), *)
(* the filtering step of chat.rs, and the sign and anvil handlers of       *)
(* block_filter.rs, over the words of the section in force and those the   *)
(* cloud thesaurus has accumulated (CloudWords).                           *)
(*                                                                         *)
(* A text is a sequence of symbols.  Lower and Norm are the lowercase and  *)
(* the half-width form of a symbol; a symbol whose lowercase is longer     *)
(* than itself is not modelled.                                            *)
(***************************************************************************)
EXTENDS CloudWords, TextScan

CONSTANTS Texts,     \* what players type
          Lower, Norm,
          Blocked    \* chat.blockedWords of settings.yml, in their order

Symbols == DOMAIN Lower

ASSUME FilterAssumption ==
  /\ "*" \in Symbols
  /\ Texts \subseteq Seq(Symbols) /\ Blocked \in Seq(Seq(Symbols))
  /\ \A u \in Urls : \A e \in DOMAIN Published[u] : Published[u][e] \subseteq Seq(Symbols)
  /\ \A s \in DOMAIN Sections :
       Sections[s].local \subseteq Seq(Symbols) /\ Sections[s].urls \subseteq Urls

VARIABLES filtered   \* the last text a handler filtered, and what it became

filterVars == <<cloudVars, filtered>>
NothingFiltered == [of |-> <<>>, to |-> <<>>, words |-> {}, matches |-> 0, told |-> FALSE]

Each(text, form) == [i \in DOMAIN text |-> form[text[i]]]
Punctuation(text, i) == Norm[text[i]] \in Profile.punctuation

\* protected_characters: what every occurrence of a white-listed phrase covers.
Protected(text) ==
  LET Covered(phrase) ==
        LET finds == {[start |-> i, end |-> i + Len(phrase), rank |-> 0] :
                        i \in {j \in DOMAIN text : StandsAt(phrase, Each(text, Lower), j)}}
        IN  UNION {f.start..(f.end - 1) : f \in ToSet(LeftToRight(finds, Len(text)))}
  IN  UNION {Covered(phrase) : phrase \in Profile.whiteList}

\* try_match_word: the symbols from start on that are not punctuation spell the
\* word, and nothing up to its last symbol is protected.
Spelling(text, start, word) ==
  LET Collect(read, i) == IF i >= start /\ ~Punctuation(text, i) THEN Append(read, i) ELSE read
      read == FoldLeft(Collect, <<>>, Positions(Len(text)))
  IN  IF Len(word) > Len(read) \/ \E k \in DOMAIN word : Norm[text[read[k]]] # word[k]
      THEN {} ELSE start..read[Len(word)]

MatchesAt(text, start, words) ==
  {word \in words : /\ Spelling(text, start, word) # {}
                    /\ Spelling(text, start, word) \cap Protected(text) = {}}

\* Mutant: a word that ends the text is missed.
FindsBeforeTheEnd(text, words) ==
  LET Open == {i \in DOMAIN text : i \notin Protected(text) /\ ~Punctuation(text, i)}
      Ends(i, word) == i + Cardinality(Spelling(text, i, word))
  IN  UNION {{[start |-> i, end |-> Ends(i, word), rank |-> Len(word)] :
                word \in {w \in MatchesAt(text, i, words) : Ends(i, w) <= Len(text)}} : i \in Open}

\* filter_with_count: the longest word at each start that is open to one.
Finds(text, words) ==
  LET Open == {i \in DOMAIN text : i \notin Protected(text) /\ ~Punctuation(text, i)}
  IN  UNION {{[start |-> i, end |-> i + Cardinality(Spelling(text, i, word)), rank |-> Len(word)] :
                word \in MatchesAt(text, i, words)} : i \in Open}

\* Mutant: the punctuation inside a word is replaced with it.
FilterWithCountWhole(text, words) ==
  LET found == LeftToRight(Finds(text, words), Len(text))
      hit   == UNION {f.start..(f.end - 1) : f \in ToSet(found)}
  IN  [text |-> [i \in DOMAIN text |-> IF i \in hit THEN "*" ELSE text[i]], matches |-> Len(found)]

FilterWithCount(text, words) ==
  LET found == LeftToRight(Finds(text, words), Len(text))
      hit   == UNION {f.start..(f.end - 1) : f \in ToSet(found)}
  IN  [text    |-> [i \in DOMAIN text |-> IF i \in hit /\ ~Punctuation(text, i)
                                          THEN "*" ELSE text[i]],
       matches |-> Len(found)]

\* MessageGuard::filter: at each position the first blocked word of the list.
Guarded(text) ==
  LET lower == Each(text, Lower)
      finds == UNION {{[start |-> i, end |-> i + Len(Blocked[k]), rank |-> -k] :
                         i \in {j \in DOMAIN text : StandsAt(Blocked[k], lower, j)}} :
                        k \in DOMAIN Blocked}
      hit   == UNION {f.start..(f.end - 1) : f \in ToSet(LeftToRight(finds, Len(text)))}
  IN  [i \in DOMAIN text |-> IF i \in hit THEN "*" ELSE text[i]]

\* text_filter: the local words and the cloud words, whether or not the cloud is
\* still enabled; blank ones are dropped.
WordsInForce == {Each(word, Norm) : word \in (Profile.local \cup cloudWords) \ {<<>>}}

\* The filtering step of a chat message, a line of a sign, an anvil name.
Filtered(text, place) ==
  IF place \in Profile.places THEN FilterWithCount(text, WordsInForce)
  ELSE [text |-> text, matches |-> 0]

Filter(text, place, operator) ==
  LET result == Filtered(text, place)
  IN  /\ filtered' = [of |-> text, words |-> IF place \in Profile.places THEN WordsInForce ELSE {},
                      to |-> IF place = "chat" THEN Guarded(result.text) ELSE result.text,
                      matches |-> result.matches,
                      told |-> place = "anvil" /\ result.matches > 0 /\ ~operator]
      /\ UNCHANGED cloudVars

WordsInit == CloudInit /\ filtered = NothingFiltered
WordsNext ==
  \/ CloudNext /\ filtered' = NothingFiltered
  \/ \E text \in Texts, place \in {"chat", "sign", "anvil"}, operator \in BOOLEAN :
       Filter(text, place, operator)

WordsSpec == WordsInit /\ [][WordsNext]_filterVars

(******************************* Properties ********************************)
\* Wherever a word in force is spelled out, through punctuation, capitals and
\* full-width forms, its first symbol is replaced: one match passing over
\* another leaves neither readable as it was typed.
NoOccurrenceSurvives ==
  \A i \in DOMAIN filtered.of : \A word \in MatchesAt(filtered.of, i, filtered.words) :
    Punctuation(filtered.of, i) \/ filtered.to[i] = "*"

\* A blocked word stands at i, an asterisk of it where one may have been put.
Blocks(word, text, i) ==
  /\ i + Len(word) - 1 <= Len(text)
  /\ \A j \in DOMAIN word : word[j] \in {Lower[text[i + j - 1]], Lower["*"]}

\* Nothing else is touched: the text keeps its length, its punctuation and its
\* white-listed phrases, and a symbol is replaced only inside a word in force or
\* a blocked word.
OnlyWordsTouched ==
  /\ Len(filtered.to) = Len(filtered.of)
  /\ \A k \in DOMAIN filtered.of : filtered.to[k] # filtered.of[k] =>
       \/ /\ ~Punctuation(filtered.of, k) /\ k \notin Protected(filtered.of)
          /\ \E i \in DOMAIN filtered.of : \E word \in MatchesAt(filtered.of, i, filtered.words) :
               k \in Spelling(filtered.of, i, word)
       \/ \E w \in ToSet(Blocked), i \in DOMAIN filtered.of :
            Blocks(w, filtered.of, i) /\ k \in i..(i + Len(w) - 1)

\* The filter finds what is forbidden, all of it, and nothing else.
FilterExact == NoOccurrenceSurvives /\ OnlyWordsTouched
=============================================================================
