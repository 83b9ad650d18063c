----------------------------- MODULE MessageScores -----------------------------
(***************************************************************************)
(* How alike two messages are, and how often a message repeats itself      *)
(* (chat.rs): the scores the guards compare with their thresholds.  A      *)
(* player writes a message and changes it, one character at a time.        *)
(***************************************************************************)
EXTENDS Integers, Sequences, SequencesExt

CONSTANTS Letters,    \* what is typed, " " and capitals included
          LowerCase,  \* the letter each stands for
          First,      \* messages written first
          Excused,    \* sets of phrases whose repetition is excused
          MaxLength, MaxChanges

ASSUME ScoresAssumption ==
  /\ LowerCase \in [Letters -> Letters] /\ First \subseteq Seq(Letters)
  /\ MaxLength \in Nat /\ MaxChanges \in Nat

VARIABLES first, typed, changes, excused

scoreVars == <<first, typed, changes, excused>>

\* normalize_for_similarity: without blanks, in lower case.
Normalized(message) ==
  FoldLeft(LAMBDA kept, c : IF c = " " THEN kept ELSE Append(kept, LowerCase[c]), <<>>, message)

\* The least of three.
Smallest(a, b, c) == Min({a, b, c})

\* Mutant: to take a character out costs nothing.
NextRowDeleting(a, b, prev, i) ==
  FoldLeft(LAMBDA cur, j : [cur EXCEPT ![j] = Smallest(prev[j - 1] + (IF a[i] = b[j] THEN 0 ELSE 1), prev[j], cur[j - 1] + 1)],
           [j \in 0..Len(b) |-> IF j = 0 THEN i ELSE 0], [j \in DOMAIN b |-> j])

\* A row of the table after the one before: how far the first i letters of a are from
\* the first j of b.
NextRow(a, b, prev, i) ==
  FoldLeft(LAMBDA cur, j : [cur EXCEPT ![j] = Smallest(prev[j - 1] + (IF a[i] = b[j] THEN 0 ELSE 1), prev[j] + 1, cur[j - 1] + 1)],
           [j \in 0..Len(b) |-> IF j = 0 THEN i ELSE 0], [j \in DOMAIN b |-> j])

\* levenshtein: one row of the table after the other.
Levenshtein(a, b) ==
  IF a = <<>> THEN Len(b) ELSE IF b = <<>> THEN Len(a)
  ELSE FoldLeft(LAMBDA prev, i : NextRow(a, b, prev, i), [j \in 0..Len(b) |-> j], [i \in DOMAIN a |-> i])[Len(b)]

\* similarity_score, as <<what differs, of how many>>.
Difference(left, right) ==
  LET a == Normalized(left) b == Normalized(right)
  IN  IF a = b THEN <<0, 1>> ELSE <<Levenshtein(a, b), Max({Len(a), Len(b)})>>

Unit(message, i, n) == SubSeq(message, i, i + n - 1)

\* is_whitelisted_unit.
IsWhitelistedUnit(unit, phrases) ==
  \E p \in phrases : /\ p # <<>> /\ Len(unit) % Len(p) = 0
                     /\ \A k \in 0..(Len(unit) \div Len(p) - 1) : Unit(unit, k * Len(p) + 1, Len(p)) = p

\* How often the unit of this length at this place stands there in a row.
Repetitions(message, i, len) ==
  Max({k \in 1..((Len(message) - i + 1) \div len) :
         \A m \in 1..(k - 1) : Unit(message, i + m * len, len) = Unit(message, i, len)})

\* Mutant: the search stops one unit early.
TriedEarly(message, phrases, best, place) ==
  LET left == Len(message) - place[1]
  IN  IF left <= best \/ left \div place[2] <= best \/ IsWhitelistedUnit(Unit(message, place[1], place[2]), phrases)
      THEN best ELSE Max({best, Repetitions(message, place[1], place[2])})

\* The best after a place, <<where, how long>>: the same where what is left cannot hold
\* more, and where the unit is excused.
Tried(message, phrases, best, place) ==
  LET left == Len(message) - place[1] + 1
  IN  IF left <= best \/ left \div place[2] <= best \/ IsWhitelistedUnit(Unit(message, place[1], place[2]), phrases)
      THEN best ELSE Max({best, Repetitions(message, place[1], place[2])})

\* The places in the order in which they are tried.
Places(n) == FlattenSeq([i \in 1..n |-> [len \in 1..((n - i + 1) \div 2) |-> <<i, len>>]])

\* max_consecutive_repeat, from each place and for each length.
MaxConsecutiveRepeat(message, phrases) ==
  IF Len(message) < 2 THEN 1
  ELSE FoldLeft(LAMBDA best, place : Tried(message, phrases, best, place), 1, Places(Len(message)))

(********************************** Steps **********************************)
ScoresInit == first \in First /\ typed = first /\ changes = 0 /\ excused \in Excused

Changed(message) ==
  {InsertAt(message, i, c) : i \in 1..(Len(message) + 1), c \in Letters}
  \cup {RemoveAt(message, i) : i \in DOMAIN message}
  \cup {[message EXCEPT ![i] = c] : i \in DOMAIN message, c \in Letters}

\* One character is put in, taken out, or replaced.
Change(message) ==
  /\ changes < MaxChanges /\ message \in Changed(typed) /\ Len(message) <= MaxLength
  /\ typed' = message /\ changes' = changes + 1
  /\ UNCHANGED <<first, excused>>

ScoresNext == \E message \in Changed(typed) : Change(message)

ScoresSpec == ScoresInit /\ [][ScoresNext]_scoreVars

(******************************* Properties ********************************)
\* The distance of two messages is the least number of changes that lead from one to
\* the other, blanks and capitals aside: never more than were made, 0 only for the
\* same letters, and else one less after some one change. It is the same both ways.
DistanceIsChanges ==
  LET a == Normalized(first) b == Normalized(typed)
      d == Levenshtein(a, b)
  IN  /\ d <= changes /\ d = Levenshtein(b, a) /\ (d = 0) = (a = b)
      /\ d > 0 => \E c \in Changed(b) : Levenshtein(a, c) = d - 1
      /\ d <= Difference(first, typed)[2]

\* The guard counts the repetitions of the unit repeated most that is not excused:
\* no short cut of the search loses one, and with nothing excused a message is a
\* repetition exactly if some part of it follows itself.
RepeatsFound ==
  LET Repeats(k) == \E i \in DOMAIN typed : \E n \in 1..Len(typed) :
                      /\ i + k * n - 1 <= Len(typed) /\ ~IsWhitelistedUnit(Unit(typed, i, n), excused)
                      /\ \A m \in 1..(k - 1) : Unit(typed, i + m * n, n) = Unit(typed, i, n)
      counted == MaxConsecutiveRepeat(typed, excused)
  IN  /\ counted > 1 => Repeats(counted)
      /\ \A k \in (counted + 1)..Len(typed) : ~Repeats(k)
===============================================================================
