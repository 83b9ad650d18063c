------------------------------- MODULE Calendar -------------------------------
(***************************************************************************)
(* Dates and durations of the plugin (clock.rs, placeholder.rs): the civil *)
(* date of a day, the expiry of a mute, %server_time_..% and               *)
(* %server_countdown_..%, and the durations that mutes are given and       *)
(* countdowns show.  Days pass one by one beside the calendar everyone     *)
(* knows; at the end of a stretch of them, texts are asked for.            *)
(*                                                                         *)
(* A text is a sequence of characters.  A pattern is what its runs are:    *)
(* pairs of a letter and the length of its run, <<"literal", c>> for the   *)
(* character c between them.                                               *)
(***************************************************************************)
EXTENDS Integers, Sequences, SequencesExt

CONSTANTS Walks,      \* the stretches of days walked: <<first day, its date, how many>>
          DaySeconds, \* the times of day looked at
          Patterns,   \* patterns as they are typed: M the month, m the minutes
          Targets,    \* dates <<year, month, day>> given as targets, real or not
          Totals      \* durations shown and read, in seconds

VARIABLES walk,    \* the stretch walked
          today,   \* days since 1970-01-01
          date,    \* the date of today, counted by hand
          asked    \* what was asked last, and the answer

calendarVars == <<walk, today, date, asked>>

\* Mutant: every fourth year.
LeapJulian(year) == year % 4 = 0

\* The calendar everyone knows.
Leap(year) == (year % 4 = 0 /\ year % 100 # 0) \/ year % 400 = 0
DaysIn(year, month) == CASE month \in {4, 6, 9, 11} -> 30
                         [] month = 2 -> IF Leap(year) THEN 29 ELSE 28
                         [] month \in {1, 3, 5, 7, 8, 10, 12} -> 31
                         [] OTHER -> 0
DayAfter(d) == IF d[3] < DaysIn(d[1], d[2]) THEN <<d[1], d[2], d[3] + 1>>
               ELSE IF d[2] < 12 THEN <<d[1], d[2] + 1, 1>> ELSE <<d[1] + 1, 1, 1>>

(********************************* clock.rs ********************************)
Truncated(n, d) == IF n >= 0 THEN n \div d ELSE 0 - ((0 - n) \div d)

\* civil_from_days: the four centuries a day is in, counted from a March ...
EraOf(shifted) == Truncated(IF shifted >= 0 THEN shifted ELSE shifted - 146096, 146097)
DayOfEra(shifted) == shifted - EraOf(shifted) * 146097

\* Mutant: the last day of four centuries is not corrected.
YearOfEraShort(dayOfEra) == (dayOfEra - dayOfEra \div 1460 + dayOfEra \div 36524) \div 365

\* ... the year in them, without the leap days before it ...
YearOfEra(dayOfEra) == (dayOfEra - dayOfEra \div 1460 + dayOfEra \div 36524 - dayOfEra \div 146096) \div 365
DaysBefore(yearOfEra) == 365 * yearOfEra + yearOfEra \div 4 - yearOfEra \div 100
DayOfYear(dayOfEra) == dayOfEra - DaysBefore(YearOfEra(dayOfEra))

\* ... and the month of it, in steps of five months of 153 days.
MarchMonth(dayOfYear) == (5 * dayOfYear + 2) \div 153
DaysBeforeMonth(marchMonth) == (153 * marchMonth + 2) \div 5
MonthOf(marchMonth) == IF marchMonth < 10 THEN marchMonth + 3 ELSE marchMonth - 9
DateOf(era, yearOfEra, dayOfYear, marchMonth) ==
  <<yearOfEra + era * 400 + (IF MonthOf(marchMonth) <= 2 THEN 1 ELSE 0), MonthOf(marchMonth),
    dayOfYear - DaysBeforeMonth(marchMonth) + 1>>
CivilFromDays(days) ==
  LET shifted  == days + 719468
      dayOfEra == DayOfEra(shifted)
  IN  DateOf(EraOf(shifted), YearOfEra(dayOfEra), DayOfYear(dayOfEra), MarchMonth(DayOfYear(dayOfEra)))

\* days_from_civil; the day 0 of a March goes below zero, and around 2^64 back again.
MarchOf(month) == IF month > 2 THEN month - 3 ELSE month + 9
DaysFromCivil(d) ==
  LET year == d[1] - (IF d[2] <= 2 THEN 1 ELSE 0)
      era  == Truncated(IF year >= 0 THEN year ELSE year - 399, 400)
  IN  era * 146097 + DaysBefore(year - era * 400) + (DaysBeforeMonth(MarchOf(d[2])) + d[3] - 1) - 719468

Figures == <<"0", "1", "2", "3", "4", "5", "6", "7", "8", "9">>
FigureValue == [c \in {"0", "1", "2", "3", "4", "5", "6", "7", "8", "9"} |->
                  (CHOOSE i \in 1..10 : Figures[i] = c) - 1]
Decimal[n \in Nat] == IF n < 10 THEN <<Figures[n + 1]>> ELSE Decimal[n \div 10] \o <<Figures[(n % 10) + 1]>>
Pad(n, width) == LET text == Decimal[n]
                 IN  [i \in 1..(IF Len(text) < width THEN width - Len(text) ELSE 0) |-> "0"] \o text

\* format_pattern, of the numeric fields.
Field(part, d, second) ==
  CASE part[1] = "literal" -> <<part[2]>>
    [] part[1] = "y" -> Pad(d[1], part[2])
    [] part[1] = "M" -> Pad(d[2], part[2])
    [] part[1] = "d" -> Pad(d[3], part[2])
    [] part[1] = "H" -> Pad(second \div 3600, part[2])
    [] part[1] = "h" -> Pad(IF (second \div 3600) % 12 = 0 THEN 12 ELSE (second \div 3600) % 12, part[2])
    [] part[1] = "m" -> Pad((second % 3600) \div 60, part[2])
    [] part[1] = "s" -> Pad(second % 60, part[2])
FormatPattern(pattern, days, second) ==
  FoldLeft(LAMBDA text, part : text \o Field(part, CivilFromDays(days), second), <<>>, pattern)

\* format_millis, yyyy-MM-dd HH:mm:ss: what muteExpiry shows.
FormatMillis(days, second) ==
  FormatPattern(<<<<"y", 4>>, <<"literal", "-">>, <<"M", 2>>, <<"literal", "-">>, <<"d", 2>>, <<"literal", " ">>,
                  <<"H", 2>>, <<"literal", ":">>, <<"m", 2>>, <<"literal", ":">>, <<"s", 2>>>>, days, second)

(****************************** placeholder.rs *****************************)
\* Mutant: the token keeps its case.
LoweredNever(pattern) == pattern

\* Every token is lowercased before it is resolved.
Lowered(pattern) == [i \in DOMAIN pattern |->
                       IF pattern[i][1] \in {"M", "H"} THEN <<IF pattern[i][1] = "M" THEN "m" ELSE "h", pattern[i][2]>>
                       ELSE pattern[i]]

\* scan_pattern: the first run of m is the month, the others the minutes.
ScanPattern(pattern) ==
  [i \in DOMAIN pattern |->
     CASE pattern[i][1] = "m" -> IF \E j \in 1..(i - 1) : pattern[j][1] = "m" THEN <<"minute", 2>> ELSE <<"month", 2>>
       [] pattern[i][1] = "y" -> IF pattern[i][2] = 2 THEN <<"shortYear", 2>> ELSE <<"year", 4>>
       [] pattern[i][1] = "d" -> <<"day", 2>>
       [] pattern[i][1] = "h" -> <<"hour", 2>>
       [] pattern[i][1] = "s" -> <<"second", 2>>
       [] OTHER -> pattern[i]]

\* take_digits: how many figures stand at a place, max at most, and their value.
DigitsAt(text, at, max) ==
  LET runs == {n \in 0..max : at + n - 1 <= Len(text) /\ \A i \in at..(at + n - 1) : text[i] \in DOMAIN FigureValue}
  IN  Max(runs)
ValueOf(figures) == FoldLeft(LAMBDA v, c : 10 * v + FigureValue[c], 0, figures)

\* parse_pattern: <<the days, the second of the day>>, or <<>>.
ParsePattern(pattern, text) ==
  LET Start == [at |-> 1, ok |-> TRUE, year |-> -1, month |-> -1, day |-> -1, hour |-> 0, minute |-> 0, second |-> 0]
      Read(s, part) ==
        LET n == DigitsAt(text, s.at, part[2])
            value == ValueOf(SubSeq(text, s.at, s.at + n - 1))
        IN  IF ~s.ok THEN s
            ELSE IF part[1] = "literal"
              THEN [s EXCEPT !.ok = s.at <= Len(text) /\ text[s.at] = part[2], !.at = s.at + 1]
            ELSE IF n = 0 THEN [s EXCEPT !.ok = FALSE]
            ELSE CASE part[1] = "shortYear" -> [s EXCEPT !.year = 2000 + value, !.at = s.at + n]
                   [] part[1] = "month" -> [s EXCEPT !.month = value, !.ok = value \in 1..12, !.at = s.at + n]
                   [] OTHER -> [[s EXCEPT ![part[1]] = value] EXCEPT !.at = s.at + n]
      Whole == FoldLeft(Read, Start, [i \in DOMAIN pattern |->
                 IF ScanPattern(pattern)[i][1] = "literal" THEN <<"literal", pattern[i][2]>> ELSE ScanPattern(pattern)[i]])
  IN  IF /\ Whole.ok /\ Whole.at = Len(text) + 1
         /\ -1 \notin {Whole.year, Whole.month, Whole.day}
         /\ Whole.day <= DaysIn(Whole.year, Whole.month)
         /\ Whole.hour <= 23 /\ Whole.minute <= 59 /\ Whole.second <= 59
      THEN <<DaysFromCivil(<<Whole.year, Whole.month, Whole.day>>),
             Whole.hour * 3600 + Whole.minute * 60 + Whole.second>>
      ELSE <<>>

Units == <<<<"w", 604800>>, <<"d", 86400>>, <<"h", 3600>>, <<"m", 60>>, <<"s", 1>>>>

\* Mutant: the days do not wrap into weeks.
FormatDurationUnwrapped(total) ==
  LET Amount(i) == CASE i <= 2 -> total \div Units[i][2]
                     [] i = 3 -> (total \div 3600) % 24
                     [] OTHER -> (total \div Units[i][2]) % 60
  IN  IF total <= 0 THEN <<"0", "s">>
      ELSE FoldLeft(LAMBDA text, i : text \o (IF Amount(i) > 0 THEN Decimal[Amount(i)] \o <<Units[i][1]>> ELSE <<>>),
                    <<>>, <<1, 2, 3, 4, 5>>)

\* format_duration, without the blanks.
FormatDuration(total) ==
  LET wraps == <<0, 7, 24, 60, 60>>
      Amount(i) == IF i = 1 THEN total \div Units[1][2] ELSE (total \div Units[i][2]) % wraps[i]
  IN  IF total <= 0 THEN <<"0", "s">>
      ELSE FoldLeft(LAMBDA text, i : text \o (IF Amount(i) > 0 THEN Decimal[Amount(i)] \o <<Units[i][1]>> ELSE <<>>),
                    <<>>, <<1, 2, 3, 4, 5>>)

\* parse_duration, in seconds, or -2 for none.
ParseDuration(text) ==
  LET Read(s, c) ==
        IF s.total = -2 THEN s
        ELSE IF c \in DOMAIN FigureValue THEN [s EXCEPT !.figures = Append(@, c)]
        ELSE IF s.figures = <<>> \/ \A i \in DOMAIN Units : Units[i][1] # c THEN [s EXCEPT !.total = -2]
        ELSE [total |-> s.total + ValueOf(s.figures) * Units[CHOOSE i \in DOMAIN Units : Units[i][1] = c][2],
              figures |-> <<>>]
      read == FoldLeft(Read, [total |-> 0, figures |-> <<>>], text)
  IN  IF read.figures # <<>> \/ read.total <= 0 THEN -2 ELSE read.total

\* Every stretch begins with a day that each month has, and its number.
ASSUME WalksAssumption == \A w \in Walks : w[2] \in Int \X (1..12) \X (1..28) /\ w[1] = DaysFromCivil(w[2])

(********************************** Steps **********************************)
NothingAsked == [kind |-> "nothing", is |-> <<>>, answer |-> <<>>]

CalendarInit ==
  /\ walk \in Walks
  /\ today = walk[1] /\ date = walk[2] /\ asked = NothingAsked

DayPasses ==
  /\ today < walk[1] + walk[3]
  /\ today' = today + 1 /\ date' = DayAfter(date) /\ asked' = NothingAsked
  /\ UNCHANGED walk

\* %server_time_<pattern>%: the pattern has lost its case.
ShowTime(pattern, second) ==
  /\ asked = NothingAsked /\ today = walk[1] + walk[3]
  /\ asked' = [kind |-> "time", is |-> <<pattern, second>>,
               answer |-> FormatPattern(Lowered(pattern), today, second)]
  /\ UNCHANGED <<walk, today, date>>

\* The expiry of a mute is shown, and given to a countdown in its own pattern.
ShowExpiry(second) ==
  /\ asked = NothingAsked /\ today = walk[1] + walk[3]
  /\ asked' = [kind |-> "expiry", is |-> <<today, second>>,
               answer |-> ParsePattern(<<<<"y", 4>>, <<"literal", "-">>, <<"m", 2>>, <<"literal", "-">>,
                                         <<"d", 2>>, <<"literal", " ">>, <<"h", 2>>, <<"literal", ":">>,
                                         <<"m", 2>>, <<"literal", ":">>, <<"s", 2>>>>,
                                       FormatMillis(today, second))]
  /\ UNCHANGED <<walk, today, date>>

\* countdown, to a target in the pattern yyyy-mm-dd.
Countdown(target) ==
  /\ asked = NothingAsked /\ today = walk[1] + walk[3]
  /\ asked' = [kind |-> "target", is |-> target,
               answer |-> ParsePattern(<<<<"y", 4>>, <<"literal", "-">>, <<"m", 2>>, <<"literal", "-">>, <<"d", 2>>>>,
                                       Pad(target[1], 4) \o <<"-">> \o Pad(target[2], 2) \o <<"-">> \o Pad(target[3], 2))]
  /\ UNCHANGED <<walk, today, date>>

\* A duration is shown, and given back to /mute.
Duration(total) ==
  /\ asked = NothingAsked /\ today = walk[1] + walk[3]
  /\ asked' = [kind |-> "duration", is |-> <<total>>, answer |-> <<ParseDuration(FormatDuration(total))>>]
  /\ UNCHANGED <<walk, today, date>>

CalendarNext ==
  \/ DayPasses
  \/ \E pattern \in Patterns, second \in DaySeconds : ShowTime(pattern, second)
  \/ \E second \in DaySeconds : ShowExpiry(second)
  \/ \E target \in Targets : Countdown(target)
  \/ \E total \in Totals : Duration(total)

CalendarSpec == CalendarInit /\ [][CalendarNext]_calendarVars

(******************************* Properties ********************************)
\* The arithmetic of the eras is the calendar everyone knows, in both directions,
\* over leap days, centuries, and days before the epoch.
CalendarAgrees == CivilFromDays(today) = date /\ DaysFromCivil(date) = today

\* The expiry of a mute, as it is shown, is read back by a countdown as the same
\* instant, and a duration by /mute as the same number of seconds.
ReadsBack == asked.kind \in {"expiry", "duration"} => asked.answer = asked.is

\* The numbers in a text, from left to right.
NumbersIn(text) ==
  LET starts == SetToSortSeq({i \in DOMAIN text : DigitsAt(text, i, 1) = 1
                                                /\ (i > 1 => DigitsAt(text, i - 1, 1) = 0)}, <)
  IN  [k \in DOMAIN starts |->
         ValueOf(SubSeq(text, starts[k], starts[k] + DigitsAt(text, starts[k], Len(text)) - 1))]

\* %server_time_..% shows the year and the day of the calendar, the seconds, and,
\* its token having lost its case, the hour of a clock of twelve hours and the
\* minutes, these also where the month was asked for.
ClockShown ==
  asked.kind = "time" =>
    LET fields  == SelectSeq(asked.is[1], LAMBDA part : part[1] # "literal")
        numbers == NumbersIn(asked.answer)
        second  == asked.is[2]
    IN  /\ Len(numbers) = Len(fields)
        /\ \A i \in DOMAIN fields :
             LET letter == fields[i][1]
             IN  /\ letter = "y" => numbers[i] = date[1]
                 /\ letter = "d" => numbers[i] = date[3]
                 /\ letter \in {"M", "m"} => numbers[i] = (second \div 60) % 60
                 /\ letter \in {"H", "h"} =>
                      numbers[i] \in 1..12 /\ (second - 3600 * numbers[i]) % 43200 < 3600
                 /\ letter = "s" => (second - numbers[i]) % 60 = 0 /\ numbers[i] < 60

\* A target is accepted if and only if the date exists, and then stands for that
\* day, or if its day is 00, which nothing asks about: it is the day before the
\* first of the month.  None is rounded into the next month.
OnlyRealDates ==
  asked.kind = "target" =>
    LET days == DaysFromCivil(asked.is)
        real == CivilFromDays(days) = asked.is
        zero == asked.is[2] \in 1..12 /\ asked.is[3] = 0
    IN  /\ asked.answer = IF real \/ zero THEN <<days, 0>> ELSE <<>>
        /\ zero => CivilFromDays(days + 1) = <<asked.is[1], asked.is[2], 1>>
===============================================================================
