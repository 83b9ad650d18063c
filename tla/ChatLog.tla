-------------------------------- MODULE ChatLog --------------------------------
(***************************************************************************)
(* The chat log (ChatLogService.java): lines wait in memory, a tick writes *)
(* them to the file of the day every five minutes and deletes expired      *)
(* files every hour.  A line is its number.  A write may fail before it    *)
(* began or in its middle, and the server may crash.                       *)
(***************************************************************************)
EXTENDS Integers, Sequences, FiniteSets, SequencesExt

CONSTANTS FlushInterval, CleanupInterval,   \* in ticks of the model
          DayTicks,                         \* ticks of a day
          Retentions,                       \* logRetentionDays
          MaxLogged, MaxTime, MaxFailures   \* bounds of the checking

ASSUME LogAssumption ==
  /\ {FlushInterval, CleanupInterval, DayTicks} \subseteq Nat \ {0}
  /\ CleanupInterval % FlushInterval = 0
  /\ Retentions \subseteq Int /\ MaxTime \in Nat

VARIABLES
  retention,  \* logRetentionDays
  pending,    \* lines not written yet
  ticks,      \* of this run
  logFiles,   \* day -> lines
  modified,   \* day -> when the file was last written, -1 for no file
  time,       \* of the world, in ticks
  up,         \* the server runs
  loggedAt,   \* line -> when it was logged
  gone,       \* lines lost to a failure, and those of expired files
  failures    \* writes that failed, and crashes

logVars == <<retention, pending, ticks, logFiles, modified, time, up, loggedAt, gone, failures>>

Days == 0..(MaxTime \div DayTicks)
Lines(sequence) == ToSet(sequence)

\* deleteExpired, of files and their times.
Expired(times, at) == {d \in Days : retention > 0 /\ times[d] # -1 /\ times[d] < at - retention * DayTicks}

LogInit ==
  /\ retention \in Retentions
  /\ pending = <<>> /\ ticks = 0 /\ time = 0 /\ up = TRUE /\ loggedAt = <<>> /\ failures = 0
  /\ logFiles = [d \in Days |-> <<>>] /\ modified = [d \in Days |-> -1]
  /\ gone = [lost |-> {}, expired |-> {}]

\* logNormal, logPrivate.
LogLine ==
  /\ up /\ Len(loggedAt) < MaxLogged
  /\ loggedAt' = Append(loggedAt, time)
  /\ pending' = Append(pending, Len(loggedAt) + 1)
  /\ UNCHANGED <<retention, ticks, logFiles, modified, time, up, gone, failures>>

\* Mutant: the file of the day the first line was logged.
WrittenBack(at, n) ==
  LET day == loggedAt[pending[1]] \div DayTicks
  IN  [left |-> <<>>, lost |-> Lines(SubSeq(pending, n + 1, Len(pending))),
       files |-> [logFiles EXCEPT ![day] = @ \o SubSeq(pending, 1, n)],
       times |-> [modified EXCEPT ![day] = at], failed |-> n < Len(pending)]

\* flush, at a time: all of it, none as the directory cannot be made, or a beginning
\* after which the rest is lost. What the write leaves is [left, files, times, lost, failed].
WrittenUpTo(at, n) ==
  [left |-> <<>>, lost |-> Lines(SubSeq(pending, n + 1, Len(pending))),
   files |-> [logFiles EXCEPT ![at \div DayTicks] = @ \o SubSeq(pending, 1, n)],
   times |-> [modified EXCEPT ![at \div DayTicks] = at], failed |-> n < Len(pending)]
Untouched(failed) == [left |-> pending, lost |-> {}, files |-> logFiles, times |-> modified, failed |-> failed]
\* Mutant: the lines leave the queue once they are written.
FlushesKeeping(at) ==
  IF pending = <<>> THEN {Untouched(FALSE)}
  ELSE {WrittenUpTo(at, Len(pending))}
       \cup (IF failures < MaxFailures
             THEN {[WrittenUpTo(at, n) EXCEPT !.left = pending, !.lost = {}] : n \in 0..(Len(pending) - 1)} ELSE {})

Flushes(at) ==
  IF pending = <<>> THEN {Untouched(FALSE)}
  ELSE {WrittenUpTo(at, Len(pending))}
       \cup (IF failures < MaxFailures THEN {Untouched(TRUE)} \cup {WrittenUpTo(at, n) : n \in 0..(Len(pending) - 1)} ELSE {})

\* What a flush and a cleanup leave behind.
Keeps(flush, expired) ==
  /\ pending' = flush.left
  /\ logFiles' = [d \in Days |-> IF d \in expired THEN <<>> ELSE flush.files[d]]
  /\ modified' = [d \in Days |-> IF d \in expired THEN -1 ELSE flush.times[d]]
  /\ gone' = [lost |-> gone.lost \cup flush.lost,
              expired |-> gone.expired \cup UNION {Lines(flush.files[d]) : d \in expired}]
  /\ failures' = failures + (IF flush.failed THEN 1 ELSE 0)

\* Mutant: the lines are written when the files are cleaned up.
LogTickLate ==
  /\ up /\ time < MaxTime
  /\ time' = time + 1 /\ ticks' = ticks + 1
  /\ \E flush \in (IF ticks' % CleanupInterval = 0 THEN Flushes(time') ELSE {Untouched(FALSE)}) :
       Keeps(flush, IF ticks' % CleanupInterval = 0 THEN Expired(flush.times, time') ELSE {})
  /\ UNCHANGED <<retention, up, loggedAt>>

\* tick.
LogTick ==
  /\ up /\ time < MaxTime
  /\ time' = time + 1 /\ ticks' = ticks + 1
  /\ \E flush \in (IF ticks' % FlushInterval = 0 THEN Flushes(time') ELSE {Untouched(FALSE)}) :
       Keeps(flush, IF ticks' % CleanupInterval = 0 THEN Expired(flush.times, time') ELSE {})
  /\ UNCHANGED <<retention, up, loggedAt>>

\* Mutant: what waits is forgotten.
CloseLogUnflushed ==
  /\ up
  /\ up' = FALSE /\ pending' = <<>>
  /\ UNCHANGED <<retention, ticks, logFiles, modified, time, loggedAt, gone, failures>>

\* close; what a failed flush leaves in memory goes with it.
CloseLog ==
  /\ up
  /\ up' = FALSE
  /\ \E flush \in Flushes(time) :
       Keeps([flush EXCEPT !.left = <<>>, !.lost = @ \cup Lines(flush.left)], {})
  /\ UNCHANGED <<retention, ticks, time, loggedAt>>

CrashLog ==
  /\ up /\ failures < MaxFailures
  /\ up' = FALSE /\ pending' = <<>> /\ failures' = failures + 1
  /\ gone' = [gone EXCEPT !.lost = @ \cup Lines(pending)]
  /\ UNCHANGED <<retention, ticks, logFiles, modified, time, loggedAt>>

Downtime == ~up /\ time < MaxTime /\ time' = time + 1
              /\ UNCHANGED <<retention, pending, ticks, logFiles, modified, up, loggedAt, gone, failures>>

\* The constructor, of the next run of the server.
StartLog ==
  /\ ~up
  /\ up' = TRUE /\ ticks' = 0
  /\ Keeps(Untouched(FALSE), Expired(modified, time))
  /\ UNCHANGED <<retention, time, loggedAt>>

LogNext == LogLine \/ LogTick \/ CloseLog \/ CrashLog \/ Downtime \/ StartLog

LogSpec == LogInit /\ [][LogNext]_logVars

(******************************* Properties ********************************)
LogTypeOK ==
  /\ pending \in Seq(DOMAIN loggedAt) /\ ticks \in 0..time /\ up \in BOOLEAN
  /\ \A d \in Days : logFiles[d] # <<>> => modified[d] \in (d * DayTicks)..time
  /\ \A d \in Days : modified[d] # -1 => modified[d] \div DayTicks = d

\* The files, one day after the other, hold the lines in the order they were logged,
\* none of them twice, whatever failed in between; what waits comes after them.
LinesInOrder ==
  LET all == FoldLeft(LAMBDA s, d : s \o logFiles[d], <<>>, [i \in 1..Cardinality(Days) |-> i - 1]) \o pending
  IN  \A i, j \in DOMAIN all : i < j => all[i] < all[j]

\* A line is lost only with a write that failed, a crash, or its expired file.
EveryLineAccounted ==
  DOMAIN loggedAt = Lines(pending) \cup (UNION {Lines(logFiles[d]) : d \in Days}) \cup gone.lost \cup gone.expired

\* Without failures a line waits for one interval at most, though stops and starts
\* shift the intervals; and what is kept is neither deleted before its time nor, while
\* the server runs, long after it.
WrittenInTime ==
  /\ failures = 0 => \A l \in Lines(pending) : time - loggedAt[l] < FlushInterval
  /\ \A l \in gone.expired : time - loggedAt[l] > retention * DayTicks
  /\ up /\ failures = 0 /\ retention > 0 =>
       \A d \in Days : \A l \in Lines(logFiles[d]) :
         time - loggedAt[l] <= (retention + 1) * DayTicks + FlushInterval + CleanupInterval

\* A line logged is written once, in its place and in time, or its loss has a cause.
LogAccounted == LogTypeOK /\ LinesInOrder /\ EveryLineAccounted /\ WrittenInTime
===============================================================================
