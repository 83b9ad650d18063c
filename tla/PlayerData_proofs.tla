--------------------------- MODULE PlayerData_proofs ---------------------------
(***************************************************************************)
(* Proofs about PlayerData, for every set of players, marks and channels.  *)
(***************************************************************************)
EXTENDS PlayerData, TLAPS, SequenceTheorems

-----------------------------------------------------------------------------
(* The queue of saves *)

\* A save appended is the last one of its player, and of nobody else.
LEMMA AppendedIsLast ==
    ASSUME NEW q \in Seq(Task), NEW t \in Task
    PROVE  LastFor(Append(q, t), t.player, t.state)
<1>1. /\ Len(Append(q, t)) = Len(q) + 1
      /\ Append(q, t)[Len(q) + 1] = t
      /\ Len(q) \in Nat
  BY AppendProperties, LenProperties
<1>2. Len(q) + 1 \in 1..Len(Append(q, t))
  BY <1>1
<1> QED BY <1>1, <1>2 DEF LastFor

\* A save of one player changes nothing in what is queued for another.
LEMMA AppendedForOthers ==
    ASSUME NEW q \in Seq(Task), NEW t \in Task, NEW p, p # t.player
    PROVE  /\ NoneFor(q, p) => NoneFor(Append(q, t), p)
           /\ \A s : LastFor(q, p, s) => LastFor(Append(q, t), p, s)
<1>1. /\ Len(Append(q, t)) = Len(q) + 1
      /\ \A i \in 1..Len(q) : Append(q, t)[i] = q[i]
      /\ Append(q, t)[Len(q) + 1] = t
      /\ Len(q) \in Nat
  BY AppendProperties, LenProperties
<1>2. \A i \in 1..Len(Append(q, t)) : i \in 1..Len(q) \/ i = Len(q) + 1
  BY <1>1
<1>3. NoneFor(q, p) => NoneFor(Append(q, t), p)
  BY <1>1, <1>2 DEF NoneFor
<1>4. ASSUME NEW s, LastFor(q, p, s) PROVE LastFor(Append(q, t), p, s)
  <2>1. PICK i \in 1..Len(q) : /\ q[i].player = p /\ q[i].state = s
                               /\ \A j \in 1..Len(q) : q[j].player = p => j <= i
    BY <1>4 DEF LastFor
  <2>2. i \in 1..Len(Append(q, t)) /\ Append(q, t)[i].player = p /\ Append(q, t)[i].state = s
    BY <1>1
       , <2>1
  <2>3. ASSUME NEW j \in 1..Len(Append(q, t)), Append(q, t)[j].player = p PROVE j <= i
    BY <1>1, <1>2, <2>1, <2>3
  <2> QED BY <2>2, <2>3 DEF LastFor
<1> QED BY <1>3, <1>4

\* The oldest save leaves: whoever has a later one keeps it as the last.
LEMMA TailKeeps ==
    ASSUME NEW q \in Seq(Task), q # <<>>, NEW p
    PROVE  /\ NoneFor(q, p) => NoneFor(Tail(q), p)
           /\ \A s : LastFor(q, p, s) =>
                        \/ LastFor(Tail(q), p, s)
                        \/ Head(q).player = p /\ Head(q).state = s /\ NoneFor(Tail(q), p)
<1>1. /\ Len(Tail(q)) = Len(q) - 1 /\ Len(q) \in Nat /\ Len(q) >= 1
      /\ \A i \in 1..Len(Tail(q)) : Tail(q)[i] = q[i + 1]
      /\ Head(q) = q[1]
  BY HeadTailProperties, LenProperties, EmptySeq
<1>2. \A i \in 1..Len(Tail(q)) : i + 1 \in 1..Len(q)
  BY <1>1
<1>3. NoneFor(q, p) => NoneFor(Tail(q), p)
  BY <1>1, <1>2 DEF NoneFor
<1>4. ASSUME NEW s, LastFor(q, p, s)
      PROVE  \/ LastFor(Tail(q), p, s)
             \/ Head(q).player = p /\ Head(q).state = s /\ NoneFor(Tail(q), p)
  <2>1. PICK i \in 1..Len(q) : /\ q[i].player = p /\ q[i].state = s
                               /\ \A j \in 1..Len(q) : q[j].player = p => j <= i
    BY <1>4 DEF LastFor
  <2>2. CASE i = 1
    <3>1. ASSUME NEW j \in 1..Len(Tail(q)), Tail(q)[j].player = p PROVE FALSE
      <4>1. j + 1 \in 1..Len(q) /\ q[j + 1].player = p
        BY <1>1, <1>2, <3>1
      <4> QED BY <2>1, <2>2, <4>1
    <3> QED BY <1>1, <2>1, <2>2, <3>1 DEF NoneFor
  <2>3. CASE i # 1
    <3>1. i - 1 \in 1..Len(Tail(q)) /\ Tail(q)[i - 1] = q[i]
      BY <1>1, <2>3
    <3>2. ASSUME NEW j \in 1..Len(Tail(q)), Tail(q)[j].player = p PROVE j <= i - 1
      <4>1. j + 1 \in 1..Len(q) /\ q[j + 1].player = p
        BY <1>1, <1>2, <3>2
      <4> QED BY <2>1, <4>1
    <3> QED BY <2>1, <3>1, <3>2 DEF LastFor
  <2> QED BY <2>2, <2>3
<1> QED BY <1>3, <1>4
-----------------------------------------------------------------------------
(* Types *)

\* The initial state has the types.
LEMMA TypesInit == Init => Types
<1> SUFFICES ASSUME Init PROVE Types
  OBVIOUS
<1>1. main \in Main
  BY DEF Init, Op, Main, Ops
<1>2. queue \in Seq(Task)
  BY EmptySeq DEF Init
<1> QED BY <1>1, <1>2, DataAssumption DEF Init, Types

\* Setting one entry of a map keeps its type.
LEMMA SetTypes ==
    ASSUME NEW R, NEW f \in [Players -> R], NEW p \in Players, NEW v \in R
    PROVE  /\ Set(f, p, v) \in [Players -> R]
           /\ Set(f, p, v)[p] = v
           /\ \A q \in Players : q # p => Set(f, p, v)[q] = f[q]
  BY DEF Set

\* Updating a state keeps the maps and the queue typed.
LEMMA UpdateTypes ==
    ASSUME Types, NEW p \in Players, NEW s \in PlayerState, Update(p, s)
    PROVE  /\ states' \in [Players -> PlayerState \cup {Absent}]
           /\ latest' \in [Players -> PlayerState \cup {Absent}]
           /\ queue' \in Seq(Task)
<1>1. [player |-> p, state |-> s] \in Task
  BY DEF Task
<1>2. queue' \in Seq(Task)
  BY <1>1, AppendProperties DEF Types, Update
<1>3. s \in PlayerState \cup {Absent}
  OBVIOUS
<1> QED BY <1>2, <1>3, SetTypes DEF Types, Update

\* A state with another channel is a state.
LEMMA StatesInherit ==
    ASSUME NEW s \in PlayerState, NEW c \in Channels \cup {NoChannel}
    PROVE  In(s, c) \in PlayerState /\ In(s, c).mark = s.mark /\ In(s, c).channel = c
  BY DEF In, PlayerState

\* The empty state is a state.
LEMMA EmptyState == Empty \in PlayerState
  BY DataAssumption DEF Empty, PlayerState

\* restoreChannelMembership is an update with a membership and its copy.
LEMMA RestoreIsUpdate ==
    ASSUME NEW p \in Players, NEW s \in PlayerState, Restore(p, s)
    PROVE  \E c \in Channels : membership' = Set(membership, p, c) /\ Update(p, In(s, c))
<1>1. Restored(s.channel) \subseteq Channels
  BY DataAssumption DEF Restored, PlayerState
<1> QED BY <1>1 DEF Restore

\* Restoring a membership keeps the maps and the queue typed.
LEMMA RestoreTypes ==
    ASSUME Types, NEW p \in Players, NEW s \in PlayerState, Restore(p, s)
    PROVE  /\ states' \in [Players -> PlayerState \cup {Absent}]
           /\ latest' \in [Players -> PlayerState \cup {Absent}]
           /\ queue' \in Seq(Task)
           /\ membership' \in [Players -> Channels \cup {Absent}]
<1>1. PICK c \in Channels : membership' = Set(membership, p, c) /\ Update(p, In(s, c))
  BY RestoreIsUpdate
<1>2. In(s, c) \in PlayerState
  BY StatesInherit
<1>3. membership \in [Players -> Channels \cup {Absent}] /\ c \in Channels \cup {Absent}
  BY DEF Types
<1>4. membership' \in [Players -> Channels \cup {Absent}]
  BY <1>1, <1>3, SetTypes
<1> QED BY <1>1, <1>2, <1>4, UpdateTypes

\* A save leaves the types of what it writes.
DbTypes == db \in [Players -> PlayerState \cup {Absent}] /\ failed \subseteq Players /\ faulty \in BOOLEAN

\* A save keeps the data source typed.
LEMMA SavedTypes ==
    ASSUME DbTypes, NEW p \in Players, NEW s \in PlayerState, Saved(p, s) PROVE DbTypes'
<1>1. db' \in [Players -> PlayerState \cup {Absent}]
  BY SetTypes DEF DbTypes, Saved
<1> QED BY <1>1 DEF DbTypes, Saved

\* A failed save keeps the data source typed.
LEMMA SaveFailedTypes ==
    ASSUME DbTypes, NEW p \in Players, SaveFailed(p) PROVE DbTypes'
  BY DEF DbTypes, SaveFailed

\* So does a step that saves nothing.
LEMMA NoSaveTypes == DbTypes /\ NoSave => DbTypes'
  BY DEF DbTypes, NoSave

\* A player in one of the maps has a state.
LEMMA OnlineHasState ==
    ASSUME Types, Phases, main.op \notin {"closed", "down", "load"}, NEW p \in online
    PROVE  p \in Players /\ states[p] \in PlayerState
<1>1. p \in Players /\ states[p] # Absent /\ states[p] \in PlayerState \cup {Absent}
  BY AbsentAssumption DEF Types, Phases
<1> QED BY <1>1

\* Whoever has a state while the server is at rest has a membership.
LEMMA OnlineHasMembership ==
    ASSUME Types, Phases, MembershipInStep,
           main.op \in {"rest", "reload", "persist"}, NEW p \in online
    PROVE  membership[p] \in Channels /\ In(states[p], membership[p]) \in PlayerState
<1>1. p \in Players /\ states[p] \in PlayerState
  BY OnlineHasState
<1>2. membership[p] # Absent /\ membership[p] \in Channels \cup {Absent}
  BY <1>1, AbsentAssumption DEF MembershipInStep, Types
<1> QED BY <1>1, <1>2, StatesInherit

\* The operation the server thread is in, the player list and the counters.
Control ==
    /\ main \in Main /\ online \subseteq Players
    /\ events \in Nat /\ timedOut \in BOOLEAN /\ hasty \in BOOLEAN

\* Every step keeps the operation, the players online and the counters typed.
LEMMA ControlStep == Types /\ [Next]_vars => Control'
<1> SUFFICES ASSUME Types, [Next]_vars PROVE Control'
  OBVIOUS
<1> USE DataAssumption DEF Control, Types, Main, Ops, Op, Event
<1>1. CASE SaverStep
  BY <1>1 DEF SaverStep
<1>2. ASSUME NEW p \in Players, LoadRow(p) PROVE Control'
  BY <1>2 DEF LoadRow
<1>3. CASE LoadRest
  BY <1>3 DEF LoadRest
<1>4. CASE LoadEmpty
  BY <1>4 DEF LoadEmpty
<1>5. ASSUME NEW p \in Players, NEW m \in Marks, SetMark(p, m) PROVE Control'
  BY <1>5 DEF SetMark
<1>6. ASSUME NEW p \in Players, NEW c \in Channels, SetChannel(p, c) PROVE Control'
  BY <1>6 DEF SetChannel
<1>7. CASE Reload
  BY <1>7 DEF Reload
<1>8. ASSUME NEW p \in Players, ReloadPlayer(p) PROVE Control'
  BY <1>8 DEF ReloadPlayer
<1>9. ASSUME NEW p \in Players, Leave(p) PROVE Control'
  BY <1>9 DEF Leave
<1>10. CASE Close
  BY <1>10 DEF Close
<1>11. ASSUME NEW p \in Players, ClosePersist(p) PROVE Control'
  BY <1>11 DEF ClosePersist
<1>12. CASE CloseShutdown
  BY <1>12 DEF CloseShutdown
<1>13. CASE CloseAwait
  <2>1. main' \in Main
    BY <1>13 DEF CloseAwait
  <2>2. timedOut' = timedOut \/ timedOut' = TRUE
    BY <1>13 DEF CloseAwait
  <2>3. events' \in Nat
    BY <1>13 DEF CloseAwait
  <2> QED BY <1>13, <2>1, <2>2, <2>3 DEF CloseAwait
<1>14. ASSUME NEW p \in Players, CloseFlush(p) PROVE Control'
  BY <1>14 DEF CloseFlush
<1>15. CASE CloseDone
  BY <1>15 DEF CloseDone
<1>16. CASE Exit
  BY <1>16 DEF Exit
<1>17. CASE Crash
  BY <1>17 DEF Crash
<1>18. CASE Start
  <2>1. main' \in Main /\ events' \in Nat
    BY <1>18 DEF Start
  <2>2. timedOut' \in BOOLEAN
    BY <1>18 DEF Start
  <2> QED BY <1>18, <2>1, <2>2 DEF Start
<1>19. CASE UNCHANGED vars
  BY <1>19 DEF vars
<1> QED
  BY <1>1, <1>2, <1>3, <1>4, <1>5, <1>6, <1>7, <1>8, <1>9, <1>10, <1>11, <1>12, <1>13, <1>14, <1>15, <1>16, <1>17, <1>18, <1>19
  DEF Next, Session, Stop

\* Every step keeps the data source typed.
LEMMA DbStep == Types /\ Phases /\ [Next]_vars => DbTypes'
<1> SUFFICES ASSUME Types, Phases, [Next]_vars PROVE DbTypes'
  OBVIOUS
<1>0. DbTypes
  BY DEF Types, DbTypes
<1>1. CASE SaverStep
  <2>0. Head(queue) \in Task
    BY <1>1, HeadTailProperties DEF SaverStep, Types
  <2>1. Head(queue).player \in Players /\ Head(queue).state \in PlayerState
    BY <2>0 DEF Task
  <2> QED BY <1>0, <1>1, <2>1, SavedTypes, SaveFailedTypes DEF SaverStep
<1>2. ASSUME NEW p \in Players, LoadRow(p) PROVE DbTypes'
  BY <1>0, <1>2, NoSaveTypes DEF LoadRow
<1>3. CASE LoadRest
  BY <1>0, <1>3, NoSaveTypes DEF LoadRest
<1>4. CASE LoadEmpty
  <2>1. main.player \in Players
    BY <1>4 DEF LoadEmpty, Types, Phases
  <2>2. CASE Saved(main.player, Empty) \/ SaveFailed(main.player)
    BY <1>0, <2>1, <2>2, EmptyState, SavedTypes, SaveFailedTypes
  <2>3. CASE /\ faulty' = TRUE
             /\ \/ db' = Set(db, main.player, Empty) /\ failed' = failed \ {main.player}
                \/ db' = db /\ failed' = failed \cup {main.player}
    <3>1. Set(db, main.player, Empty) \in [Players -> PlayerState \cup {Absent}]
      BY <1>0, <2>1, EmptyState, SetTypes DEF DbTypes
    <3>2. db' \in [Players -> PlayerState \cup {Absent}] /\ failed' \subseteq Players
      BY <1>0, <2>1, <2>3, <3>1 DEF DbTypes
    <3> QED BY <2>3, <3>2 DEF DbTypes
  <2> QED BY <1>4, <2>2, <2>3 DEF LoadEmpty
<1>5. ASSUME NEW p \in Players, NEW m \in Marks, SetMark(p, m) PROVE DbTypes'
  BY <1>0, <1>5, NoSaveTypes DEF SetMark
<1>6. ASSUME NEW p \in Players, NEW c \in Channels, SetChannel(p, c) PROVE DbTypes'
  BY <1>0, <1>6, NoSaveTypes DEF SetChannel
<1>7. CASE Reload
  BY <1>0, <1>7, NoSaveTypes DEF Reload
<1>8. ASSUME NEW p \in Players, ReloadPlayer(p) PROVE DbTypes'
  BY <1>0, <1>8, NoSaveTypes DEF ReloadPlayer
<1>9. ASSUME NEW p \in Players, Leave(p) PROVE DbTypes'
  BY <1>0, <1>9, NoSaveTypes DEF Leave
<1>10. CASE Close
  BY <1>0, <1>10, NoSaveTypes DEF Close
<1>11. ASSUME NEW p \in Players, ClosePersist(p) PROVE DbTypes'
  BY <1>0, <1>11, NoSaveTypes DEF ClosePersist
<1>12. CASE CloseShutdown
  BY <1>0, <1>12, NoSaveTypes DEF CloseShutdown
<1>13. CASE CloseAwait
  BY <1>0, <1>13 DEF CloseAwait, DbTypes
<1>14. ASSUME NEW p \in Players, CloseFlush(p) PROVE DbTypes'
  <2>1. states[p] \in PlayerState
    BY <1>14, OnlineHasState DEF CloseFlush, Phases
  <2> QED BY <1>0, <1>14, <2>1, SavedTypes, SaveFailedTypes DEF CloseFlush
<1>15. CASE CloseDone
  BY <1>0, <1>15, NoSaveTypes DEF CloseDone
<1>16. CASE Exit
  BY <1>0, <1>16, NoSaveTypes DEF Exit
<1>17. CASE Crash
  BY <1>0, <1>17 DEF Crash, DbTypes
<1>18. CASE Start
  BY <1>0, <1>18, NoSaveTypes DEF Start
<1>19. CASE UNCHANGED vars
  BY <1>0, <1>19 DEF vars, DbTypes
<1> QED
  BY <1>1, <1>2, <1>3, <1>4, <1>5, <1>6, <1>7, <1>8, <1>9, <1>10, <1>11, <1>12, <1>13, <1>14, <1>15, <1>16, <1>17, <1>18, <1>19
  DEF Next, Session, Stop

\* The maps, the queue and what was last held and given.
CacheTypes ==
    /\ states \in [Players -> PlayerState \cup {Absent}]
    /\ latest \in [Players -> PlayerState \cup {Absent}]
    /\ membership \in [Players -> Channels \cup {Absent}]
    /\ queue \in Seq(Task)
    /\ given \in [Players -> Marks]

\* Every step keeps the maps and the queue typed.
LEMMA CacheStep == Types /\ Phases /\ MembershipInStep /\ [Next]_vars => CacheTypes'
<1> SUFFICES ASSUME Types, Phases, MembershipInStep, [Next]_vars PROVE CacheTypes'
  OBVIOUS
<1>0. CacheTypes
  BY DEF Types, CacheTypes
<1>1. CASE SaverStep
  BY <1>0, <1>1, HeadTailProperties DEF SaverStep, CacheTypes
<1>2. ASSUME NEW p \in Players, LoadRow(p) PROVE CacheTypes'
  BY <1>0, <1>2 DEF LoadRow, CacheTypes
<1>3. CASE LoadRest
  <2>1. /\ main.player \in Players /\ main.row \in PlayerState
        /\ db[main.player] \in PlayerState
    BY <1>3 DEF LoadRest, Types, Phases, Main
  <2>2. db[main.player].channel \in Channels \cup {NoChannel}
    BY <2>1 DEF PlayerState
  <2>3. In(main.row, db[main.player].channel) \in PlayerState
    BY <2>1, <2>2, StatesInherit
  <2> QED BY <1>0, <1>3, <2>1, <2>3, RestoreTypes DEF LoadRest, CacheTypes
<1>4. CASE LoadEmpty
  <2>1. main.player \in Players
    BY <1>4 DEF LoadEmpty, Types, Phases
  <2> QED BY <1>0, <1>4, <2>1, EmptyState, RestoreTypes DEF LoadEmpty, CacheTypes
<1>5. ASSUME NEW p \in Players, NEW m \in Marks, SetMark(p, m) PROVE CacheTypes'
  <2>1. states[p] \in PlayerState
    BY <1>5, OnlineHasState DEF SetMark, Op
  <2>2. [mark |-> m, channel |-> states[p].channel] \in PlayerState
    BY <2>1 DEF PlayerState
  <2> QED BY <1>0, <1>5, <2>2, UpdateTypes, SetTypes DEF SetMark, CacheTypes
<1>6. ASSUME NEW p \in Players, NEW c \in Channels, SetChannel(p, c) PROVE CacheTypes'
  <2>1. In(states[p], c) \in PlayerState
    BY <1>6, OnlineHasState, StatesInherit DEF SetChannel, Op
  <2>2. membership' \in [Players -> Channels \cup {Absent}]
    BY <1>0, <1>6, SetTypes DEF SetChannel, CacheTypes
  <2> QED BY <1>0, <1>6, <2>1, <2>2, UpdateTypes DEF SetChannel, CacheTypes
<1>7. CASE Reload
  BY <1>0, <1>7 DEF Reload, CacheTypes
<1>8. ASSUME NEW p \in Players, ReloadPlayer(p) PROVE CacheTypes'
  <2>1. states[p] \in PlayerState
    BY <1>8, OnlineHasState DEF ReloadPlayer, Phases
  <2> QED BY <1>0, <1>8, <2>1, RestoreTypes DEF ReloadPlayer, CacheTypes
<1>9. ASSUME NEW p \in Players, Leave(p) PROVE CacheTypes'
  <2> DEFINE s == In(states[p], membership[p])
             task == [player |-> p, state |-> s]
  <2>1. s \in PlayerState
    BY <1>9, OnlineHasMembership DEF Leave, Op
  <2>2. task \in Task
    BY <2>1 DEF Task
  <2> HIDE DEF s, task
  <2>3. queue' = Append(Append(queue, task), task) /\ latest' = Set(latest, p, s)
    BY <1>9 DEF Leave, s, task
  <2>4. queue' \in Seq(Task)
    BY <1>0, <2>2, <2>3, AppendProperties DEF CacheTypes
  <2>5. /\ states' \in [Players -> PlayerState \cup {Absent}]
        /\ membership' \in [Players -> Channels \cup {Absent}]
    BY <1>0, <1>9, SetTypes DEF Leave, CacheTypes
  <2>6. latest' \in [Players -> PlayerState \cup {Absent}]
    BY <1>0, <2>1, <2>3, SetTypes DEF CacheTypes
  <2> QED BY <1>0, <1>9, <2>4, <2>5, <2>6 DEF Leave, CacheTypes
<1>10. CASE Close
  BY <1>0, <1>10 DEF Close, CacheTypes
<1>11. ASSUME NEW p \in Players, ClosePersist(p) PROVE CacheTypes'
  <2>1. In(states[p], membership[p]) \in PlayerState
    BY <1>11, OnlineHasMembership DEF ClosePersist, Phases
  <2> QED BY <1>0, <1>11, <2>1, UpdateTypes DEF ClosePersist, CacheTypes
<1>12. CASE CloseShutdown
  BY <1>0, <1>12 DEF CloseShutdown, CacheTypes
<1>13. CASE CloseAwait
  BY <1>0, <1>13 DEF CloseAwait, CacheTypes
<1>14. ASSUME NEW p \in Players, CloseFlush(p) PROVE CacheTypes'
  BY <1>0, <1>14 DEF CloseFlush, CacheTypes
<1>15. CASE CloseDone
  BY <1>0, <1>15 DEF CloseDone, CacheTypes
<1>16. CASE Exit
  BY <1>0, <1>16, EmptySeq DEF Exit, CacheTypes
<1>17. CASE Crash
  BY <1>0, <1>17, EmptySeq DEF Crash, CacheTypes, Types
<1>18. CASE Start
  BY <1>0, <1>18 DEF Start, CacheTypes, Types
<1>19. CASE UNCHANGED vars
  BY <1>0, <1>19 DEF vars, CacheTypes
<1> QED
  BY <1>1, <1>2, <1>3, <1>4, <1>5, <1>6, <1>7, <1>8, <1>9, <1>10, <1>11, <1>12, <1>13, <1>14, <1>15, <1>16, <1>17, <1>18, <1>19
  DEF Next, Session, Stop

\* Every step keeps the types.
LEMMA TypesStep == Types /\ Phases /\ MembershipInStep /\ [Next]_vars => Types'
<1> SUFFICES ASSUME Types, Phases, MembershipInStep, [Next]_vars PROVE Types'
  OBVIOUS
<1>1. Control' /\ DbTypes' /\ CacheTypes'
  BY ControlStep, DbStep, CacheStep
<1> QED BY <1>1 DEF Types, Control, DbTypes, CacheTypes

-----------------------------------------------------------------------------
(* What an update does to the maps *)

\* What updating a state does to the maps, player by player.
LEMMA UpdateEffect ==
    ASSUME Types, NEW p \in Players, NEW s \in PlayerState, Update(p, s)
    PROVE  /\ states'[p] = s /\ latest'[p] = s /\ s # Absent
           /\ \A q \in Players : q # p => states'[q] = states[q] /\ latest'[q] = latest[q]
  BY AbsentAssumption DEF Types, Update, Set

\* What restoring a membership does to the maps, player by player.
LEMMA RestoreEffect ==
    ASSUME Types, NEW p \in Players, NEW s \in PlayerState, Restore(p, s)
    PROVE  /\ states'[p] \in PlayerState /\ latest'[p] = states'[p]
           /\ states'[p].mark = s.mark
           /\ membership'[p] \in Channels /\ membership'[p] = states'[p].channel
           /\ \A q \in Players : q # p => /\ states'[q] = states[q] /\ latest'[q] = latest[q]
                                         /\ membership'[q] = membership[q]
<1>1. PICK c \in Channels : membership' = Set(membership, p, c) /\ Update(p, In(s, c))
  BY RestoreIsUpdate
<1>2. In(s, c) \in PlayerState /\ In(s, c).channel = c /\ In(s, c).mark = s.mark
  BY StatesInherit
<1>3. /\ membership'[p] = c
      /\ \A q \in Players : q # p => membership'[q] = membership[q]
  BY <1>1 DEF Set
<1> QED BY <1>1, <1>2, <1>3, UpdateEffect

\* No state and no channel is the absent entry.
LEMMA NeitherAbsent ==
    /\ \A s \in PlayerState : s # Absent
    /\ \A c \in Channels \cup {NoChannel} : c # Absent
    /\ \A p \in Players : p # Absent
  BY AbsentAssumption

-----------------------------------------------------------------------------
(* Phases *)

\* Only a row loaded as present must stay present: no step removes one.
LEMMA RowsStay ==
    Types /\ Phases /\ [Next]_vars => \A q \in Players : db[q] # Absent => db'[q] # Absent
<1> SUFFICES ASSUME Types, Phases, [Next]_vars, NEW q \in Players, db[q] # Absent PROVE db'[q] # Absent
  OBVIOUS
<1> USE DEF NoSave, Saved, SaveFailed
<1>1. CASE SaverStep
  <2>1. Head(queue) \in Task
    BY <1>1, HeadTailProperties DEF SaverStep, Types
  <2>2. Head(queue).state # Absent
    BY <2>1, NeitherAbsent DEF Task
  <2> QED BY <1>1, <2>2 DEF SaverStep, Set
<1>2. ASSUME NEW p \in Players, LoadRow(p) PROVE db'[q] # Absent
  BY <1>2 DEF LoadRow
<1>3. CASE LoadRest
  BY <1>3 DEF LoadRest
<1>4. CASE LoadEmpty
  BY <1>4, EmptyState, NeitherAbsent DEF LoadEmpty, Set
<1>5. ASSUME NEW p \in Players, NEW m \in Marks, SetMark(p, m) PROVE db'[q] # Absent
  BY <1>5 DEF SetMark
<1>6. ASSUME NEW p \in Players, NEW c \in Channels, SetChannel(p, c) PROVE db'[q] # Absent
  BY <1>6 DEF SetChannel
<1>7. CASE Reload
  BY <1>7 DEF Reload
<1>8. ASSUME NEW p \in Players, ReloadPlayer(p) PROVE db'[q] # Absent
  BY <1>8 DEF ReloadPlayer
<1>9. ASSUME NEW p \in Players, Leave(p) PROVE db'[q] # Absent
  BY <1>9 DEF Leave
<1>10. CASE Close
  BY <1>10 DEF Close
<1>11. ASSUME NEW p \in Players, ClosePersist(p) PROVE db'[q] # Absent
  BY <1>11 DEF ClosePersist
<1>12. CASE CloseShutdown
  BY <1>12 DEF CloseShutdown
<1>13. CASE CloseAwait
  BY <1>13 DEF CloseAwait
<1>14. ASSUME NEW p \in Players, CloseFlush(p) PROVE db'[q] # Absent
  <2>1. states[p] # Absent
    BY <1>14, OnlineHasState, NeitherAbsent DEF CloseFlush, Phases
  <2> QED BY <1>14, <2>1 DEF CloseFlush, Set
<1>15. CASE CloseDone
  BY <1>15 DEF CloseDone
<1>16. CASE Exit
  BY <1>16 DEF Exit
<1>17. CASE Crash
  BY <1>17 DEF Crash
<1>18. CASE Start
  BY <1>18 DEF Start
<1>19. CASE UNCHANGED vars
  BY <1>19 DEF vars
<1> QED
  BY <1>1, <1>2, <1>3, <1>4, <1>5, <1>6, <1>7, <1>8, <1>9, <1>10, <1>11, <1>12, <1>13, <1>14, <1>15, <1>16, <1>17, <1>18, <1>19
  DEF Next, Session, Stop

\* The maps hold who is online, whatever operation the server thread is in.
MapsFit ==
    IF main.op \in {"closed", "down"}
    THEN \A p \in Players : states[p] = Absent
    ELSE \A p \in Players : states[p] # Absent <=> p \in online /\ p # main.player

\* Every step leaves maps that fit the operation of the server thread.
LEMMA MapsFitStep == Types /\ Phases /\ MembershipInStep /\ [Next]_vars => MapsFit'
<1> SUFFICES ASSUME Types, Phases, MembershipInStep, [Next]_vars PROVE MapsFit'
  OBVIOUS
<1> USE NeitherAbsent DEF MapsFit, Phases, Op
<1>1. CASE SaverStep
  BY <1>1 DEF SaverStep
<1>2. ASSUME NEW p \in Players, LoadRow(p) PROVE MapsFit'
  BY <1>2 DEF LoadRow
<1>3. CASE LoadRest
  <2>1. main.player \in Players /\ main.row \in PlayerState /\ db[main.player] \in PlayerState
    BY <1>3 DEF LoadRest, Types, Main
  <2>2. In(main.row, db[main.player].channel) \in PlayerState
    BY <2>1, StatesInherit DEF PlayerState
  <2>3. /\ states'[main.player] # Absent
        /\ \A q \in Players : q # main.player => states'[q] = states[q]
    BY <1>3, <2>1, <2>2, RestoreEffect, NeitherAbsent DEF LoadRest
  <2>4. main' = Op("rest", {}) /\ online' = online /\ main.op = "load"
    BY <1>3 DEF LoadRest
  <2> QED BY <2>1, <2>3, <2>4
<1>4. CASE LoadEmpty
  <2>1. main.player \in Players
    BY <1>4 DEF LoadEmpty, Types
  <2>2. /\ states'[main.player] # Absent
        /\ \A q \in Players : q # main.player => states'[q] = states[q]
    BY <1>4, <2>1, EmptyState, RestoreEffect, NeitherAbsent DEF LoadEmpty
  <2>3. main' = Op("rest", {}) /\ online' = online /\ main.op = "load"
    BY <1>4 DEF LoadEmpty
  <2> QED BY <2>1, <2>2, <2>3
<1>5. ASSUME NEW p \in Players, NEW m \in Marks, SetMark(p, m) PROVE MapsFit'
  <2>1. [mark |-> m, channel |-> states[p].channel] \in PlayerState
    BY <1>5, OnlineHasState DEF SetMark, PlayerState
  <2>2. /\ states'[p] # Absent /\ states[p] # Absent
        /\ \A q \in Players : q # p => states'[q] = states[q]
    BY <1>5, <2>1, UpdateEffect, OnlineHasState, NeitherAbsent DEF SetMark
  <2> QED BY <1>5, <2>2 DEF SetMark
<1>6. ASSUME NEW p \in Players, NEW c \in Channels, SetChannel(p, c) PROVE MapsFit'
  <2>1. In(states[p], c) \in PlayerState
    BY <1>6, OnlineHasState, StatesInherit DEF SetChannel
  <2>2. /\ states'[p] # Absent /\ states[p] # Absent
        /\ \A q \in Players : q # p => states'[q] = states[q]
    BY <1>6, <2>1, UpdateEffect, OnlineHasState, NeitherAbsent DEF SetChannel
  <2> QED BY <1>6, <2>2 DEF SetChannel
<1>7. CASE Reload
  BY <1>7 DEF Reload
<1>8. ASSUME NEW p \in Players, ReloadPlayer(p) PROVE MapsFit'
  <2>1. states[p] \in PlayerState
    BY <1>8, OnlineHasState DEF ReloadPlayer
  <2>2. /\ states'[p] # Absent /\ states[p] # Absent
        /\ \A q \in Players : q # p => states'[q] = states[q]
    BY <1>8, <2>1, RestoreEffect, NeitherAbsent DEF ReloadPlayer
  <2> QED BY <1>8, <2>2 DEF ReloadPlayer
<1>9. ASSUME NEW p \in Players, Leave(p) PROVE MapsFit'
  BY <1>9 DEF Leave, Set
<1>10. CASE Close
  BY <1>10 DEF Close
<1>11. ASSUME NEW p \in Players, ClosePersist(p) PROVE MapsFit'
  <2>1. In(states[p], membership[p]) \in PlayerState
    BY <1>11, OnlineHasMembership DEF ClosePersist
  <2>2. /\ states'[p] # Absent /\ states[p] # Absent
        /\ \A q \in Players : q # p => states'[q] = states[q]
    BY <1>11, <2>1, UpdateEffect, OnlineHasState, NeitherAbsent DEF ClosePersist
  <2> QED BY <1>11, <2>2 DEF ClosePersist
<1>12. CASE CloseShutdown
  BY <1>12 DEF CloseShutdown
<1>13. CASE CloseAwait
  BY <1>13 DEF CloseAwait
<1>14. ASSUME NEW p \in Players, CloseFlush(p) PROVE MapsFit'
  BY <1>14 DEF CloseFlush
<1>15. CASE CloseDone
  BY <1>15 DEF CloseDone
<1>16. CASE Exit
  BY <1>16 DEF Exit
<1>17. CASE Crash
  BY <1>17 DEF Crash
<1>18. CASE Start
  BY <1>18 DEF Start
<1>19. CASE UNCHANGED vars
  BY <1>19 DEF vars
<1> QED
  BY <1>1, <1>2, <1>3, <1>4, <1>5, <1>6, <1>7, <1>8, <1>9, <1>10, <1>11, <1>12, <1>13, <1>14, <1>15, <1>16, <1>17, <1>18, <1>19
  DEF Next, Session, Stop

\* The rest of Phases: what the operation in progress still has to do, and what a
\* stop has emptied.
Progress ==
    /\ IF main.op = "load"
       THEN main.player \in online /\ (main.row # Absent => db[main.player] # Absent)
       ELSE main.player = Absent
    /\ main.op \in {"reload", "persist", "flush"} => main.todo \subseteq online
    /\ main.op \in {"await", "flush", "closed", "down"} => \A p \in Players : membership[p] = Absent
    /\ main.op \in {"flush", "closed"} /\ ~timedOut => queue = <<>>
    /\ main.op = "down" => queue = <<>> /\ online = {}

\* Every step leaves the operation, its players and the queue fitting each other.
LEMMA ProgressStep == Types /\ Phases /\ [Next]_vars => Progress'
<1> SUFFICES ASSUME Types, Phases, [Next]_vars PROVE Progress'
  OBVIOUS
<1>0. \A q \in Players : db[q] # Absent => db'[q] # Absent
  BY RowsStay
<1> USE <1>0 DEF Progress, Phases, Op
<1>1. CASE SaverStep
  <2>1. queue # <<>> /\ main' = main /\ online' = online /\ membership' = membership /\ timedOut' = timedOut
    BY <1>1 DEF SaverStep
  <2>2. main.op = "load" => main.player \in Players
    BY DEF Types
  <2> QED BY <1>1, <2>1, <2>2 DEF SaverStep
<1>2. ASSUME NEW p \in Players, LoadRow(p) PROVE Progress'
  BY <1>2 DEF LoadRow, NoSave
<1>3. CASE LoadRest
  BY <1>3 DEF LoadRest
<1>4. CASE LoadEmpty
  BY <1>4 DEF LoadEmpty
<1>5. ASSUME NEW p \in Players, NEW m \in Marks, SetMark(p, m) PROVE Progress'
  BY <1>5 DEF SetMark
<1>6. ASSUME NEW p \in Players, NEW c \in Channels, SetChannel(p, c) PROVE Progress'
  BY <1>6 DEF SetChannel
<1>7. CASE Reload
  BY <1>7 DEF Reload
<1>8. ASSUME NEW p \in Players, ReloadPlayer(p) PROVE Progress'
  BY <1>8 DEF ReloadPlayer
<1>9. ASSUME NEW p \in Players, Leave(p) PROVE Progress'
  BY <1>9 DEF Leave
<1>10. CASE Close
  BY <1>10 DEF Close
<1>11. ASSUME NEW p \in Players, ClosePersist(p) PROVE Progress'
  BY <1>11 DEF ClosePersist
<1>12. CASE CloseShutdown
  BY <1>12 DEF CloseShutdown
<1>13. CASE CloseAwait
  BY <1>13 DEF CloseAwait, Types
<1>14. ASSUME NEW p \in Players, CloseFlush(p) PROVE Progress'
  BY <1>14 DEF CloseFlush
<1>15. CASE CloseDone
  BY <1>15 DEF CloseDone
<1>16. CASE Exit
  BY <1>16 DEF Exit
<1>17. CASE Crash
  BY <1>17 DEF Crash
<1>18. CASE Start
  BY <1>18 DEF Start
<1>19. CASE UNCHANGED vars
  BY <1>19 DEF vars, Types
<1> QED
  BY <1>1, <1>2, <1>3, <1>4, <1>5, <1>6, <1>7, <1>8, <1>9, <1>10, <1>11, <1>12, <1>13, <1>14, <1>15, <1>16, <1>17, <1>18, <1>19
  DEF Next, Session, Stop

\* Every step keeps the phases.
LEMMA PhasesStep == Types /\ Phases /\ MembershipInStep /\ [Next]_vars => Phases'
<1> SUFFICES ASSUME Types, Phases, MembershipInStep, [Next]_vars PROVE Phases'
  OBVIOUS
<1>1. MapsFit' /\ Progress'
  BY MapsFitStep, ProgressStep
<1> QED BY <1>1 DEF Phases, MapsFit, Progress

-----------------------------------------------------------------------------
(* The copy of the membership *)

\* Every step keeps the working membership and the saved one together.
LEMMA MembershipStep == Types /\ Phases /\ MembershipInStep /\ [Next]_vars => MembershipInStep'
<1> SUFFICES ASSUME Types, Phases, MembershipInStep, [Next]_vars PROVE MembershipInStep'
  OBVIOUS
<1> USE NeitherAbsent DEF MembershipInStep, Phases, Op
<1>1. CASE SaverStep
  BY <1>1 DEF SaverStep
<1>2. ASSUME NEW p \in Players, LoadRow(p) PROVE MembershipInStep'
  BY <1>2 DEF LoadRow
<1>3. CASE LoadRest
  <2>1. main.player \in Players /\ main.row \in PlayerState /\ db[main.player] \in PlayerState
    BY <1>3 DEF LoadRest, Types, Main
  <2>2. In(main.row, db[main.player].channel) \in PlayerState
    BY <2>1, StatesInherit DEF PlayerState
  <2>3. /\ states'[main.player] # Absent /\ membership'[main.player] # Absent
        /\ membership'[main.player] = states'[main.player].channel
        /\ \A q \in Players : q # main.player =>
              states'[q] = states[q] /\ membership'[q] = membership[q]
    BY <1>3, <2>1, <2>2, RestoreEffect DEF LoadRest
  <2>4. main.op = "load"
    BY <1>3 DEF LoadRest
  <2> QED BY <2>1, <2>3, <2>4
<1>4. CASE LoadEmpty
  <2>1. main.player \in Players
    BY <1>4 DEF LoadEmpty, Types
  <2>3. /\ states'[main.player] # Absent /\ membership'[main.player] # Absent
        /\ membership'[main.player] = states'[main.player].channel
        /\ \A q \in Players : q # main.player =>
              states'[q] = states[q] /\ membership'[q] = membership[q]
    BY <1>4, <2>1, EmptyState, RestoreEffect DEF LoadEmpty
  <2>4. main.op = "load"
    BY <1>4 DEF LoadEmpty
  <2> QED BY <2>1, <2>3, <2>4
<1>5. ASSUME NEW p \in Players, NEW m \in Marks, SetMark(p, m) PROVE MembershipInStep'
  <2>1. [mark |-> m, channel |-> states[p].channel] \in PlayerState
    BY <1>5, OnlineHasState DEF SetMark, PlayerState
  <2>2. /\ states'[p] # Absent /\ states[p] # Absent /\ states'[p].channel = states[p].channel
        /\ \A q \in Players : q # p => states'[q] = states[q]
    BY <1>5, <2>1, UpdateEffect, OnlineHasState DEF SetMark
  <2> QED BY <1>5, <2>2 DEF SetMark
<1>6. ASSUME NEW p \in Players, NEW c \in Channels, SetChannel(p, c) PROVE MembershipInStep'
  <2>1. In(states[p], c) \in PlayerState /\ In(states[p], c).channel = c
    BY <1>6, OnlineHasState, StatesInherit DEF SetChannel
  <2>2. /\ states'[p] # Absent /\ states'[p].channel = c
        /\ \A q \in Players : q # p => states'[q] = states[q]
    BY <1>6, <2>1, UpdateEffect DEF SetChannel
  <2>3. /\ membership'[p] = c
        /\ \A q \in Players : q # p => membership'[q] = membership[q]
    BY <1>6 DEF SetChannel, Set, Types
  <2> QED BY <1>6, <2>2, <2>3 DEF SetChannel
<1>7. CASE Reload
  BY <1>7 DEF Reload
<1>8. ASSUME NEW p \in Players, ReloadPlayer(p) PROVE MembershipInStep'
  <2>1. states[p] \in PlayerState
    BY <1>8, OnlineHasState DEF ReloadPlayer
  <2>2. /\ states'[p] # Absent /\ membership'[p] # Absent /\ membership'[p] = states'[p].channel
        /\ \A q \in Players : q # p => states'[q] = states[q] /\ membership'[q] = membership[q]
    BY <1>8, <2>1, RestoreEffect DEF ReloadPlayer
  <2> QED BY <1>8, <2>2 DEF ReloadPlayer
<1>9. ASSUME NEW p \in Players, Leave(p) PROVE MembershipInStep'
  BY <1>9 DEF Leave, Set, Types
<1>10. CASE Close
  BY <1>10 DEF Close
<1>11. ASSUME NEW p \in Players, ClosePersist(p) PROVE MembershipInStep'
  <2>1. /\ In(states[p], membership[p]) \in PlayerState
        /\ In(states[p], membership[p]).channel = membership[p]
    BY <1>11, OnlineHasMembership DEF ClosePersist, In
  <2>2. /\ states'[p] # Absent /\ states[p] # Absent /\ states'[p].channel = membership[p]
        /\ \A q \in Players : q # p => states'[q] = states[q]
    BY <1>11, <2>1, UpdateEffect, OnlineHasState DEF ClosePersist
  <2> QED BY <1>11, <2>2 DEF ClosePersist
<1>12. CASE CloseShutdown
  BY <1>12 DEF CloseShutdown
<1>13. CASE CloseAwait
  BY <1>13 DEF CloseAwait
<1>14. ASSUME NEW p \in Players, CloseFlush(p) PROVE MembershipInStep'
  BY <1>14 DEF CloseFlush
<1>15. CASE CloseDone
  BY <1>15 DEF CloseDone
<1>16. CASE Exit
  BY <1>16 DEF Exit
<1>17. CASE Crash
  BY <1>17 DEF Crash
<1>18. CASE Start
  BY <1>18 DEF Start
<1>19. CASE UNCHANGED vars
  BY <1>19 DEF vars
<1> QED
  BY <1>1, <1>2, <1>3, <1>4, <1>5, <1>6, <1>7, <1>8, <1>9, <1>10, <1>11, <1>12, <1>13, <1>14, <1>15, <1>16, <1>17, <1>18, <1>19
  DEF Next, Session, Stop

-----------------------------------------------------------------------------
(* The map and the state last held *)

\* Every step that changes a state in the map records it as the last one held.
LEMMA CacheIsLatestStep ==
    Types /\ Phases /\ MembershipInStep /\ CacheIsLatest /\ [Next]_vars => CacheIsLatest'
<1> SUFFICES ASSUME Types, Phases, MembershipInStep, CacheIsLatest, [Next]_vars PROVE CacheIsLatest'
  OBVIOUS
<1> USE NeitherAbsent DEF CacheIsLatest, Op
<1>1. CASE SaverStep
  BY <1>1 DEF SaverStep
<1>2. ASSUME NEW p \in Players, LoadRow(p) PROVE CacheIsLatest'
  BY <1>2 DEF LoadRow
<1>3. CASE LoadRest
  <2>1. main.player \in Players /\ main.row \in PlayerState /\ db[main.player] \in PlayerState
    BY <1>3 DEF LoadRest, Types, Main, Phases
  <2>2. In(main.row, db[main.player].channel) \in PlayerState
    BY <2>1, StatesInherit DEF PlayerState
  <2> QED BY <1>3, <2>1, <2>2, RestoreEffect DEF LoadRest
<1>4. CASE LoadEmpty
  <2>1. main.player \in Players
    BY <1>4 DEF LoadEmpty, Types, Phases
  <2> QED BY <1>4, <2>1, EmptyState, RestoreEffect DEF LoadEmpty
<1>5. ASSUME NEW p \in Players, NEW m \in Marks, SetMark(p, m) PROVE CacheIsLatest'
  BY <1>5 DEF SetMark, Update, Set
<1>6. ASSUME NEW p \in Players, NEW c \in Channels, SetChannel(p, c) PROVE CacheIsLatest'
  BY <1>6 DEF SetChannel, Update, Set
<1>7. CASE Reload
  BY <1>7 DEF Reload
<1>8. ASSUME NEW p \in Players, ReloadPlayer(p) PROVE CacheIsLatest'
  <2>1. states[p] \in PlayerState
    BY <1>8, OnlineHasState DEF ReloadPlayer, Phases
  <2> QED BY <1>8, <2>1, RestoreEffect DEF ReloadPlayer
<1>9. ASSUME NEW p \in Players, Leave(p) PROVE CacheIsLatest'
  BY <1>9 DEF Leave, Set
<1>10. CASE Close
  BY <1>10 DEF Close
<1>11. ASSUME NEW p \in Players, ClosePersist(p) PROVE CacheIsLatest'
  BY <1>11 DEF ClosePersist, Update, Set
<1>12. CASE CloseShutdown
  BY <1>12 DEF CloseShutdown
<1>13. CASE CloseAwait
  BY <1>13 DEF CloseAwait
<1>14. ASSUME NEW p \in Players, CloseFlush(p) PROVE CacheIsLatest'
  BY <1>14 DEF CloseFlush
<1>15. CASE CloseDone
  BY <1>15 DEF CloseDone
<1>16. CASE Exit
  BY <1>16 DEF Exit
<1>17. CASE Crash
  BY <1>17 DEF Crash
<1>18. CASE Start
  BY <1>18 DEF Start, Phases
<1>19. CASE UNCHANGED vars
  BY <1>19 DEF vars
<1> QED
  BY <1>1, <1>2, <1>3, <1>4, <1>5, <1>6, <1>7, <1>8, <1>9, <1>10, <1>11, <1>12, <1>13, <1>14, <1>15, <1>16, <1>17, <1>18, <1>19
  DEF Next, Session, Stop

-----------------------------------------------------------------------------
(* Write-behind *)

\* An update queues the state it records, after every other save of the player.
LEMMA UpdateQueued ==
    ASSUME Types, NEW p \in Players, NEW s \in PlayerState, Update(p, s)
    PROVE  /\ LastFor(queue', p, s) /\ latest'[p] = s
           /\ \A q \in Players : q # p =>
                 /\ latest'[q] = latest[q]
                 /\ NoneFor(queue, q) => NoneFor(queue', q)
                 /\ \A t : LastFor(queue, q, t) => LastFor(queue', q, t)
<1> DEFINE task == [player |-> p, state |-> s]
<1>1. task \in Task /\ task.player = p /\ task.state = s
  BY DEF Task
<1> HIDE DEF task
<1>2. queue' = Append(queue, task) /\ queue \in Seq(Task)
  BY DEF Update, Types, task
<1>3. LastFor(queue', p, s)
  BY <1>1, <1>2, AppendedIsLast
<1>4. ASSUME NEW q \in Players, q # p
      PROVE  /\ NoneFor(queue, q) => NoneFor(queue', q)
             /\ \A t : LastFor(queue, q, t) => LastFor(queue', q, t)
  BY <1>1, <1>2, <1>4, AppendedForOthers
<1> QED BY <1>3, <1>4, UpdateEffect

\* The same for restoreChannelMembership.
LEMMA RestoreQueued ==
    ASSUME Types, NEW p \in Players, NEW s \in PlayerState, Restore(p, s)
    PROVE  /\ LastFor(queue', p, latest'[p])
           /\ \A q \in Players : q # p =>
                 /\ latest'[q] = latest[q]
                 /\ NoneFor(queue, q) => NoneFor(queue', q)
                 /\ \A t : LastFor(queue, q, t) => LastFor(queue', q, t)
<1>1. PICK c \in Channels : membership' = Set(membership, p, c) /\ Update(p, In(s, c))
  BY RestoreIsUpdate
<1>2. In(s, c) \in PlayerState
  BY StatesInherit
<1> QED BY <1>1, <1>2, UpdateQueued

\* Every step keeps the last state held the last to be written.
LEMMA WriteBehindStep ==
    Types /\ Phases /\ MembershipInStep /\ CacheIsLatest /\ WriteBehind /\ [Next]_vars => WriteBehind'
<1> DEFINE Goal(q) == \/ LastFor(queue', q, latest'[q])
                      \/ NoneFor(queue', q) /\ (db'[q] = latest'[q] \/ q \in failed')
<1> SUFFICES ASSUME Types, Phases, MembershipInStep, CacheIsLatest, WriteBehind, [Next]_vars,
                    main'.op # "down", NEW q \in Players
             PROVE  Goal(q)
  BY DEF WriteBehind
<1>0. main.op # "down" => \/ LastFor(queue, q, latest[q])
                          \/ NoneFor(queue, q) /\ (db[q] = latest[q] \/ q \in failed)
  BY DEF WriteBehind
<1> USE DEF NoSave, Op
<1>1. CASE SaverStep
  <2>1. Head(queue) \in Task /\ queue \in Seq(Task) /\ queue # <<>> /\ main.op # "down"
    BY <1>1, HeadTailProperties DEF SaverStep, Types
  <2>2. queue' = Tail(queue) /\ latest' = latest
    BY <1>1 DEF SaverStep
  <2>3. CASE Head(queue).player = q
    <3>1. ~NoneFor(queue, q)
      BY <2>1, <2>3, HeadTailProperties, LenProperties, EmptySeq DEF NoneFor
    <3>2. \/ LastFor(Tail(queue), q, latest[q])
          \/ Head(queue).state = latest[q] /\ NoneFor(Tail(queue), q)
      BY <1>0, <2>1, <3>1, TailKeeps
    <3>3. db'[q] = Head(queue).state \/ q \in failed'
      BY <1>1, <2>3 DEF SaverStep, Saved, SaveFailed, Set
    <3> QED BY <2>2, <3>2, <3>3
  <2>4. CASE Head(queue).player # q
    <3>1. db'[q] = db[q] /\ (q \in failed => q \in failed')
      BY <1>1, <2>4 DEF SaverStep, Saved, SaveFailed, Set
    <3>2. \/ LastFor(Tail(queue), q, latest[q])
          \/ NoneFor(Tail(queue), q) /\ (db[q] = latest[q] \/ q \in failed)
      BY <1>0, <2>1, <2>4, TailKeeps
    <3> QED BY <2>2, <3>1, <3>2
  <2> QED BY <2>3, <2>4
<1>2. ASSUME NEW p \in Players, LoadRow(p) PROVE Goal(q)
  BY <1>0, <1>2 DEF LoadRow
<1>3. CASE LoadRest
  <2>1. main.player \in Players /\ main.row \in PlayerState /\ db[main.player] \in PlayerState
    BY <1>3 DEF LoadRest, Types, Main, Phases
  <2>2. In(main.row, db[main.player].channel) \in PlayerState
    BY <2>1, StatesInherit DEF PlayerState
  <2> QED BY <1>0, <1>3, <2>1, <2>2, RestoreQueued DEF LoadRest
<1>4. CASE LoadEmpty
  <2>1. main.player \in Players
    BY <1>4 DEF LoadEmpty, Types, Phases
  <2>2. q # main.player => db'[q] = db[q] /\ (q \in failed => q \in failed')
    BY <1>4 DEF LoadEmpty, Saved, SaveFailed, Set
  <2> QED BY <1>0, <1>4, <2>1, <2>2, EmptyState, RestoreQueued DEF LoadEmpty
<1>5. ASSUME NEW p \in Players, NEW m \in Marks, SetMark(p, m) PROVE Goal(q)
  <2>1. [mark |-> m, channel |-> states[p].channel] \in PlayerState
    BY <1>5, OnlineHasState DEF SetMark, PlayerState
  <2>2. Goal(q)
    BY <1>0, <1>5, <2>1, UpdateQueued DEF SetMark
  <2> QED BY <2>2
<1>6. ASSUME NEW p \in Players, NEW c \in Channels, SetChannel(p, c) PROVE Goal(q)
  <2>1. In(states[p], c) \in PlayerState
    BY <1>6, OnlineHasState, StatesInherit DEF SetChannel
  <2>2. Goal(q)
    BY <1>0, <1>6, <2>1, UpdateQueued DEF SetChannel
  <2> QED BY <2>2
<1>7. CASE Reload
  BY <1>0, <1>7 DEF Reload
<1>8. ASSUME NEW p \in Players, ReloadPlayer(p) PROVE Goal(q)
  <2>1. states[p] \in PlayerState
    BY <1>8, OnlineHasState DEF ReloadPlayer, Phases
  <2> QED BY <1>0, <1>8, <2>1, RestoreQueued DEF ReloadPlayer
<1>9. ASSUME NEW p \in Players, Leave(p) PROVE Goal(q)
  <2> DEFINE s == In(states[p], membership[p])
             task == [player |-> p, state |-> s]
  <2>1. s \in PlayerState
    BY <1>9, OnlineHasMembership DEF Leave
  <2>2. task \in Task /\ task.player = p /\ task.state = s
    BY <2>1 DEF Task
  <2>3. queue' = Append(Append(queue, task), task) /\ latest' = Set(latest, p, s) /\ db' = db /\ failed' = failed
    BY <1>9 DEF Leave
  <2>4. main.op # "down"
    BY <1>9 DEF Leave
  <2> HIDE DEF s, task
  <2>5. queue \in Seq(Task) /\ Append(queue, task) \in Seq(Task)
    BY <2>2, AppendProperties DEF Types
  <2>6. CASE q = p
    BY <2>2, <2>3, <2>5, <2>6, AppendedIsLast DEF Set
  <2>7. CASE q # p
    <3>1. latest'[q] = latest[q]
      BY <2>3, <2>7 DEF Set
    <3>2. /\ NoneFor(queue, q) => NoneFor(Append(queue, task), q)
          /\ \A t : LastFor(queue, q, t) => LastFor(Append(queue, task), q, t)
      BY <2>2, <2>5, <2>7, AppendedForOthers
    <3>3. /\ NoneFor(Append(queue, task), q) => NoneFor(queue', q)
          /\ \A t : LastFor(Append(queue, task), q, t) => LastFor(queue', q, t)
      BY <2>2, <2>3, <2>5, <2>7, AppendedForOthers
    <3> QED BY <1>0, <2>3, <2>4, <3>1, <3>2, <3>3
  <2> QED BY <2>6, <2>7
<1>10. CASE Close
  BY <1>0, <1>10 DEF Close
<1>11. ASSUME NEW p \in Players, ClosePersist(p) PROVE Goal(q)
  <2>1. In(states[p], membership[p]) \in PlayerState
    BY <1>11, OnlineHasMembership DEF ClosePersist, Phases
  <2>2. Goal(q)
    BY <1>0, <1>11, <2>1, UpdateQueued DEF ClosePersist
  <2> QED BY <2>2
<1>12. CASE CloseShutdown
  BY <1>0, <1>12 DEF CloseShutdown
<1>13. CASE CloseAwait
  BY <1>0, <1>13 DEF CloseAwait
<1>14. ASSUME NEW p \in Players, CloseFlush(p) PROVE Goal(q)
  <2>1. states[p] = latest[p]
    BY <1>14, NeitherAbsent DEF CloseFlush, CacheIsLatest, Phases
  <2>2. /\ q = p => db'[q] = latest[q] \/ q \in failed'
        /\ q # p => db'[q] = db[q] /\ (q \in failed => q \in failed')
    BY <1>14, <2>1 DEF CloseFlush, Saved, SaveFailed, Set
  <2> QED BY <1>0, <1>14, <2>2 DEF CloseFlush
<1>15. CASE CloseDone
  BY <1>0, <1>15 DEF CloseDone
<1>16. CASE Exit
  BY <1>0, <1>16 DEF Exit
<1>17. CASE Crash
  BY <1>0, <1>17 DEF Crash
<1>18. CASE Start
  <2>1. queue' = <<>> /\ latest'[q] = db'[q]
    BY <1>18 DEF Start, Phases
  <2> QED BY <2>1 DEF NoneFor
<1>19. CASE UNCHANGED vars
  BY <1>0, <1>19 DEF vars
<1> QED
  BY <1>1, <1>2, <1>3, <1>4, <1>5, <1>6, <1>7, <1>8, <1>9, <1>10, <1>11, <1>12, <1>13, <1>14, <1>15, <1>16, <1>17, <1>18, <1>19
  DEF Next, Session, Stop

\* The empty queue has no save of anybody.
LEMMA NothingInEmpty ==
    ASSUME NEW q, NEW p, q = <<>>
    PROVE  NoneFor(q, p) /\ \A t : ~LastFor(q, p, t)
  BY DEF NoneFor, LastFor

\* Every step of a stop, and every other, keeps what the stop promises.
LEMMA StopStep ==
    Types /\ Phases /\ WriteBehind /\ StopSavesAll /\ [Next]_vars => StopSavesAll'
<1> SUFFICES ASSUME Types, Phases, WriteBehind, StopSavesAll, [Next]_vars,
                    main'.op = "down", ~timedOut', NEW q \in Players
             PROVE  db'[q] = latest'[q] \/ q \in failed'
  BY DEF StopSavesAll
<1> USE DEF Op
<1>1. CASE SaverStep
  BY <1>1 DEF SaverStep
<1>2. ASSUME NEW p \in Players, LoadRow(p) PROVE db'[q] = latest'[q] \/ q \in failed'
  BY <1>2 DEF LoadRow
<1>3. CASE LoadRest
  BY <1>3 DEF LoadRest
<1>4. CASE LoadEmpty
  BY <1>4 DEF LoadEmpty
<1>5. ASSUME NEW p \in Players, NEW m \in Marks, SetMark(p, m) PROVE db'[q] = latest'[q] \/ q \in failed'
  BY <1>5 DEF SetMark
<1>6. ASSUME NEW p \in Players, NEW c \in Channels, SetChannel(p, c) PROVE db'[q] = latest'[q] \/ q \in failed'
  BY <1>6 DEF SetChannel
<1>7. CASE Reload
  BY <1>7 DEF Reload
<1>8. ASSUME NEW p \in Players, ReloadPlayer(p) PROVE db'[q] = latest'[q] \/ q \in failed'
  BY <1>8 DEF ReloadPlayer
<1>9. ASSUME NEW p \in Players, Leave(p) PROVE db'[q] = latest'[q] \/ q \in failed'
  BY <1>9 DEF Leave
<1>10. CASE Close
  BY <1>10 DEF Close
<1>11. ASSUME NEW p \in Players, ClosePersist(p) PROVE db'[q] = latest'[q] \/ q \in failed'
  BY <1>11 DEF ClosePersist
<1>12. CASE CloseShutdown
  BY <1>12 DEF CloseShutdown
<1>13. CASE CloseAwait
  BY <1>13 DEF CloseAwait
<1>14. ASSUME NEW p \in Players, CloseFlush(p) PROVE db'[q] = latest'[q] \/ q \in failed'
  BY <1>14 DEF CloseFlush
<1>15. CASE CloseDone
  BY <1>15 DEF CloseDone
<1>16. CASE Exit
  <2>1. queue = <<>> /\ main.op # "down"
    BY <1>16 DEF Exit, Phases
  <2>2. db[q] = latest[q] \/ q \in failed
    BY <2>1, NothingInEmpty DEF WriteBehind
  <2> QED BY <1>16, <2>2 DEF Exit, NoSave
<1>17. CASE Crash
  BY <1>17 DEF Crash
<1>18. CASE Start
  BY <1>18 DEF Start
<1>19. CASE UNCHANGED vars
  BY <1>19 DEF vars, StopSavesAll
<1> QED
  BY <1>1, <1>2, <1>3, <1>4, <1>5, <1>6, <1>7, <1>8, <1>9, <1>10, <1>11, <1>12, <1>13, <1>14, <1>15, <1>16, <1>17, <1>18, <1>19
  DEF Next, Session, Stop

-----------------------------------------------------------------------------
(* What commands set is kept *)

\* A failed save or a stop that timed out is on record as a fault.
LEMMA FaultsStep ==
    (failed # {} \/ timedOut => faulty) /\ [Next]_vars =>
        /\ failed' # {} \/ timedOut' => faulty'
        /\ faulty => faulty'
        /\ hasty => hasty'
<1> DEFINE Goal == /\ failed' # {} \/ timedOut' => faulty'
                   /\ faulty => faulty'
                   /\ hasty => hasty'
<1> SUFFICES ASSUME failed # {} \/ timedOut => faulty, [Next]_vars PROVE Goal
  OBVIOUS
<1> USE DEF NoSave, Saved, SaveFailed
<1>1. CASE SaverStep
  BY <1>1 DEF SaverStep
<1>2. ASSUME NEW p \in Players, LoadRow(p) PROVE Goal
  BY <1>2 DEF LoadRow
<1>3. CASE LoadRest
  BY <1>3 DEF LoadRest
<1>4. CASE LoadEmpty
  BY <1>4 DEF LoadEmpty
<1>5. ASSUME NEW p \in Players, NEW m \in Marks, SetMark(p, m) PROVE Goal
  BY <1>5 DEF SetMark
<1>6. ASSUME NEW p \in Players, NEW c \in Channels, SetChannel(p, c) PROVE Goal
  BY <1>6 DEF SetChannel
<1>7. CASE Reload
  BY <1>7 DEF Reload
<1>8. ASSUME NEW p \in Players, ReloadPlayer(p) PROVE Goal
  BY <1>8 DEF ReloadPlayer
<1>9. ASSUME NEW p \in Players, Leave(p) PROVE Goal
  BY <1>9 DEF Leave
<1>10. CASE Close
  BY <1>10 DEF Close
<1>11. ASSUME NEW p \in Players, ClosePersist(p) PROVE Goal
  BY <1>11 DEF ClosePersist
<1>12. CASE CloseShutdown
  BY <1>12 DEF CloseShutdown
<1>13. CASE CloseAwait
  BY <1>13 DEF CloseAwait
<1>14. ASSUME NEW p \in Players, CloseFlush(p) PROVE Goal
  BY <1>14 DEF CloseFlush
<1>15. CASE CloseDone
  BY <1>15 DEF CloseDone
<1>16. CASE Exit
  BY <1>16 DEF Exit
<1>17. CASE Crash
  BY <1>17 DEF Crash
<1>18. CASE Start
  BY <1>18 DEF Start
<1>19. CASE UNCHANGED vars
  BY <1>19 DEF vars
<1> QED
  BY <1>1, <1>2, <1>3, <1>4, <1>5, <1>6, <1>7, <1>8, <1>9, <1>10, <1>11, <1>12, <1>13, <1>14, <1>15, <1>16, <1>17, <1>18, <1>19
  DEF Next, Session, Stop

\* A state derived from the one in the map keeps the mark last given.
LEMMA HeldMark ==
    ASSUME Types, Phases, CacheIsLatest, HeldAsGiven, ~faulty, ~hasty,
           main.op \notin {"closed", "down", "load"}, NEW p \in online
    PROVE  states[p] \in PlayerState /\ states[p].mark = given[p]
<1>1. p \in Players /\ states[p] \in PlayerState /\ states[p] # Absent
  BY OnlineHasState, NeitherAbsent
<1> QED BY <1>1 DEF CacheIsLatest, HeldAsGiven

\* Every step keeps the last state held at the mark last given.
LEMMA HeldStep ==
    /\ Types /\ Phases /\ MembershipInStep /\ CacheIsLatest /\ WriteBehind /\ StopSavesAll /\ HeldAsGiven
    /\ [Next]_vars
    => HeldAsGiven'
<1> DEFINE Kept(q) == IF latest'[q] = Absent THEN given'[q] = Clear ELSE latest'[q].mark = given'[q]
           Goal == /\ \A q \in Players : Kept(q)
                   /\ main'.op = "load" => NoneFor(queue', main'.player) /\ main'.row = latest'[main'.player]
<1> SUFFICES ASSUME Types, Phases, MembershipInStep, CacheIsLatest, WriteBehind, StopSavesAll, HeldAsGiven,
                    [Next]_vars, ~faulty', ~hasty'
             PROVE  Goal
  BY FaultsStep DEF HeldAsGiven
<1>0. /\ ~faulty /\ ~hasty /\ failed = {} /\ ~timedOut
      /\ \A q \in Players : IF latest[q] = Absent THEN given[q] = Clear ELSE latest[q].mark = given[q]
      /\ main.op = "load" => NoneFor(queue, main.player) /\ main.row = latest[main.player]
  BY FaultsStep DEF HeldAsGiven
<1> USE NeitherAbsent DEF Op
<1>1. CASE SaverStep
  <2>1. main.op = "load" => NoneFor(Tail(queue), main.player)
    BY <1>0, <1>1, TailKeeps DEF SaverStep, Types
  <2> QED BY <1>0, <1>1, <2>1 DEF SaverStep
<1>2. ASSUME NEW p \in Players, LoadRow(p) PROVE Goal
  <2>1. NoneFor(queue, p) /\ queue' = queue /\ latest' = latest /\ given' = given
        /\ main'.player = p /\ main'.row = db[p] /\ main.op # "down"
    BY <1>0, <1>2 DEF LoadRow
  <2>2. ~LastFor(queue, p, latest[p])
    BY <2>1 DEF NoneFor, LastFor
  <2>3. db[p] = latest[p]
    BY <1>0, <2>1, <2>2 DEF WriteBehind
  <2> QED BY <1>0, <2>1, <2>3
<1>3. CASE LoadRest
  <2>1. main.player \in Players /\ main.row \in PlayerState /\ db[main.player] \in PlayerState
    BY <1>3 DEF LoadRest, Types, Main, Phases
  <2>2. /\ In(main.row, db[main.player].channel) \in PlayerState
        /\ In(main.row, db[main.player].channel).mark = main.row.mark
    BY <2>1, StatesInherit DEF PlayerState
  <2>3. /\ latest'[main.player] \in PlayerState /\ latest'[main.player].mark = main.row.mark
        /\ \A q \in Players : q # main.player => latest'[q] = latest[q]
    BY <1>3, <2>1, <2>2, RestoreEffect DEF LoadRest
  <2>4. main.row.mark = given[main.player] /\ given' = given /\ main'.op = "rest"
    BY <1>0, <1>3, <2>1 DEF LoadRest
  <2> QED BY <1>0, <2>3, <2>4
<1>4. CASE LoadEmpty
  <2>1. main.player \in Players /\ main.row = Absent /\ main.op = "load" /\ given' = given /\ main'.op = "rest"
    BY <1>0, <1>4 DEF LoadEmpty, Types, Phases
  <2>2. /\ latest'[main.player] \in PlayerState /\ latest'[main.player].mark = Clear
        /\ \A q \in Players : q # main.player => latest'[q] = latest[q]
    BY <1>4, <2>1, EmptyState, RestoreEffect DEF LoadEmpty, Empty
  <2>3. given[main.player] = Clear
    BY <1>0, <2>1
  <2> QED BY <1>0, <2>1, <2>2, <2>3
<1>5. ASSUME NEW p \in Players, NEW m \in Marks, SetMark(p, m) PROVE Goal
  <2>1. [mark |-> m, channel |-> states[p].channel] \in PlayerState
    BY <1>5, OnlineHasState DEF SetMark, PlayerState
  <2>2. /\ latest'[p] # Absent /\ latest'[p].mark = m
        /\ \A q \in Players : q # p => latest'[q] = latest[q]
    BY <1>5, <2>1, UpdateEffect DEF SetMark
  <2>3. /\ given'[p] = m /\ main'.op = "rest"
        /\ \A q \in Players : q # p => given'[q] = given[q]
    BY <1>5 DEF SetMark, Set
  <2> QED BY <1>0, <2>2, <2>3
<1>6. ASSUME NEW p \in Players, NEW c \in Channels, SetChannel(p, c) PROVE Goal
  <2>1. states[p].mark = given[p] /\ In(states[p], c) \in PlayerState /\ In(states[p], c).mark = states[p].mark
    BY <1>0, <1>6, HeldMark, StatesInherit DEF SetChannel
  <2>2. /\ latest'[p] # Absent /\ latest'[p].mark = given[p]
        /\ \A q \in Players : q # p => latest'[q] = latest[q]
    BY <1>6, <2>1, UpdateEffect DEF SetChannel
  <2> QED BY <1>0, <1>6, <2>2 DEF SetChannel
<1>7. CASE Reload
  BY <1>0, <1>7 DEF Reload
<1>8. ASSUME NEW p \in Players, ReloadPlayer(p) PROVE Goal
  <2>1. states[p] \in PlayerState /\ states[p].mark = given[p]
    BY <1>0, <1>8, HeldMark DEF ReloadPlayer, Phases
  <2>2. /\ latest'[p] # Absent /\ latest'[p].mark = given[p]
        /\ \A q \in Players : q # p => latest'[q] = latest[q]
    BY <1>8, <2>1, RestoreEffect DEF ReloadPlayer
  <2> QED BY <1>0, <1>8, <2>2 DEF ReloadPlayer
<1>9. ASSUME NEW p \in Players, Leave(p) PROVE Goal
  <2>1. states[p].mark = given[p]
    BY <1>0, <1>9, HeldMark DEF Leave
  <2>2. /\ In(states[p], membership[p]) \in PlayerState
        /\ In(states[p], membership[p]).mark = states[p].mark
    BY <1>9, OnlineHasMembership DEF Leave, In
  <2>3. /\ latest'[p] = In(states[p], membership[p])
        /\ \A q \in Players : q # p => latest'[q] = latest[q]
    BY <1>9 DEF Leave, Set, Types
  <2> QED BY <1>0, <1>9, <2>1, <2>2, <2>3 DEF Leave
<1>10. CASE Close
  BY <1>0, <1>10 DEF Close
<1>11. ASSUME NEW p \in Players, ClosePersist(p) PROVE Goal
  <2>1. states[p].mark = given[p]
    BY <1>0, <1>11, HeldMark DEF ClosePersist, Phases
  <2>2. /\ In(states[p], membership[p]) \in PlayerState
        /\ In(states[p], membership[p]).mark = states[p].mark
    BY <1>11, OnlineHasMembership DEF ClosePersist, Phases, In
  <2>3. /\ latest'[p] # Absent /\ latest'[p].mark = given[p]
        /\ \A q \in Players : q # p => latest'[q] = latest[q]
    BY <1>11, <2>1, <2>2, UpdateEffect DEF ClosePersist
  <2> QED BY <1>0, <1>11, <2>3 DEF ClosePersist
<1>12. CASE CloseShutdown
  BY <1>0, <1>12 DEF CloseShutdown
<1>13. CASE CloseAwait
  BY <1>0, <1>13 DEF CloseAwait
<1>14. ASSUME NEW p \in Players, CloseFlush(p) PROVE Goal
  BY <1>0, <1>14 DEF CloseFlush
<1>15. CASE CloseDone
  BY <1>0, <1>15 DEF CloseDone
<1>16. CASE Exit
  BY <1>0, <1>16 DEF Exit
<1>17. CASE Crash
  BY <1>0, <1>17 DEF Crash
<1>18. CASE Start
  <2>1. \A q \in Players : db[q] = latest[q]
    BY <1>0, <1>18 DEF Start, StopSavesAll
  <2> QED BY <1>0, <1>18, <2>1 DEF Start
<1>19. CASE UNCHANGED vars
  BY <1>0, <1>19 DEF vars
<1> QED
  BY <1>1, <1>2, <1>3, <1>4, <1>5, <1>6, <1>7, <1>8, <1>9, <1>10, <1>11, <1>12, <1>13, <1>14, <1>15, <1>16, <1>17, <1>18, <1>19
  DEF Next, Session, Stop

-----------------------------------------------------------------------------
(* The theorems *)

\* The inductive invariant.
IInv == TypeOK /\ MembershipInStep /\ WriteBehind /\ StopSavesAll /\ Strengthening

\* The initial state satisfies the inductive invariant.
LEMMA IInvInit == Init => IInv
<1> SUFFICES ASSUME Init PROVE IInv
  OBVIOUS
<1> USE DEF Init, Op
<1>1. Types
  BY TypesInit
<1>2. Phases /\ MembershipInStep /\ CacheIsLatest /\ StopSavesAll
  BY DEF Phases, MembershipInStep, CacheIsLatest, StopSavesAll
<1>3. WriteBehind /\ HeldAsGiven
  BY NothingInEmpty DEF WriteBehind, HeldAsGiven
<1> QED BY <1>1, <1>2, <1>3 DEF IInv, TypeOK, Strengthening

\* Every step preserves the inductive invariant.
LEMMA IInvStep == IInv /\ [Next]_vars => IInv'
<1> SUFFICES ASSUME IInv, [Next]_vars PROVE IInv'
  OBVIOUS
<1>1. Types' /\ Phases' /\ MembershipInStep' /\ CacheIsLatest'
  BY TypesStep, PhasesStep, MembershipStep, CacheIsLatestStep DEF IInv, TypeOK, Strengthening
<1>2. WriteBehind' /\ StopSavesAll' /\ HeldAsGiven'
  BY WriteBehindStep, StopStep, HeldStep DEF IInv, TypeOK, Strengthening
<1> QED BY <1>1, <1>2 DEF IInv, TypeOK, Strengthening

\* The inductive invariant always holds.
LEMMA IInvAlways == Spec => []IInv
  BY IInvInit, IInvStep, PTL DEF Spec

\* Every state has the types of its variables, and maps that fit the operation.
THEOREM TypeCorrect == Spec => []TypeOK
<1>1. IInv => TypeOK
  BY DEF IInv
<1> QED BY <1>1, IInvAlways, PTL

\* The membership ChatService works with is the one in the state that is saved.
THEOREM MembershipIsSaved == Spec => []MembershipInStep
<1>1. IInv => MembershipInStep
  BY DEF IInv
<1> QED BY <1>1, IInvAlways, PTL

\* What memory last held of a player is what is written last.
THEOREM NothingOvertaken == Spec => []WriteBehind
<1>1. IInv => WriteBehind
  BY DEF IInv
<1> QED BY <1>1, IInvAlways, PTL

\* A stop that did not time out leaves what memory held in the data source.
THEOREM StopIsSafe == Spec => []StopSavesAll
<1>1. IInv => StopSavesAll
  BY DEF IInv
<1> QED BY <1>1, IInvAlways, PTL

\* Settings survive sessions and restarts when no player is back before the saver
\* thread has caught up, and nothing fails.
THEOREM SettingsSurvive == Spec => []SettingsKept
<1>1. IInv => SettingsKept
  BY DEF IInv, Strengthening, HeldAsGiven, CacheIsLatest, SettingsKept
<1> QED BY <1>1, IInvAlways, PTL

\* What memory holds is what it last held, and that is what was given.
THEOREM MemoryIsLatest == Spec => []Strengthening
<1>1. IInv => Strengthening
  BY DEF IInv
<1> QED BY <1>1, IInvAlways, PTL

\* No older state of a player is left in the data source, by the saver thread or by a stop.
THEOREM SavesAreInOrder == Spec => []SavedInOrder
<1>1. WriteBehind /\ StopSavesAll => SavedInOrder
  BY DEF SavedInOrder
<1> QED BY <1>1, NothingOvertaken, StopIsSafe, PTL
=============================================================================
