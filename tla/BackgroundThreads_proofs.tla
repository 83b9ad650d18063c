------------------------- MODULE BackgroundThreads_proofs -------------------------
(***************************************************************************)
(* Proofs about the two parts of the mod with a thread of their own beside *)
(* the server thread: UpdateChecker, for every set of players and          *)
(* releases, and RedisBridge, for any number of reconnections, messages    *)
(* and broken connections.                                                 *)
(***************************************************************************)
EXTENDS UpdateChecker, RedisBridge, TLAPS, SequenceTheorems

-----------------------------------------------------------------------------
(* UpdateChecker: who is notified                                          *)

\* The inductive invariant: the types, that whoever is not notified is still to be
\* reached, that whoever is recorded heard of the release available or was overtaken,
\* and that notices are paid for by clears.
Inv == TypeOK /\ EveryoneOnTheWay /\ RecordedHeard /\ NoticeCurrent /\ NoticesCounted

\* The initial state satisfies the inductive invariant.
LEMMA InvInit == Init => Inv
<1> SUFFICES ASSUME Init PROVE Inv
  OBVIOUS
<1> USE CheckerAssumption DEF Init, Idle, Rest
<1>1. TypeOK
  <2>1. told \in [Players -> Seq(Releases)]
    <3>1. <<>> \in Seq(Releases)
      BY EmptySeq
    <3>2. told = [p \in Players |-> <<>>]
      OBVIOUS
    <3> QED BY <3>1, <3>2
  <2>2. closed \in BOOLEAN
    OBVIOUS
  <2> QED BY <2>1, <2>2 DEF TypeOK
<1>2. EveryoneOnTheWay
  BY DEF EveryoneOnTheWay
<1>3. NoticesCounted
  BY DEF NoticesCounted
<1>4. RecordedHeard /\ NoticeCurrent
  BY DEF RecordedHeard, NoticeCurrent, NotifiedStands
<1> QED BY <1>1, <1>2, <1>3, <1>4 DEF Inv

\* The types are kept by every step.
LEMMA TypeStep == TypeOK /\ [Next]_vars => TypeOK'
<1> SUFFICES ASSUME TypeOK, [Next]_vars PROVE TypeOK'
  OBVIOUS
<1> USE CheckerAssumption DEF TypeOK, Idle, Rest, checkerVars, mainVars
<1>1. CASE FetchFailed
  BY <1>1 DEF FetchFailed
<1>2. ASSUME NEW r \in Releases \cup {None}, Fetched(r) PROVE TypeOK'
  BY <1>2 DEF Fetched
<1>3. CASE Store
  BY <1>3 DEF Store
<1>4. CASE Clear
  BY <1>4 DEF Clear
<1>5. CASE Schedule
  BY <1>5 DEF Schedule
<1>6. ASSUME NEW p \in Players, Join(p) PROVE TypeOK'
  BY <1>6 DEF Join
<1>7. ASSUME NEW p \in Players, Leave(p) PROVE TypeOK'
  BY <1>7 DEF Leave
<1>8. ASSUME NEW p \in Players, NotifyRead(p) PROVE TypeOK'
  BY <1>8 DEF NotifyRead
<1>9. CASE NotifyTell
  <2>1. told' \in [Players -> Seq(Releases)]
    <3>1. CASE IsDue(main.player)
      <4>1. main.release \in Releases /\ told[main.player] \in Seq(Releases)
        BY <1>9 DEF NotifyTell
      <4>2. Append(told[main.player], main.release) \in Seq(Releases)
        BY <4>1, AppendProperties
      <4> QED BY <1>9, <3>1, <4>2 DEF NotifyTell
    <3>2. CASE ~IsDue(main.player)
      BY <1>9, <3>2 DEF NotifyTell
    <3> QED BY <3>1, <3>2
  <2> QED BY <1>9, <2>1 DEF NotifyTell
<1>10. CASE NotifyAdd
  BY <1>10 DEF NotifyAdd
<1>11. CASE RunAnnouncement
  BY <1>11 DEF RunAnnouncement
<1>12. CASE Close
  BY <1>12 DEF Close
<1>13. CASE UNCHANGED vars
  BY <1>13 DEF vars
<1> QED
  BY <1>1, <1>2, <1>3, <1>4, <1>5, <1>6, <1>7, <1>8, <1>9, <1>10, <1>11, <1>12, <1>13
  DEF Next, CheckerStep, NotifyStep

\* A step of either thread leaves nobody behind.
LEMMA OnTheWayStep == TypeOK /\ EveryoneOnTheWay /\ [Next]_vars => EveryoneOnTheWay'
<1> SUFFICES ASSUME TypeOK, EveryoneOnTheWay, [Next]_vars PROVE EveryoneOnTheWay'
  OBVIOUS
<1> USE CheckerAssumption DEF TypeOK, EveryoneOnTheWay, OnTheWay, Idle, Rest, checkerVars, mainVars
<1>1. CASE FetchFailed
  BY <1>1 DEF FetchFailed
<1>2. ASSUME NEW r \in Releases \cup {None}, Fetched(r) PROVE EveryoneOnTheWay'
  BY <1>2 DEF Fetched
<1>3. CASE Store
  BY <1>3 DEF Store
<1>4. CASE Clear
  BY <1>4 DEF Clear
<1>5. CASE Schedule
  BY <1>5 DEF Schedule
<1>6. ASSUME NEW p \in Players, Join(p) PROVE EveryoneOnTheWay'
  BY <1>6 DEF Join
<1>7. ASSUME NEW p \in Players, Leave(p) PROVE EveryoneOnTheWay'
  BY <1>7 DEF Leave
<1>8. ASSUME NEW p \in Players, NotifyRead(p) PROVE EveryoneOnTheWay'
  BY <1>8 DEF NotifyRead
<1>9. CASE NotifyTell
  BY <1>9 DEF NotifyTell, IsDue
<1>10. CASE NotifyAdd
  BY <1>10 DEF NotifyAdd
<1>11. CASE RunAnnouncement
  BY <1>11 DEF RunAnnouncement
<1>12. CASE Close
  BY <1>12 DEF Close
<1>13. CASE UNCHANGED vars
  BY <1>13 DEF vars
<1> QED
  BY <1>1, <1>2, <1>3, <1>4, <1>5, <1>6, <1>7, <1>8, <1>9, <1>10, <1>11, <1>12, <1>13
  DEF Next, CheckerStep, NotifyStep

\* Only NotifyTell lengthens what a player was told, by one, and then the player
\* is in line to be recorded; what empties notified counts as a clear.
LEMMA CountedStep == TypeOK /\ NoticesCounted /\ [Next]_vars => NoticesCounted'
<1> SUFFICES ASSUME TypeOK, NoticesCounted, [Next]_vars, NEW q \in Players
    PROVE Len(told'[q]) <= clears'
            + (IF q \in notified' \/ (main'.player = q /\ main'.release = None) THEN 1 ELSE 0)
  BY DEF NoticesCounted
<1>0. /\ Len(told[q]) \in Nat /\ clears \in Nat
      /\ Len(told[q]) <= clears
            + (IF q \in notified \/ (main.player = q /\ main.release = None) THEN 1 ELSE 0)
  BY LenProperties DEF TypeOK, NoticesCounted
<1> USE CheckerAssumption DEF Idle, Rest, checkerVars, mainVars
<1>1. CASE FetchFailed
  BY <1>0, <1>1 DEF FetchFailed
<1>2. ASSUME NEW r \in Releases \cup {None}, Fetched(r) PROVE told' = told /\ clears' = clears /\ notified' = notified /\ main' = main
  BY <1>2 DEF Fetched
<1>3. CASE Store
  BY <1>0, <1>3 DEF Store
<1>4. CASE Clear
  BY <1>0, <1>4 DEF Clear
<1>5. CASE Schedule
  BY <1>0, <1>5 DEF Schedule
<1>6. ASSUME NEW p \in Players, Join(p)
      PROVE told' = told /\ clears' = clears /\ notified' = notified /\ main = Rest /\ main'.player = NoPlayer
  BY <1>6 DEF Join
<1>7. ASSUME NEW p \in Players, Leave(p) PROVE told' = told /\ clears' = clears /\ notified' = notified /\ main' = main
  BY <1>7 DEF Leave
<1>8. ASSUME NEW p \in Players, NotifyRead(p)
      PROVE /\ told' = told /\ clears' = clears /\ notified' = notified /\ main.player = NoPlayer
  BY <1>8 DEF NotifyRead
<1>9. CASE NotifyTell
  <2>1. CASE IsDue(main.player) /\ q = main.player
    <3>1. Len(told'[q]) = Len(told[q]) + 1
      BY <1>9, <2>1, AppendProperties DEF NotifyTell, TypeOK
    <3>2. q \notin notified /\ main.release # None /\ clears' = clears
      BY <1>9, <2>1 DEF NotifyTell, IsDue
    <3>3. main'.player = q /\ main'.release = None
      BY <1>9, <2>1 DEF NotifyTell
    <3> QED BY <1>0, <3>1, <3>2, <3>3
  <2>2. CASE ~(IsDue(main.player) /\ q = main.player)
    <3>1. told'[q] = told[q] /\ clears' = clears /\ notified' = notified /\ main.release # None
      BY <1>9, <2>2 DEF NotifyTell, TypeOK
    <3> QED BY <1>0, <3>1
  <2> QED BY <2>1, <2>2
<1>10. CASE NotifyAdd
  BY <1>0, <1>10 DEF NotifyAdd
<1>11. CASE RunAnnouncement
  BY <1>0, <1>11 DEF RunAnnouncement
<1>12. CASE Close
  BY <1>0, <1>12 DEF Close
<1>13. CASE UNCHANGED vars
  BY <1>0, <1>13 DEF vars
<1> QED
  BY <1>0, <1>1, <1>2, <1>3, <1>4, <1>5, <1>6, <1>7, <1>8, <1>9, <1>10, <1>11, <1>12, <1>13
  DEF Next, CheckerStep, NotifyStep

\* A step of either thread leaves recorded only those who heard of the release
\* available, or were overtaken: a store of another one is followed by a clear, and a
\* notice under way at the clear is one of an earlier window.
LEMMA HeardStep == TypeOK /\ RecordedHeard /\ NoticeCurrent /\ [Next]_vars => RecordedHeard' /\ NoticeCurrent'
<1> SUFFICES ASSUME TypeOK, RecordedHeard, NoticeCurrent, [Next]_vars, NotifiedStands'
    PROVE  RecordedHeard' /\ NoticeCurrent'
  BY DEF RecordedHeard, NoticeCurrent
<1>0. ASSUME UNCHANGED <<available, closed, clears, notified, told, overtaken, main>>,
             checker.step # "clear" \/ checker' = checker
      PROVE  RecordedHeard' /\ NoticeCurrent'
  <2>1. NotifiedStands
    BY <1>0 DEF NotifiedStands
  <2> QED BY <1>0, <2>1 DEF RecordedHeard, NoticeCurrent, ToldLast
<1>00. ASSUME UNCHANGED <<available, closed, clears, notified, told, overtaken, checker>>,
             main'.player = NoPlayer
       PROVE  RecordedHeard' /\ NoticeCurrent'
  <2>1. NotifiedStands
    BY <1>00 DEF NotifiedStands
  <2> QED BY <1>00, <2>1 DEF RecordedHeard, NoticeCurrent, ToldLast
<1> USE CheckerAssumption DEF Idle, Rest, checkerVars, mainVars
<1>1. CASE FetchFailed
  BY <1>0, <1>1 DEF FetchFailed
<1>2. ASSUME NEW r \in Releases \cup {None}, Fetched(r) PROVE RecordedHeard' /\ NoticeCurrent'
  BY <1>0, <1>2 DEF Fetched
<1>3. CASE Store
  <2>1. available' = available
    BY <1>3 DEF Store, NotifiedStands, TypeOK
  <2> QED BY <1>0, <1>3, <2>1 DEF Store
<1>4. CASE Clear
  <2>1. notified' = {} /\ main'.since # clears'
    BY <1>4 DEF Clear, TypeOK
  <2> QED BY <2>1 DEF RecordedHeard, NoticeCurrent
<1>5. CASE Schedule
  BY <1>0, <1>5 DEF Schedule
<1>6. ASSUME NEW p \in Players, Join(p) PROVE RecordedHeard' /\ NoticeCurrent'
  BY <1>00, <1>6 DEF Join
<1>7. ASSUME NEW p \in Players, Leave(p) PROVE RecordedHeard' /\ NoticeCurrent'
  BY <1>0, <1>7 DEF Leave
<1>8. ASSUME NEW p \in Players, NotifyRead(p) PROVE RecordedHeard' /\ NoticeCurrent'
  <2>1. NotifiedStands /\ available # None
    BY <1>8 DEF NotifyRead, NotifiedStands
  <2>2. main'.release = available
    BY <1>8 DEF NotifyRead
  <2> QED BY <1>8, <2>1, <2>2 DEF NotifyRead, RecordedHeard, NoticeCurrent, ToldLast
<1>9. CASE NotifyTell
  <2>1. NotifiedStands /\ UNCHANGED <<available, closed, clears, notified, overtaken, checker>>
    BY <1>9 DEF NotifyTell, NotifiedStands
  <2>2. CASE IsDue(main.player)
    <3> DEFINE p == main.player
    <3>1. /\ p \in Players /\ p \notin notified /\ main.release \in Releases
          /\ told[p] \in Seq(Releases)
          /\ told'[p] = Append(told[p], main.release)
          /\ \A q \in Players : q # p => told'[q] = told[q]
          /\ main'.player = p /\ main'.since = main.since /\ main'.release = None
      BY <1>9, <2>2 DEF NotifyTell, IsDue, TypeOK
    <3>2. told'[p] # <<>> /\ told'[p][Len(told'[p])] = main.release
      BY <3>1, AppendProperties
    <3>3. RecordedHeard'
      BY <2>1, <3>1 DEF RecordedHeard, ToldLast, TypeOK
    <3>4. NoticeCurrent'
      BY <1>9, <2>1, <3>1, <3>2 DEF NoticeCurrent, ToldLast, NotifyTell
    <3> QED BY <3>3, <3>4
  <2>3. CASE ~IsDue(main.player)
    BY <1>00, <1>9, <2>1, <2>3 DEF NotifyTell
  <2> QED BY <2>2, <2>3
<1>10. CASE NotifyAdd
  <2>1. NotifiedStands /\ UNCHANGED <<available, told>> /\ overtaken \subseteq overtaken'
    BY <1>10 DEF NotifyAdd, NotifiedStands
  <2>2. ToldLast(main.player, available) \/ main.player \in overtaken'
    BY <1>10, <2>1 DEF NotifyAdd, NoticeCurrent
  <2>3. notified' = notified \cup {main.player} /\ main'.player = NoPlayer
    BY <1>10 DEF NotifyAdd
  <2>4. RecordedHeard'
    BY <2>1, <2>2, <2>3 DEF RecordedHeard, ToldLast
  <2> QED BY <2>3, <2>4 DEF NoticeCurrent
<1>11. CASE RunAnnouncement
  BY <1>00, <1>11 DEF RunAnnouncement
<1>12. CASE Close
  BY <1>12 DEF Close, NotifiedStands
<1>13. CASE UNCHANGED vars
  BY <1>0, <1>13 DEF vars
<1> QED
  BY <1>1, <1>2, <1>3, <1>4, <1>5, <1>6, <1>7, <1>8, <1>9, <1>10, <1>11, <1>12, <1>13
  DEF Next, CheckerStep, NotifyStep

\* Every step preserves the inductive invariant.
LEMMA InvStep == Inv /\ [Next]_vars => Inv'
  BY TypeStep, OnTheWayStep, HeardStep, CountedStep DEF Inv

\* The inductive invariant always holds.
LEMMA InvAlways == Spec => []Inv
  BY InvInit, InvStep, PTL DEF Spec

\* Once both threads have settled, every administrator online has been told of the
\* release available, and last of it, but for the player being notified while the set
\* of the notified is emptied (UpdateChecker.java:79-89, 119).
THEOREM NobodyIsMissed == Spec => []NobodyMissed
<1>1. Inv => NobodyMissed
  <2> SUFFICES ASSUME Inv, Settled, ~closed, available # None, NEW p \in online \cap Admins
      PROVE ToldLast(p, available) \/ p \in overtaken
    BY DEF NobodyMissed
  <2>1. OnTheWay(p)
    BY DEF Inv, EveryoneOnTheWay
  <2>2. p \in notified
    BY <2>1, CheckerAssumption DEF OnTheWay, Settled, Idle, Rest
  <2>3. NotifiedStands
    BY DEF NotifiedStands, Settled, Idle
  <2> QED BY <2>2, <2>3 DEF Inv, RecordedHeard
<1> QED BY <1>1, InvAlways, PTL

\* Nobody is told more often than notified was emptied, and once.
THEOREM NoticesAreBounded == Spec => []NoticesBounded
<1>1. Inv => NoticesBounded
  <2> SUFFICES ASSUME Inv, NEW p \in Players PROVE Len(told[p]) <= clears + 1
    BY DEF NoticesBounded
  <2>1. Len(told[p]) \in Nat /\ clears \in Nat
    BY LenProperties DEF Inv, TypeOK
  <2> QED BY <2>1 DEF Inv, NoticesCounted
<1> QED BY <1>1, InvAlways, PTL

\* The variables of both threads keep their types.
THEOREM TypeCorrect == Spec => []TypeOK
<1>1. Inv => TypeOK
  BY DEF Inv
<1> QED BY <1>1, InvAlways, PTL

\* In every state, half-done steps included, whoever is not notified is still on the way.
THEOREM EveryoneIsOnTheWay == Spec => []EveryoneOnTheWay
<1>1. Inv => EveryoneOnTheWay
  BY DEF Inv
<1> QED BY <1>1, InvAlways, PTL

\* The one notice beyond the clears belongs to a player in notified, or about to be.
THEOREM NoticesAreCounted == Spec => []NoticesCounted
<1>1. Inv => NoticesCounted
  BY DEF Inv
<1> QED BY <1>1, InvAlways, PTL

-----------------------------------------------------------------------------
(* RedisBridge: what reaches the server over any reconnections              *)

\* The values each variable takes.
Places == {"connect", "assign", "subscribe", "acknowledge", "loop", "read", "receive",
           "finally", "forget", "ended"}
SocketRecord   == [of : Nat, open : BOOLEAN, live : BOOLEAN, listening : BOOLEAN,
                   inbox : Seq(Nat), refused : BOOLEAN]
BridgeRecord   == [running : BOOLEAN, subscribed : BOOLEAN, subscriber : Nat, publisher : Nat]
ListenerRecord == [at : Places, on : Nat, got : Nat]
Delivery       == [number : Nat, by : Nat, late : BOOLEAN]

Increasing(q) == \A i, j \in DOMAIN q : i < j => q[i] < q[j]
Values(q)     == {q[k] : k \in DOMAIN q}
In(socket)    == Values(socket.inbox)
LineOf(b)     == {bridges[b].subscriber, listener[b].on} \ {NoSocket}
At(b)         == listener[b].at

\* What bridge b may still hand over, and what it will even after it was closed.
Pending(b) ==
  {n \in Nat \ {0} : \/ \E s \in LineOf(b) : n \in In(sockets[s])
                     \/ At(b) = "receive" /\ n = listener[b].got}
Final(b) ==
  {n \in Nat \ {0} : \/ At(b) = "read" /\ n \in In(sockets[listener[b].on])
                     \/ At(b) = "receive" /\ n = listener[b].got}

Typed ==
  /\ sockets \in Seq(SocketRecord) /\ bridges \in Seq(BridgeRecord)
  /\ listener \in Seq(ListenerRecord) /\ Len(listener) = Len(bridges)
  /\ delivered \in Seq(Delivery) /\ traffic \in Nat /\ mishaps \in 0..MaxMishaps
  /\ \A b \in DOMAIN bridges :
       {bridges[b].subscriber, bridges[b].publisher, listener[b].on} \subseteq {NoSocket} \cup DOMAIN sockets
  /\ \A s \in DOMAIN sockets : sockets[s].of \in DOMAIN bridges

Numbered ==
  \A s \in DOMAIN sockets : Increasing(sockets[s].inbox) /\ In(sockets[s]) \subseteq 0..traffic

Server ==
  /\ current \in {NoBridge, Len(bridges)}
  /\ serverThread \in {"free", "close", "forget", "closed"}
  /\ serverThread = "free" => current # NoBridge /\ bridges[current].running
  /\ serverThread \in {"close", "forget"} => current # NoBridge /\ ~bridges[current].running
  /\ serverThread = "closed" => current = NoBridge
  /\ \A b \in DOMAIN bridges : bridges[b].running => b = current

\* Until the server thread has closed the socket of bridge b.
Unclosed(b) == bridges[b].running \/ (b = current /\ serverThread = "close")

Wired(b) ==
  /\ At(b) \in {"connect", "assign", "ended"} => bridges[b].subscriber = NoSocket
  /\ listener[b].on # NoSocket <=> At(b) \in {"assign", "acknowledge", "read", "receive"}
  /\ At(b) \in {"acknowledge", "read"} => bridges[b].subscriber \in {NoSocket, listener[b].on}
  /\ At(b) = "read" /\ Unclosed(b) => bridges[b].subscriber = listener[b].on
  /\ At(b) = "read" /\ ~Unclosed(b) => ~sockets[listener[b].on].listening
  /\ At(b) = "forget" /\ bridges[b].subscriber # NoSocket => ~sockets[bridges[b].subscriber].open
  /\ \A s \in {bridges[b].subscriber, bridges[b].publisher, listener[b].on} \ {NoSocket} : sockets[s].of = b
  /\ At(b) \in {"loop", "read", "receive"} => \A s \in LineOf(b) : 0 \notin In(sockets[s])
  /\ At(b) = "receive" =>
       /\ listener[b].got \in 1..traffic
       /\ \A s \in LineOf(b) : \A n \in In(sockets[s]) : listener[b].got < n

\* Open, and neither bridge nor listener knows of it.
Astray(s) == sockets[s].open /\ ~sockets[s].refused /\ ~Held(s)
Leaks ==
  /\ \A s \in DOMAIN sockets : Astray(s) => sockets[s].of # current /\ ~bridges[sockets[s].of].running
  /\ \A s, t \in DOMAIN sockets : Astray(s) /\ Astray(t) /\ sockets[s].of = sockets[t].of => s = t

After == {"loop", "finally", "forget", "connect", "ended"}
Turns(d, last, final, pending, top) ==
  /\ \A i \in DOMAIN d : d[i].by \in 1..last /\ d[i].number \in 1..top
  /\ \A i \in DOMAIN d : \A n \in pending[d[i].by] : d[i].number < n
  /\ \A b, c \in 1..last : b < c => \A m \in final[b], n \in pending[c] : m < n
  /\ \A i \in DOMAIN d : \A b \in 1..last :
       /\ b > d[i].by => \A n \in pending[b] : d[i].number < n
       /\ b < d[i].by => \A m \in final[b] : m < d[i].number
  /\ \A i, j \in DOMAIN d : i < j =>
       /\ d[i].by <= d[j].by => d[i].number < d[j].number
       /\ d[i].by > d[j].by => d[i].number > d[j].number /\ d[j].late
InTurn ==
  Turns(delivered, Len(bridges), [b \in 1..Len(bridges) |-> Final(b)],
        [b \in 1..Len(bridges) |-> Pending(b)], traffic)
Lateness ==
  /\ \A i \in DOMAIN delivered : delivered[i].late =>
       ~bridges[delivered[i].by].running /\ At(delivered[i].by) \in After
  /\ \A i, j \in DOMAIN delivered :
       delivered[i].late /\ delivered[j].late /\ delivered[i].by = delivered[j].by => i = j

BridgeInv ==
  /\ Typed /\ Numbered /\ Server /\ (\A b \in DOMAIN bridges : Wired(b)) /\ Leaks /\ InTurn /\ Lateness

\* An inbox after a publication, after a break, and after a read.
LEMMA InboxPushed ==
    ASSUME NEW t \in Nat, NEW q \in Seq(Nat), Increasing(q), Values(q) \subseteq 0..t
    PROVE  /\ Append(q, t + 1) \in Seq(Nat) /\ Increasing(Append(q, t + 1))
           /\ Values(Append(q, t + 1)) = Values(q) \cup {t + 1}
<1> DEFINE r == Append(q, t + 1)
<1>1. /\ r \in Seq(Nat) /\ Len(r) = Len(q) + 1 /\ Len(q) \in Nat /\ r[Len(q) + 1] = t + 1
      /\ \A k \in 1..Len(q) : r[k] = q[k]
  BY AppendProperties
<1>2. DOMAIN r = 1..(Len(q) + 1) /\ DOMAIN q = 1..Len(q)
  BY <1>1, LenProperties
<1> HIDE DEF r
<1>3. \A k \in 1..Len(q) : q[k] \in Nat /\ q[k] < t + 1
  <2>1. \A k \in 1..Len(q) : q[k] \in Values(q)
    BY <1>2 DEF Values
  <2> QED BY <2>1
<1>4. Increasing(r)
  BY <1>1, <1>2, <1>3 DEF Increasing
<1>5. Values(r) = Values(q) \cup {t + 1}
  BY <1>1, <1>2 DEF Values
<1> QED BY <1>1, <1>4, <1>5 DEF r

\* An inbox cut to its first k numbers.
LEMMA InboxCut ==
    ASSUME NEW q \in Seq(Nat), Increasing(q), NEW k \in 0..Len(q)
    PROVE  /\ SubSeq(q, 1, k) \in Seq(Nat) /\ Increasing(SubSeq(q, 1, k)) /\ Values(SubSeq(q, 1, k)) \subseteq Values(q)
           /\ k = 0 => Values(SubSeq(q, 1, k)) = {}
<1> DEFINE r == SubSeq(q, 1, k)
<1>0. Len(q) \in Nat /\ k \in Nat /\ DOMAIN q = 1..Len(q)
  BY LenProperties
<1>1. r \in Seq(Nat) /\ Len(r) = k /\ \A i \in 1..k : r[i] = q[i]
  BY <1>0, SubSeqProperties
<1>2. DOMAIN r = 1..k
  BY <1>1, LenProperties
<1> HIDE DEF r
<1>3. Increasing(r) /\ Values(r) \subseteq Values(q)
  BY <1>0, <1>1, <1>2 DEF Increasing, Values
<1>4. k = 0 => Values(r) = {}
  BY <1>2 DEF Values
<1> QED BY <1>1, <1>3, <1>4 DEF r

\* An inbox after its head was read.
LEMMA InboxRead ==
    ASSUME NEW q \in Seq(Nat), Increasing(q), q # <<>>
    PROVE  /\ Head(q) \in Values(q) /\ Tail(q) \in Seq(Nat) /\ Increasing(Tail(q)) /\ Values(Tail(q)) \subseteq Values(q)
           /\ \A n \in Values(Tail(q)) : Head(q) < n
<1> DEFINE r == Tail(q)
<1>0. Len(q) \in Nat /\ DOMAIN q = 1..Len(q) /\ Len(q) # 0
  BY LenProperties, EmptySeq
<1>1. r \in Seq(Nat) /\ Len(r) = Len(q) - 1 /\ \A i \in 1..Len(r) : r[i] = q[i + 1]
  BY HeadTailProperties
<1>2. DOMAIN r = 1..(Len(q) - 1) /\ Head(q) = q[1]
  BY <1>1, LenProperties, HeadTailProperties
<1> HIDE DEF r
<1>3. \A i \in 1..(Len(q) - 1) : r[i] = q[i + 1] /\ i + 1 \in DOMAIN q
  BY <1>0, <1>1
<1>7. 1 \in DOMAIN q
  BY <1>0
<1>8. \A i, j \in DOMAIN q : i < j => q[i] < q[j]
  BY DEF Increasing
<1>4. Increasing(r)
  <2> SUFFICES ASSUME NEW i \in DOMAIN r, NEW j \in DOMAIN r, i < j PROVE r[i] < r[j]
    BY DEF Increasing
  <2>1. i \in 1..(Len(q) - 1) /\ j \in 1..(Len(q) - 1) /\ i + 1 < j + 1
    BY <1>0, <1>2
  <2>2. q[i + 1] < q[j + 1]
    BY <1>3, <1>8, <2>1
  <2> QED BY <1>3, <2>1, <2>2
<1>5. Values(r) \subseteq Values(q) /\ Head(q) \in Values(q)
  BY <1>2, <1>3, <1>7 DEF Values
<1>6. \A n \in Values(r) : Head(q) < n
  <2> SUFFICES ASSUME NEW i \in DOMAIN r PROVE q[1] < r[i]
    BY <1>2 DEF Values
  <2>1. i \in 1..(Len(q) - 1) /\ 1 < i + 1
    BY <1>0, <1>2
  <2>2. q[1] < q[i + 1]
    BY <1>3, <1>7, <1>8, <2>1
  <2> QED BY <1>3, <2>1, <2>2
<1> QED BY <1>1, <1>4, <1>5, <1>6 DEF r

\* What a step may do to a connection, where the numbers in t are published.
Onward(new, old, t) ==
  /\ new \in SocketRecord /\ new.of = old.of /\ new.refused = old.refused
  /\ (new.open => old.open) /\ (new.listening => old.listening)
  /\ Increasing(new.inbox) /\ In(new) \subseteq In(old) \cup (IF old.listening THEN t ELSE {})

\* A connection after a publication, or after nothing.
LEMMA SocketPushed ==
    ASSUME NEW t \in Nat, NEW old \in SocketRecord, Increasing(old.inbox), In(old) \subseteq 0..t
    PROVE  /\ Onward([old EXCEPT !.inbox = Append(@, t + 1)], old, {t + 1}) \/ ~old.listening
           /\ Onward(old, old, {t + 1}) /\ Onward(old, old, {})
<1> DEFINE q == old.inbox
<1>1. q \in Seq(Nat)
  BY DEF SocketRecord
<1>2. /\ Append(q, t + 1) \in Seq(Nat) /\ Increasing(Append(q, t + 1))
      /\ Values(Append(q, t + 1)) = Values(q) \cup {t + 1}
  BY <1>1, InboxPushed DEF In
<1> DEFINE r == Append(q, t + 1)
<1> HIDE DEF q, r
<1>3. ASSUME old.listening PROVE Onward([old EXCEPT !.inbox = r], old, {t + 1})
  <2>1. [old EXCEPT !.inbox = r] \in SocketRecord /\ [old EXCEPT !.inbox = r].inbox = r
    BY <1>2 DEF SocketRecord, r
  <2> QED BY <1>2, <1>3, <2>1 DEF Onward, SocketRecord, In, r, q
<1> QED BY <1>3 DEF r, q, Onward

\* A connection that broke, or was closed: nothing more is pushed to it.
LEMMA SocketCut ==
    ASSUME NEW old \in SocketRecord, Increasing(old.inbox), NEW k \in 0..Len(old.inbox)
    PROVE  /\ Onward(Cut(old, k), old, {}) /\ ~Cut(old, k).listening
           /\ Onward([Cut(old, k) EXCEPT !.open = FALSE], old, {})
           /\ ~[Cut(old, k) EXCEPT !.open = FALSE].open /\ ~[Cut(old, k) EXCEPT !.open = FALSE].listening
           /\ k = 0 => In([Cut(old, k) EXCEPT !.open = FALSE]) = {}
<1> DEFINE q == old.inbox
           r == SubSeq(q, 1, k)
           cut == [old EXCEPT !.live = FALSE, !.listening = FALSE, !.inbox = r]
           off == [cut EXCEPT !.open = FALSE]
<1>1. q \in Seq(Nat)
  BY DEF SocketRecord
<1>2. r \in Seq(Nat) /\ Increasing(r) /\ Values(r) \subseteq Values(q) /\ (k = 0 => Values(r) = {})
  BY <1>1, InboxCut
<1>3. Cut(old, k) = cut
  BY Zenon DEF Cut
<1> HIDE DEF r
<1>4. /\ cut \in SocketRecord /\ cut.of = old.of /\ cut.open = old.open /\ cut.refused = old.refused
      /\ cut.listening = FALSE /\ cut.inbox = r
  BY <1>2 DEF SocketRecord
<1> HIDE DEF cut
<1>5. /\ off \in SocketRecord /\ off.of = old.of /\ off.open = FALSE /\ off.refused = old.refused
      /\ off.listening = FALSE /\ off.inbox = r
  BY <1>4 DEF SocketRecord
<1> HIDE DEF off
<1>6. Onward(cut, old, {}) /\ Onward(off, old, {})
  BY <1>2, <1>4, <1>5, Zenon DEF Onward, In, q
<1>7. k = 0 => In(off) = {}
  BY <1>2, <1>5 DEF In
<1> QED BY <1>3, <1>4, <1>5, <1>6, <1>7 DEF off

\* A connection after a read.
LEMMA SocketRead ==
    ASSUME NEW old \in SocketRecord, Increasing(old.inbox), old.inbox # <<>>
    PROVE  /\ Onward([old EXCEPT !.inbox = Tail(@)], old, {}) /\ Head(old.inbox) \in In(old)
           /\ \A n \in In([old EXCEPT !.inbox = Tail(@)]) : Head(old.inbox) < n
<1> DEFINE q == old.inbox
           r == Tail(q)
<1>1. q \in Seq(Nat) /\ q # <<>>
  BY DEF SocketRecord
<1>2. r \in Seq(Nat) /\ Increasing(r) /\ Values(r) \subseteq Values(q) /\ Head(q) \in Values(q) /\ \A n \in Values(r) : Head(q) < n
  BY <1>1, InboxRead
<1> HIDE DEF r
<1>3. [old EXCEPT !.inbox = r] \in SocketRecord /\ [old EXCEPT !.inbox = r].inbox = r
  BY <1>2 DEF SocketRecord
<1>4. Onward([old EXCEPT !.inbox = r], old, {})
  BY <1>2, <1>3 DEF Onward, SocketRecord, In
<1> QED BY <1>2, <1>3, <1>4 DEF r, In

\* The connections of bridge c go on, and its listener stays where it is.
Advances(c, t) == \A s \in DOMAIN sockets : sockets[s].of = c => Onward(sockets'[s], sockets[s], t)
Aside(c) ==
  /\ listener'[c] = listener[c]
  /\ bridges'[c].running => bridges[c].running
  /\ \/ bridges'[c].subscriber = bridges[c].subscriber
     \/ bridges'[c].subscriber = NoSocket /\ ~Unclosed(c)
  /\ bridges'[c].publisher # NoSocket => sockets'[bridges'[c].publisher].of = c
  /\ At(c) = "read" => /\ Unclosed(c)' => Unclosed(c)
                       /\ Unclosed(c) /\ ~Unclosed(c)' => ~sockets'[listener[c].on].listening

\* What may still come has been published, and is not an acknowledgement.
LEMMA PendingIs ==
    ASSUME Typed, Numbered, NEW b \in DOMAIN bridges, Wired(b)
    PROVE  Final(b) \subseteq Pending(b) /\ Pending(b) \subseteq 1..traffic
<1>1. \A s \in LineOf(b) : s \in DOMAIN sockets
  BY DEF Typed, LineOf
<1>2. \A s \in LineOf(b) : In(sockets[s]) \subseteq 0..traffic
  BY <1>1 DEF Numbered
<1>3. At(b) = "read" => listener[b].on \in LineOf(b)
  BY DEF Wired, LineOf
<1>4. At(b) = "receive" => listener[b].got \in 1..traffic
  BY DEF Wired
<1>5. Pending(b) \subseteq 1..traffic
  <2> SUFFICES ASSUME NEW n \in Pending(b) PROVE n \in 1..traffic
    OBVIOUS
  <2>0. traffic \in Nat
    BY DEF Typed
  <2>1. n \in Nat \ {0} /\ (n \in 0..traffic \/ n \in 1..traffic)
    BY <1>2, <1>4 DEF Pending
  <2> QED BY <2>0, <2>1
<1>6. Final(b) \subseteq Pending(b)
  BY <1>3 DEF Final, Pending
<1> QED BY <1>5, <1>6

\* A listener that stays where it is still hands over only what it could, or what is now published.
LEMMA AsideKeeps ==
    ASSUME Typed, NEW c \in DOMAIN bridges, Wired(c), traffic' \in Nat, traffic' >= traffic,
           NEW t \in SUBSET Nat, \A n \in t : n > traffic, Advances(c, t), Aside(c)
    PROVE  /\ Wired(c)' /\ Pending(c)' \subseteq Pending(c) \cup t
           /\ ~Unclosed(c) => Final(c)' \subseteq Final(c)
<1> DEFINE on == listener[c].on
           sub == bridges[c].subscriber
           new == bridges'[c].subscriber
<1>1. /\ listener'[c] = listener[c] /\ new \in {sub, NoSocket} /\ (Unclosed(c) => new = sub)
  BY DEF Aside
<1>2. At(c)' = At(c) /\ LineOf(c)' = {new, on} \ {NoSocket} /\ LineOf(c)' \subseteq LineOf(c)
  BY <1>1 DEF At, LineOf
<1>3. \A s \in {sub, bridges[c].publisher, on} \ {NoSocket} : s \in DOMAIN sockets /\ sockets[s].of = c
  BY DEF Typed, Wired
<1>4. \A s \in {sub, bridges[c].publisher, on} \ {NoSocket} : Onward(sockets'[s], sockets[s], t)
  BY <1>3 DEF Advances
<1>5. \A s \in LineOf(c) : /\ sockets'[s].of = c /\ (sockets'[s].open => sockets[s].open)
                           /\ (sockets'[s].listening => sockets[s].listening)
                           /\ In(sockets'[s]) \subseteq In(sockets[s]) \cup t
                           /\ (~sockets[s].listening => In(sockets'[s]) \subseteq In(sockets[s]))
  BY <1>3, <1>4 DEF LineOf, Onward
<1>6. traffic \in Nat /\ 0 \notin t
  BY DEF Typed
<1>7. Pending(c)' \subseteq Pending(c) \cup t
  <2> SUFFICES ASSUME NEW n \in Nat \ {0},
                      (\E s \in LineOf(c)' : n \in In(sockets'[s])) \/ (At(c)' = "receive" /\ n = listener'[c].got)
               PROVE  n \in Pending(c) \cup t
    BY DEF Pending
  <2>1. CASE \E s \in LineOf(c)' : n \in In(sockets'[s])
    BY <1>2, <1>5, <2>1 DEF Pending
  <2>2. CASE At(c)' = "receive" /\ n = listener'[c].got
    BY <1>1, <1>2, <2>2 DEF Pending
  <2> QED BY <2>1, <2>2
<1>8. ASSUME ~Unclosed(c) PROVE Final(c)' \subseteq Final(c)
  <2> SUFFICES ASSUME NEW n \in Nat \ {0},
                      (At(c)' = "read" /\ n \in In(sockets'[listener'[c].on])) \/ (At(c)' = "receive" /\ n = listener'[c].got)
               PROVE  n \in Final(c)
    BY DEF Final
  <2>1. CASE At(c)' = "read" /\ n \in In(sockets'[listener'[c].on])
    <3>1. on \in LineOf(c) /\ ~sockets[on].listening /\ At(c) = "read"
      BY <1>2, <1>8, <2>1 DEF Wired, LineOf
    <3>2. n \in In(sockets[on])
      BY <1>1, <1>5, <2>1, <3>1
    <3> QED BY <3>1, <3>2 DEF Final
  <2>2. CASE At(c)' = "receive" /\ n = listener'[c].got
    BY <1>1, <1>2, <2>2 DEF Final
  <2> QED BY <2>1, <2>2
<1>9. Wired(c)'
  <2>1. At(c) \in {"connect", "assign", "ended"} => new = NoSocket
    BY <1>1 DEF Wired
  <2>2. on # NoSocket <=> At(c) \in {"assign", "acknowledge", "read", "receive"}
    BY DEF Wired
  <2>3. At(c) \in {"acknowledge", "read"} => new \in {NoSocket, on}
    BY <1>1 DEF Wired
  <2>4. At(c) = "read" /\ Unclosed(c)' => new = on
    BY <1>1 DEF Wired, Aside
  <2>5. At(c) = "read" /\ ~Unclosed(c)' => ~sockets'[on].listening
    <3> SUFFICES ASSUME At(c) = "read", ~Unclosed(c)', Unclosed(c) \/ ~sockets[on].listening PROVE ~sockets'[on].listening
      BY DEF Wired
    <3>1. CASE Unclosed(c)
      BY <3>1 DEF Aside
    <3>2. CASE ~sockets[on].listening
      BY <1>5, <2>2, <3>2 DEF LineOf
    <3> QED BY <3>1, <3>2
  <2>6. At(c) = "forget" /\ new # NoSocket => ~sockets'[new].open
    <3> SUFFICES ASSUME At(c) = "forget", new # NoSocket PROVE ~sockets'[new].open
      OBVIOUS
    <3>1. new = sub /\ ~sockets[sub].open /\ sub \in LineOf(c)
      BY <1>1 DEF Wired, LineOf
    <3> QED BY <1>5, <3>1
  <2>7. \A s \in {new, bridges'[c].publisher, on} \ {NoSocket} : sockets'[s].of = c
    <3>1. bridges'[c].publisher # NoSocket => sockets'[bridges'[c].publisher].of = c
      BY DEF Aside
    <3>2. \A s \in {new, on} \ {NoSocket} : s \in LineOf(c)
      BY <1>2
    <3> QED BY <1>5, <3>1, <3>2
  <2>8. At(c) \in {"loop", "read", "receive"} => \A s \in LineOf(c)' : 0 \notin In(sockets'[s])
    BY <1>2, <1>5, <1>6 DEF Wired
  <2>9. At(c) = "receive" => /\ listener[c].got \in 1..traffic'
                             /\ \A s \in LineOf(c)' : \A n \in In(sockets'[s]) : listener[c].got < n
    <3> SUFFICES ASSUME At(c) = "receive"
                 PROVE  /\ listener[c].got \in 1..traffic'
                        /\ \A s \in LineOf(c)' : \A n \in In(sockets'[s]) : listener[c].got < n
      OBVIOUS
    <3>1. listener[c].got \in 1..traffic /\ \A s \in LineOf(c) : \A n \in In(sockets[s]) : listener[c].got < n
      BY DEF Wired
    <3>2. \A n \in t : listener[c].got < n
      BY <1>6, <3>1
    <3>3. listener[c].got \in 1..traffic'
      BY <1>6, <3>1
    <3> QED BY <1>2, <1>5, <3>1, <3>2, <3>3
  <2> QED BY <1>1, <1>2, <2>1, <2>2, <2>3, <2>4, <2>5, <2>6, <2>7, <2>8, <2>9 DEF Wired
<1> QED BY <1>7, <1>8, <1>9

\* What may still come, from step to step, while the numbers in t are published.
Carried(last, next, final, pending, final2, pending2, top, upto, t) ==
  /\ last \in Nat /\ next \in {last, last + 1} /\ top \in Nat /\ upto \in Nat /\ upto >= top
  /\ t \in SUBSET Nat /\ \A n \in t : n > top
  /\ \A b \in 1..last : /\ final[b] \subseteq pending[b] /\ pending[b] \subseteq 1..top
                        /\ pending2[b] \subseteq pending[b] \cup t
                        /\ b # last => final2[b] \subseteq final[b]
  /\ \A b \in 1..next : b > last => pending2[b] = {}

\* Steps that deliver nothing keep the order of what is delivered.
LEMMA TurnsKept ==
    ASSUME NEW d, NEW last, NEW next, NEW top, NEW upto, NEW t, NEW final, NEW pending, NEW final2, NEW pending2,
           Carried(last, next, final, pending, final2, pending2, top, upto, t),
           Turns(d, last, final, pending, top)
    PROVE  Turns(d, next, final2, pending2, upto)
<1>0. /\ last \in Nat /\ next \in {last, last + 1} /\ top \in Nat /\ upto \in Nat /\ upto >= top
      /\ t \in SUBSET Nat /\ \A n \in t : n > top
      /\ \A b \in 1..last : /\ final[b] \subseteq pending[b] /\ pending[b] \subseteq 1..top
                            /\ pending2[b] \subseteq pending[b] \cup t
                            /\ b # last => final2[b] \subseteq final[b]
      /\ \A b \in 1..next : b > last => pending2[b] = {}
  BY DEF Carried
<1>1. /\ \A i \in DOMAIN d : d[i].by \in 1..last /\ d[i].number \in 1..top
      /\ \A i \in DOMAIN d : \A n \in pending[d[i].by] : d[i].number < n
      /\ \A b, c \in 1..last : b < c => \A m \in final[b], n \in pending[c] : m < n
      /\ \A i \in DOMAIN d : \A b \in 1..last :
           /\ b > d[i].by => \A n \in pending[b] : d[i].number < n
           /\ b < d[i].by => \A m \in final[b] : m < d[i].number
      /\ \A i, j \in DOMAIN d : i < j =>
           /\ d[i].by <= d[j].by => d[i].number < d[j].number
           /\ d[i].by > d[j].by => d[i].number > d[j].number /\ d[j].late
  BY DEF Turns
<1>2. \A i \in DOMAIN d : d[i].by \in 1..next /\ d[i].number \in 1..upto
  BY <1>0, <1>1
<1>a. \A x, n : x \in 1..top /\ n \in t => x < n
  <2> SUFFICES ASSUME NEW x \in 1..top, NEW n \in t PROVE x < n
    OBVIOUS
  <2>1. n \in Nat /\ n > top /\ x \in Nat /\ x <= top /\ top \in Nat
    BY <1>0
  <2> QED BY <2>1
<1>b. \A b, n : b \in 1..last /\ n \in pending2[b] => n \in pending[b] \/ n \in t
  BY <1>0
<1>3. \A i \in DOMAIN d : \A n \in pending2[d[i].by] : d[i].number < n
  <2> SUFFICES ASSUME NEW i \in DOMAIN d, NEW n \in pending2[d[i].by] PROVE d[i].number < n
    OBVIOUS
  <2>1. d[i].by \in 1..last /\ d[i].number \in 1..top
    BY <1>1
  <2>2. n \in pending[d[i].by] \/ n \in t
    BY <1>b, <2>1
  <2> QED BY <1>1, <1>a, <2>1, <2>2, Zenon
<1>4. ASSUME NEW b \in 1..next, NEW c \in 1..next, b < c, NEW m \in final2[b], NEW n \in pending2[c] PROVE m < n
  <2>1. c \in 1..last /\ b \in 1..last /\ b # last
    BY <1>0, <1>4
  <2>2. m \in final[b] /\ m \in 1..top
    BY <1>0, <1>4, <2>1
  <2>3. n \in pending[c] \/ n \in t
    BY <1>b, <1>4, <2>1
  <2> QED BY <1>1, <1>4, <1>a, <2>1, <2>2, <2>3, Zenon
<1>5. ASSUME NEW i \in DOMAIN d, NEW b \in 1..next
      PROVE  /\ b > d[i].by => \A n \in pending2[b] : d[i].number < n
             /\ b < d[i].by => \A m \in final2[b] : m < d[i].number
  <2>1. ASSUME b > d[i].by, NEW n \in pending2[b] PROVE d[i].number < n
    <3>1. b \in 1..last
      BY <1>0, <2>1
    <3>2. d[i].number \in 1..top /\ (n \in pending[b] \/ n \in t)
      BY <1>1, <1>b, <2>1, <3>1
    <3> QED BY <1>1, <1>a, <2>1, <3>1, <3>2, Zenon
  <2>2. ASSUME b < d[i].by, NEW m \in final2[b] PROVE m < d[i].number
    <3>1. b \in 1..last /\ b # last
      BY <1>0, <1>1, <2>2
    <3> QED BY <1>0, <1>1, <2>2, <3>1
  <2> QED BY <2>1, <2>2
<1> QED BY <1>1, <1>2, <1>3, <1>4, <1>5 DEF Turns

\* A step that hands nothing over keeps the turns of the bridges.
LEMMA InTurnKept ==
    ASSUME BridgeInv, delivered' = delivered, traffic' \in Nat, traffic' >= traffic,
           NEW t \in SUBSET Nat, \A n \in t : n > traffic, Len(bridges') \in {Len(bridges), Len(bridges) + 1},
           \A b \in DOMAIN bridges : Pending(b)' \subseteq Pending(b) \cup t /\ (~Unclosed(b) => Final(b)' \subseteq Final(b)),
           \A b \in DOMAIN bridges' \ DOMAIN bridges : Pending(b)' = {},
           bridges' \in Seq(BridgeRecord)
    PROVE  InTurn'
<1> DEFINE last == Len(bridges)
           next == Len(bridges')
           final == [b \in 1..last |-> Final(b)]
           pending == [b \in 1..last |-> Pending(b)]
           final2 == [b \in 1..next |-> Final(b)']
           pending2 == [b \in 1..next |-> Pending(b)']
           top == traffic
           upto == traffic'
<1>1. DOMAIN bridges = 1..last /\ last \in Nat /\ traffic \in Nat
  BY LenProperties DEF BridgeInv, Typed
<1>2. Turns(delivered, last, final, pending, top)
  BY DEF BridgeInv, InTurn
<1>3. \A b \in 1..last : Final(b) \subseteq Pending(b) /\ Pending(b) \subseteq 1..top
  BY <1>1, PendingIs DEF BridgeInv
<1>4. \A b \in 1..last : b # last => ~Unclosed(b)
  <2> SUFFICES ASSUME NEW b \in 1..last, Unclosed(b) PROVE b = last
    OBVIOUS
  <2>1. b \in DOMAIN bridges /\ b # 0
    BY <1>1
  <2>2. b = current
    BY <2>1 DEF BridgeInv, Server, Unclosed
  <2>3. current \in {0, last}
    BY DEF BridgeInv, Server, NoBridge
  <2> QED BY <2>1, <2>2, <2>3
<1>5. next \in {last, last + 1} /\ 1..last \subseteq 1..next
  BY <1>1
<1>6. \A b \in 1..last : /\ final[b] \subseteq pending[b] /\ pending[b] \subseteq 1..top
                         /\ pending2[b] \subseteq pending[b] \cup t
                         /\ b # last => final2[b] \subseteq final[b]
  <2> SUFFICES ASSUME NEW b \in 1..last
               PROVE  /\ final[b] \subseteq pending[b] /\ pending[b] \subseteq 1..top
                      /\ pending2[b] \subseteq pending[b] \cup t
                      /\ b # last => final2[b] \subseteq final[b]
    OBVIOUS
  <2>1. b \in 1..next /\ b \in DOMAIN bridges
    BY <1>1, <1>5
  <2>2. final[b] = Final(b) /\ pending[b] = Pending(b) /\ final2[b] = Final(b)' /\ pending2[b] = Pending(b)'
    BY <2>1
  <2>3. Pending(b)' \subseteq Pending(b) \cup t /\ (~Unclosed(b) => Final(b)' \subseteq Final(b))
    BY <2>1
  <2> HIDE DEF final, pending, final2, pending2
  <2> QED BY <1>3, <1>4, <2>2, <2>3
<1>7. \A b \in 1..next : b > last => pending2[b] = {}
  <2> SUFFICES ASSUME NEW b \in 1..next, b > last PROVE Pending(b)' = {}
    OBVIOUS
  <2>1. DOMAIN bridges' = 1..next
    BY LenProperties
  <2>3. b \in 1..next /\ ~(b \in 1..last)
    OBVIOUS
  <2> HIDE DEF last, next, pending2
  <2>2. b \in DOMAIN bridges' /\ ~(b \in DOMAIN bridges)
    BY <1>1, <2>1, <2>3
  <2> QED BY <2>2
<1>9. upto \in Nat /\ upto >= top /\ top \in Nat /\ last \in Nat /\ t \in SUBSET Nat /\ \A n \in t : n > top
  BY <1>1
<1> HIDE DEF last, next, final, pending, final2, pending2, top, upto
<1>10. Carried(last, next, final, pending, final2, pending2, top, upto, t)
  BY <1>5, <1>6, <1>7, <1>9, Zenon DEF Carried
<1>8. Turns(delivered, next, final2, pending2, upto)
  BY <1>2, <1>10, TurnsKept, Zenon
<1> QED BY <1>8 DEF InTurn, next, final2, pending2, upto

\* A step that hands nothing over adds nothing late.
LEMMA LatenessKept ==
    ASSUME BridgeInv, delivered' = delivered, \A b \in DOMAIN bridges : bridges'[b].running => bridges[b].running,
           \A b \in DOMAIN bridges : ~bridges[b].running /\ At(b) \in After => At(b)' \in After
    PROVE  Lateness'
<1>1. \A i \in DOMAIN delivered : delivered[i].by \in DOMAIN bridges
  <2>1. DOMAIN bridges = 1..Len(bridges)
    BY LenProperties DEF BridgeInv, Typed
  <2> QED BY <2>1 DEF BridgeInv, InTurn, Turns
<1> QED BY <1>1 DEF BridgeInv, Lateness

\* A step that loses sight of no connection keeps the leaks as they are.
LEMMA LeaksKept ==
    ASSUME BridgeInv, \A s \in DOMAIN sockets' : Astray(s)' => s \in DOMAIN sockets /\ Astray(s),
           \A s \in DOMAIN sockets : sockets'[s].of = sockets[s].of,
           \A b \in DOMAIN bridges : bridges'[b].running => bridges[b].running,
           current' \in {current, NoBridge, Len(bridges) + 1}
    PROVE  Leaks'
<1>1. \A s \in DOMAIN sockets : sockets[s].of \in DOMAIN bridges
  BY DEF BridgeInv, Typed
<1>2. DOMAIN bridges = 1..Len(bridges) /\ Len(bridges) \in Nat
  BY LenProperties DEF BridgeInv, Typed
<1>3. \A s \in DOMAIN sockets : sockets[s].of # NoBridge /\ sockets[s].of # Len(bridges) + 1
  BY <1>1, <1>2 DEF NoBridge
<1>4. \A s \in DOMAIN sockets' : Astray(s)' =>
        /\ s \in DOMAIN sockets /\ Astray(s) /\ sockets'[s].of = sockets[s].of
        /\ sockets[s].of # current' /\ ~bridges'[sockets[s].of].running
  BY <1>1, <1>3 DEF BridgeInv, Leaks
<1> QED BY <1>4 DEF BridgeInv, Leaks

\* All connections after a step that publishes the numbers in t: those of before go on,
\* and those made belong to a bridge in B.
Well(all, top) ==
  /\ all \in Seq(SocketRecord)
  /\ \A s \in DOMAIN all : Increasing(all[s].inbox) /\ In(all[s]) \subseteq 0..top
Later(new, old, t, B) ==
  /\ new \in Seq(SocketRecord) /\ DOMAIN old \subseteq DOMAIN new
  /\ \A s \in DOMAIN old : Onward(new[s], old[s], t)
  /\ \A s \in DOMAIN new \ DOMAIN old :
       new[s].of \in B /\ ~new[s].listening /\ In(new[s]) = {} /\ Increasing(new[s].inbox)

\* Two steps in one: the second may publish.
LEMMA LaterTwice ==
    ASSUME NEW x, NEW y, NEW z, NEW t, NEW B, Later(y, x, {}, B), Later(z, y, t, B)
    PROVE  Later(z, x, t, B)
<1>1. z \in Seq(SocketRecord) /\ DOMAIN x \subseteq DOMAIN z
  BY DEF Later
<1>2. ASSUME NEW s \in DOMAIN x PROVE Onward(z[s], x[s], t)
  <2>1. Onward(y[s], x[s], {}) /\ Onward(z[s], y[s], t)
    BY DEF Later
  <2> QED BY <2>1 DEF Onward
<1>3. ASSUME NEW s \in DOMAIN z \ DOMAIN x
      PROVE  z[s].of \in B /\ ~z[s].listening /\ In(z[s]) = {} /\ Increasing(z[s].inbox)
  <2>1. CASE s \in DOMAIN y
    <3>1. Onward(z[s], y[s], t) /\ y[s].of \in B /\ ~y[s].listening /\ In(y[s]) = {}
      BY <2>1 DEF Later
    <3> QED BY <3>1 DEF Onward
  <2>2. CASE s \notin DOMAIN y
    BY <2>2 DEF Later
  <2> QED BY <2>1, <2>2
<1> QED BY <1>1, <1>2, <1>3 DEF Later

\* Inboxes stay increasing and within what is published.
LEMMA LaterIsWell ==
    ASSUME NEW x, NEW y, NEW t, NEW B, NEW top \in Nat, NEW upto \in Nat, upto >= top,
           Well(x, top), Later(y, x, t, B), t \subseteq 0..upto
    PROVE  Well(y, upto)
<1>1. ASSUME NEW s \in DOMAIN y PROVE Increasing(y[s].inbox) /\ In(y[s]) \subseteq 0..upto
  <2>1. CASE s \in DOMAIN x
    <3>1. Onward(y[s], x[s], t) /\ In(x[s]) \subseteq 0..top
      BY <2>1 DEF Later, Well
    <3>2. 0..top \subseteq 0..upto
      OBVIOUS
    <3>3. Increasing(y[s].inbox) /\ In(y[s]) \subseteq In(x[s]) \cup t
      BY <3>1 DEF Onward
    <3> QED BY <3>1, <3>2, <3>3
  <2>2. CASE s \notin DOMAIN x
    BY <2>2 DEF Later
  <2> QED BY <2>1, <2>2
<1> QED BY <1>1 DEF Later, Well

\* Connections left alone.
LEMMA LaterSelf ==
    ASSUME NEW top \in Nat, NEW all, Well(all, top), NEW B, NEW t
    PROVE  Later(all, all, t, B)
<1>1. \A s \in DOMAIN all : all[s] \in SocketRecord
  BY ElementOfSeq, LenProperties DEF Well
<1>2. \A s \in DOMAIN all : Onward(all[s], all[s], t)
  BY <1>1 DEF Well, Onward
<1> QED BY <1>2 DEF Well, Later

\* A connection is made.
LEMMA LaterMade ==
    ASSUME NEW top \in Nat, NEW all, Well(all, top), NEW B \in SUBSET Nat, NEW b \in B, NEW refused \in BOOLEAN
    PROVE  /\ Later(Append(all, Socket(b, refused)), all, {}, B) /\ DOMAIN all = 1..Len(all) /\ Len(all) \in Nat
           /\ DOMAIN Append(all, Socket(b, refused)) = 1..(Len(all) + 1)
           /\ Append(all, Socket(b, refused))[Len(all) + 1] = Socket(b, refused)
           /\ \A s \in DOMAIN all : Append(all, Socket(b, refused))[s] = all[s]
<1> DEFINE socket == Socket(b, refused)
           new == Append(all, socket)
<1>1. /\ socket \in SocketRecord /\ socket.of = b /\ ~socket.listening /\ In(socket) = {} /\ Increasing(socket.inbox)
  BY DEF Socket, SocketRecord, In, Values, Increasing
<1>2. all \in Seq(SocketRecord) /\ DOMAIN all = 1..Len(all) /\ Len(all) \in Nat
  BY LenProperties DEF Well
<1> HIDE DEF socket
<1>3. /\ new \in Seq(SocketRecord) /\ Len(new) = Len(all) + 1 /\ new[Len(all) + 1] = socket
      /\ \A s \in 1..Len(all) : new[s] = all[s]
  BY <1>1, <1>2, AppendProperties
<1>4. DOMAIN new = 1..(Len(all) + 1)
  BY <1>3, LenProperties
<1> HIDE DEF new
<1>5. ASSUME NEW s \in DOMAIN all PROVE Onward(new[s], all[s], {}) /\ s \in DOMAIN new
  <2>1. Later(all, all, {}, B)
    BY LaterSelf
  <2> QED BY <1>2, <1>3, <1>4, <2>1 DEF Later
<1>6. \A s \in DOMAIN new \ DOMAIN all : s = Len(all) + 1
  BY <1>2, <1>4
<1>7. Later(new, all, {}, B)
  BY <1>1, <1>3, <1>5, <1>6 DEF Later
<1> QED BY <1>2, <1>3, <1>4, <1>7 DEF new, socket

\* A PUBLISH reaches the subscriptions.
LEMMA LaterPushed ==
    ASSUME NEW all, traffic \in Nat, Well(all, traffic), NEW B
    PROVE  /\ Later(Pushed(all), all, {traffic + 1}, B) /\ DOMAIN Pushed(all) = DOMAIN all
           /\ \A s \in DOMAIN all : /\ Pushed(all)[s].of = all[s].of /\ Pushed(all)[s].open = all[s].open
                                    /\ Pushed(all)[s].inbox = all[s].inbox \/ all[s].listening
<1> DEFINE new == Pushed(all)
<1>1. /\ DOMAIN all = 1..Len(all) /\ Len(all) \in Nat /\ \A s \in DOMAIN all : all[s] \in SocketRecord
  BY ElementOfSeq, LenProperties DEF Well
<1>2. /\ DOMAIN new = DOMAIN all
      /\ \A s \in DOMAIN all : new[s] = IF all[s].listening THEN [all[s] EXCEPT !.inbox = Append(@, traffic + 1)] ELSE all[s]
  BY Zenon DEF Pushed
<1> HIDE DEF new
<1>3. ASSUME NEW s \in DOMAIN all PROVE Onward(new[s], all[s], {traffic + 1}) /\ new[s].of = all[s].of /\ new[s].open = all[s].open
  <2> DEFINE old == all[s]
  <2>1. old \in SocketRecord /\ Increasing(old.inbox) /\ In(old) \subseteq 0..traffic
    BY <1>1 DEF Well
  <2>2. new[s] = IF old.listening THEN [old EXCEPT !.inbox = Append(@, traffic + 1)] ELSE old
    BY <1>2
  <2> HIDE DEF old
  <2>3. /\ Onward([old EXCEPT !.inbox = Append(@, traffic + 1)], old, {traffic + 1}) \/ ~old.listening
        /\ Onward(old, old, {traffic + 1})
    BY <2>1, SocketPushed
  <2>4. [old EXCEPT !.inbox = Append(@, traffic + 1)].open = old.open
    BY <2>1 DEF SocketRecord
  <2>5. Onward(new[s], old, {traffic + 1}) /\ new[s].open = old.open
    BY <2>2, <2>3, <2>4
  <2> QED BY <2>5 DEF old, Onward
<1>4. new \in Seq(SocketRecord)
  <2>1. \A s \in 1..Len(all) : new[s] \in SocketRecord
    BY <1>1, <1>3 DEF Onward
  <2>2. new = [s \in 1..Len(all) |-> new[s]]
    BY <1>1, Zenon DEF new, Pushed
  <2>3. [s \in 1..Len(all) |-> new[s]] \in Seq(SocketRecord)
    BY <1>1, <2>1, IsASeq
  <2> QED BY <2>2, <2>3
<1>5. Later(new, all, {traffic + 1}, B)
  BY <1>2, <1>3, <1>4 DEF Later
<1> QED BY <1>2, <1>3, <1>5 DEF new

\* One connection goes on.
LEMMA LaterOne ==
    ASSUME NEW top \in Nat, NEW all, Well(all, top), NEW s \in DOMAIN all, NEW socket, Onward(socket, all[s], {}), NEW B
    PROVE  /\ Later([all EXCEPT ![s] = socket], all, {}, B) /\ DOMAIN [all EXCEPT ![s] = socket] = DOMAIN all
           /\ [all EXCEPT ![s] = socket][s] = socket
           /\ \A x \in DOMAIN all \ {s} : [all EXCEPT ![s] = socket][x] = all[x]
<1> DEFINE new == [all EXCEPT ![s] = socket]
<1>1. DOMAIN new = DOMAIN all /\ new[s] = socket /\ \A x \in DOMAIN all \ {s} : new[x] = all[x]
  OBVIOUS
<1>2. all \in Seq(SocketRecord) /\ DOMAIN all = 1..Len(all) /\ socket \in SocketRecord
  BY LenProperties DEF Well, Onward
<1>3. new \in Seq(SocketRecord)
  BY <1>2, ExceptSeq
<1> HIDE DEF new
<1>4. Later(all, all, {}, B)
  BY LaterSelf
<1>5. \A x \in DOMAIN all : Onward(new[x], all[x], {})
  BY <1>1, <1>4 DEF Later
<1>6. Later(new, all, {}, B)
  BY <1>1, <1>3, <1>5 DEF Later
<1> QED BY <1>1, <1>6 DEF new

\* closeQuietly: one connection is closed, or none.
LEMMA LaterClosed ==
    ASSUME NEW top \in Nat, NEW all, Well(all, top), NEW s \in {NoSocket} \cup DOMAIN all,
           NEW k \in Nat, s # NoSocket => k <= Len(all[s].inbox), NEW B
    PROVE  /\ Later(Closed(all, s, k), all, {}, B) /\ DOMAIN Closed(all, s, k) = DOMAIN all
           /\ s # NoSocket => /\ ~Closed(all, s, k)[s].open /\ ~Closed(all, s, k)[s].listening
                              /\ k = 0 => In(Closed(all, s, k)[s]) = {}
           /\ \A x \in DOMAIN all \ {s} : Closed(all, s, k)[x] = all[x]
<1>1. CASE s = NoSocket
  <2>1. Later(all, all, {}, B)
    BY LaterSelf
  <2> QED BY <1>1, <2>1 DEF Closed
<1>2. CASE s # NoSocket
  <2> DEFINE old == all[s]
             off == [Cut(old, k) EXCEPT !.open = FALSE]
  <2>1. s \in DOMAIN all
    BY <1>2
  <2>2. old \in SocketRecord /\ Increasing(old.inbox) /\ k \in 0..Len(old.inbox)
    <3>1. old \in SocketRecord /\ Increasing(old.inbox)
      BY <2>1, ElementOfSeq, LenProperties DEF Well
    <3>2. Len(old.inbox) \in Nat
      BY <3>1, LenProperties DEF SocketRecord
    <3> QED BY <1>2, <3>1, <3>2
  <2> HIDE DEF old
  <2>3. Onward(off, old, {}) /\ ~off.open /\ ~off.listening /\ (k = 0 => In(off) = {})
    BY <2>2, SocketCut
  <2>4. Closed(all, s, k) = [all EXCEPT ![s] = off]
    BY <1>2, Zenon DEF Closed, old
  <2> HIDE DEF off
  <2>5. /\ Later([all EXCEPT ![s] = off], all, {}, B) /\ DOMAIN [all EXCEPT ![s] = off] = DOMAIN all
        /\ [all EXCEPT ![s] = off][s] = off
        /\ \A x \in DOMAIN all \ {s} : [all EXCEPT ![s] = off][x] = all[x]
    BY <2>1, <2>3, LaterOne DEF old
  <2> QED BY <2>3, <2>4, <2>5
<1> QED BY <1>1, <1>2

\* What a step makes of the listener and of the record of bridge b.
Moved(b, at, on, got) ==
  /\ listener' \in Seq(ListenerRecord) /\ Len(listener') = Len(listener)
  /\ listener'[b] = [at |-> at, on |-> on, got |-> got]
  /\ \A c \in DOMAIN bridges \ {b} : listener'[c] = listener[c]
Altered(b) ==
  /\ bridges' \in Seq(BridgeRecord) /\ Len(bridges') = Len(bridges)
  /\ \A c \in DOMAIN bridges \ {b} : bridges'[c] = bridges[c]

\* Each bridge has a listener, and every field the type of its record.
LEMMA Lengths ==
    ASSUME Typed
    PROVE  /\ DOMAIN bridges = 1..Len(bridges) /\ DOMAIN listener = DOMAIN bridges /\ Len(bridges) \in Nat
           /\ DOMAIN sockets = 1..Len(sockets) /\ Len(sockets) \in Nat /\ traffic \in Nat
           /\ \A b \in DOMAIN bridges : bridges[b] \in BridgeRecord /\ listener[b] \in ListenerRecord
           /\ \A s \in DOMAIN sockets : sockets[s] \in SocketRecord
  BY LenProperties, ElementOfSeq DEF Typed

\* The bridge in use is the last one made.
LEMMA CurrentIs ==
    ASSUME Typed, Server, current # NoBridge
    PROVE  current \in DOMAIN bridges /\ current = Len(bridges)
<1> DEFINE n == Len(bridges)
<1>1. DOMAIN bridges = 1..n /\ n \in Nat
  BY Lengths
<1>2. current = n /\ current # 0
  BY DEF Server, NoBridge
<1> HIDE DEF n
<1>3. n \in 1..n
  BY <1>1, <1>2
<1> QED BY <1>1, <1>2, <1>3 DEF n

\* A sequence with one element replaced.
LEMMA Replaced ==
    ASSUME NEW S, NEW q \in Seq(S), NEW i \in DOMAIN q, NEW x \in S
    PROVE  /\ [q EXCEPT ![i] = x] \in Seq(S) /\ Len([q EXCEPT ![i] = x]) = Len(q)
           /\ DOMAIN [q EXCEPT ![i] = x] = DOMAIN q
           /\ [q EXCEPT ![i] = x][i] = x /\ \A j \in DOMAIN q \ {i} : [q EXCEPT ![i] = x][j] = q[j]
<1>1. i \in 1..Len(q)
  BY LenProperties
<1>2. [q EXCEPT ![i] = x] \in Seq(S) /\ Len([q EXCEPT ![i] = x]) = Len(q)
  BY <1>1, ExceptSeq
<1> QED BY <1>2

\* A listener alone has moved.
LEMMA ListenerMoves ==
    ASSUME Typed, NEW b \in DOMAIN bridges, NEW x \in ListenerRecord, listener' = [listener EXCEPT ![b] = x]
    PROVE  Moved(b, x.at, x.on, x.got)
<1>1. listener \in Seq(ListenerRecord) /\ DOMAIN listener = DOMAIN bridges
  BY Lengths DEF Typed
<1>2. x = [at |-> x.at, on |-> x.on, got |-> x.got]
  BY Zenon DEF ListenerRecord
<1> QED BY <1>1, <1>2, Replaced DEF Moved

\* A listener leaves what it was doing.
LEMMA Goes ==
    ASSUME Typed, NEW b \in DOMAIN bridges, NEW at \in Places, GoesTo(b, at)
    PROVE  Moved(b, at, NoSocket, Ack)
<1> DEFINE x == [listener[b] EXCEPT !.at = at, !.on = NoSocket, !.got = Ack]
<1>1. listener[b] \in ListenerRecord
  BY Lengths
<1>2. x \in ListenerRecord /\ x.at = at /\ x.on = NoSocket /\ x.got = Ack
  BY <1>1 DEF ListenerRecord, NoSocket, Ack
<1>3. listener' = [listener EXCEPT ![b] = x]
  BY DEF GoesTo
<1> HIDE DEF x
<1>4. Moved(b, x.at, x.on, x.got)
  BY <1>2, <1>3, ListenerMoves
<1> QED BY <1>2, <1>4

\* A listener takes up a connection.
LEMMA GoesOn ==
    ASSUME Typed, NEW b \in DOMAIN bridges, NEW at \in Places, NEW s \in Nat,
           listener' = [listener EXCEPT ![b].at = at, ![b].on = s]
    PROVE  Moved(b, at, s, listener[b].got)
<1> DEFINE x == [listener[b] EXCEPT !.at = at, !.on = s]
<1>1. listener[b] \in ListenerRecord
  BY Lengths
<1>2. x \in ListenerRecord /\ x.at = at /\ x.on = s /\ x.got = listener[b].got
  BY <1>1 DEF ListenerRecord
<1>3. listener' = [listener EXCEPT ![b] = x]
  OBVIOUS
<1> HIDE DEF x
<1>4. Moved(b, x.at, x.on, x.got)
  BY <1>2, <1>3, ListenerMoves
<1> QED BY <1>2, <1>4

\* A listener has read a number.
LEMMA GoesWith ==
    ASSUME Typed, NEW b \in DOMAIN bridges, NEW at \in Places, NEW n \in Nat,
           listener' = [listener EXCEPT ![b].at = at, ![b].got = n]
    PROVE  Moved(b, at, listener[b].on, n)
<1> DEFINE x == [listener[b] EXCEPT !.at = at, !.got = n]
<1>1. listener[b] \in ListenerRecord
  BY Lengths
<1>2. x \in ListenerRecord /\ x.at = at /\ x.on = listener[b].on /\ x.got = n
  BY <1>1 DEF ListenerRecord
<1>3. listener' = [listener EXCEPT ![b] = x]
  OBVIOUS
<1> HIDE DEF x
<1>4. Moved(b, x.at, x.on, x.got)
  BY <1>2, <1>3, ListenerMoves
<1> QED BY <1>2, <1>4

\* A bridge alone is altered.
LEMMA BridgeAltered ==
    ASSUME Typed, NEW b \in DOMAIN bridges, NEW x \in BridgeRecord, bridges' = [bridges EXCEPT ![b] = x]
    PROVE  Altered(b) /\ bridges'[b] = x
<1>1. bridges \in Seq(BridgeRecord)
  BY DEF Typed
<1> QED BY <1>1, Replaced DEF Altered

\* The field subscriber is set.
LEMMA SubscriberSet ==
    ASSUME Typed, NEW b \in DOMAIN bridges, NEW s \in Nat, bridges' = [bridges EXCEPT ![b].subscriber = s]
    PROVE  /\ Altered(b) /\ bridges'[b].subscriber = s /\ bridges'[b].publisher = bridges[b].publisher
           /\ bridges'[b].running = bridges[b].running
<1> DEFINE x == [bridges[b] EXCEPT !.subscriber = s]
<1>1. bridges[b] \in BridgeRecord
  BY Lengths
<1>2. /\ x \in BridgeRecord /\ x.subscriber = s /\ x.publisher = bridges[b].publisher
      /\ x.running = bridges[b].running
  BY <1>1 DEF BridgeRecord
<1>3. bridges' = [bridges EXCEPT ![b] = x]
  OBVIOUS
<1> HIDE DEF x
<1> QED BY <1>2, <1>3, BridgeAltered

\* The field subscribed is set.
LEMMA SubscribedSet ==
    ASSUME Typed, NEW b \in DOMAIN bridges, NEW s \in BOOLEAN, bridges' = [bridges EXCEPT ![b].subscribed = s]
    PROVE  /\ Altered(b) /\ bridges'[b].subscriber = bridges[b].subscriber
           /\ bridges'[b].publisher = bridges[b].publisher /\ bridges'[b].running = bridges[b].running
<1> DEFINE x == [bridges[b] EXCEPT !.subscribed = s]
<1>1. bridges[b] \in BridgeRecord
  BY Lengths
<1>2. /\ x \in BridgeRecord /\ x.subscriber = bridges[b].subscriber
      /\ x.publisher = bridges[b].publisher /\ x.running = bridges[b].running
  BY <1>1 DEF BridgeRecord
<1>3. bridges' = [bridges EXCEPT ![b] = x]
  OBVIOUS
<1> HIDE DEF x
<1> QED BY <1>2, <1>3, BridgeAltered

\* The field running is set.
LEMMA RunningSet ==
    ASSUME Typed, NEW b \in DOMAIN bridges, NEW s \in BOOLEAN, bridges' = [bridges EXCEPT ![b].running = s]
    PROVE  /\ Altered(b) /\ bridges'[b].subscriber = bridges[b].subscriber
           /\ bridges'[b].publisher = bridges[b].publisher /\ bridges'[b].running = s
<1> DEFINE x == [bridges[b] EXCEPT !.running = s]
<1>1. bridges[b] \in BridgeRecord
  BY Lengths
<1>2. /\ x \in BridgeRecord /\ x.subscriber = bridges[b].subscriber
      /\ x.publisher = bridges[b].publisher /\ x.running = s
  BY <1>1 DEF BridgeRecord
<1>3. bridges' = [bridges EXCEPT ![b] = x]
  OBVIOUS
<1> HIDE DEF x
<1> QED BY <1>2, <1>3, BridgeAltered

\* The field publisher is set.
LEMMA PublisherSet ==
    ASSUME Typed, NEW b \in DOMAIN bridges, NEW s \in Nat, bridges' = [bridges EXCEPT ![b].publisher = s]
    PROVE  /\ Altered(b) /\ bridges'[b].subscriber = bridges[b].subscriber
           /\ bridges'[b].publisher = s /\ bridges'[b].running = bridges[b].running
<1> DEFINE x == [bridges[b] EXCEPT !.publisher = s]
<1>1. bridges[b] \in BridgeRecord
  BY Lengths
<1>2. /\ x \in BridgeRecord /\ x.subscriber = bridges[b].subscriber
      /\ x.publisher = s /\ x.running = bridges[b].running
  BY <1>1 DEF BridgeRecord
<1>3. bridges' = [bridges EXCEPT ![b] = x]
  OBVIOUS
<1> HIDE DEF x
<1> QED BY <1>2, <1>3, BridgeAltered

\* Both connections are forgotten.
LEMMA BothForgotten ==
    ASSUME Typed, NEW b \in DOMAIN bridges,
           bridges' = [bridges EXCEPT ![b].subscriber = NoSocket, ![b].publisher = NoSocket]
    PROVE  /\ Altered(b) /\ bridges'[b].subscriber = NoSocket
           /\ bridges'[b].publisher = NoSocket /\ bridges'[b].running = bridges[b].running
<1> DEFINE x == [bridges[b] EXCEPT !.subscriber = NoSocket, !.publisher = NoSocket]
<1>1. bridges[b] \in BridgeRecord
  BY Lengths
<1>2. /\ x \in BridgeRecord /\ x.subscriber = NoSocket
      /\ x.publisher = NoSocket /\ x.running = bridges[b].running
  BY <1>1 DEF BridgeRecord, NoSocket
<1>3. bridges' = [bridges EXCEPT ![b] = x]
  OBVIOUS
<1> HIDE DEF x
<1> QED BY <1>2, <1>3, BridgeAltered

-----------------------------------------------------------------------------
\* A step of the listener of bridge b, as far as the connections of others and the
\* fields go: what is left to show is what it makes of its own.
ListenerStep(b) ==
  /\ sockets' \in Seq(SocketRecord) /\ DOMAIN sockets \subseteq DOMAIN sockets'
  /\ \A s \in DOMAIN sockets : sockets'[s].of = sockets[s].of
                               /\ (sockets[s].of # b => Onward(sockets'[s], sockets[s], {}))
  /\ \A s \in DOMAIN sockets' \ DOMAIN sockets : sockets'[s].of = b
  /\ Numbered'
  /\ Altered(b) /\ bridges'[b].running = bridges[b].running /\ bridges'[b].publisher = bridges[b].publisher
  /\ bridges'[b].subscriber \in {NoSocket} \cup DOMAIN sockets'
  /\ listener'[b].on \in {NoSocket} \cup DOMAIN sockets'
  /\ \A c \in DOMAIN bridges \ {b} : listener'[c] = listener[c]
  /\ listener' \in Seq(ListenerRecord) /\ Len(listener') = Len(listener)
  /\ mishaps' \in 0..MaxMishaps
  /\ UNCHANGED <<current, serverThread, traffic>>

\* A step of one listener leaves the others what they had to hand over.
LEMMA OthersAside ==
    ASSUME BridgeInv, NEW b \in DOMAIN bridges, ListenerStep(b)
    PROVE  /\ Numbered' /\ Server' /\ (delivered' \in Seq(Delivery) => Typed')
           /\ \A c \in DOMAIN bridges \ {b} :
                /\ Wired(c)' /\ Pending(c)' \subseteq Pending(c)
                /\ ~Unclosed(c) => Final(c)' \subseteq Final(c)
           /\ DOMAIN bridges' = DOMAIN bridges
           /\ \A c \in DOMAIN bridges : bridges'[c].running = bridges[c].running
<1>0. Typed /\ Numbered /\ Server /\ \A c \in DOMAIN bridges : Wired(c)
  BY DEF BridgeInv
<1>1. DOMAIN bridges' = DOMAIN bridges
  <2>1. bridges' \in Seq(BridgeRecord) /\ Len(bridges') = Len(bridges) /\ bridges \in Seq(BridgeRecord)
    BY <1>0 DEF ListenerStep, Altered, Typed
  <2> QED BY <2>1, LenProperties
<1>2. \A c \in DOMAIN bridges : bridges'[c].running = bridges[c].running
  BY DEF ListenerStep, Altered
<1>3. Server'
  <2>1. current' = current /\ serverThread' = serverThread /\ Len(bridges') = Len(bridges)
    BY DEF ListenerStep, Altered
  <2>2. current # NoBridge => current \in DOMAIN bridges
    BY <1>0, CurrentIs
  <2>3. /\ serverThread = "free" => current # NoBridge /\ bridges'[current].running
        /\ serverThread \in {"close", "forget"} => current # NoBridge /\ ~bridges'[current].running
    BY <1>0, <1>2, <2>2 DEF Server
  <2>4. \A c \in DOMAIN bridges' : bridges'[c].running => c = current
    BY <1>0, <1>1, <1>2 DEF Server
  <2> QED BY <1>0, <2>1, <2>3, <2>4 DEF Server
<1>4. ASSUME NEW c \in DOMAIN bridges \ {b}
      PROVE  /\ Wired(c)' /\ Pending(c)' \subseteq Pending(c)
             /\ ~Unclosed(c) => Final(c)' \subseteq Final(c)
  <2>1. Advances(c, {})
    BY DEF Advances, ListenerStep
  <2>2. bridges'[c] = bridges[c] /\ listener'[c] = listener[c] /\ (Unclosed(c)' <=> Unclosed(c))
    BY DEF ListenerStep, Altered, Unclosed
  <2>3. bridges[c].publisher # NoSocket => bridges[c].publisher \in DOMAIN sockets /\ sockets[bridges[c].publisher].of = c
    BY <1>0 DEF Typed, Wired
  <2>4. bridges[c].publisher # NoSocket => sockets'[bridges[c].publisher].of = c
    BY <2>3 DEF ListenerStep
  <2>5. Aside(c)
    BY <2>2, <2>4 DEF Aside
  <2>6. traffic \in Nat /\ traffic' = traffic
    BY <1>0 DEF Typed, ListenerStep
  <2> QED BY <1>0, <2>1, <2>5, <2>6, AsideKeeps
<1>5. ASSUME delivered' \in Seq(Delivery) PROVE Typed'
  <2>1. \A c \in DOMAIN bridges :
          {bridges'[c].subscriber, bridges'[c].publisher, listener'[c].on} \subseteq {NoSocket} \cup DOMAIN sockets'
    <3> SUFFICES ASSUME NEW c \in DOMAIN bridges
                 PROVE  {bridges'[c].subscriber, bridges'[c].publisher, listener'[c].on} \subseteq {NoSocket} \cup DOMAIN sockets'
      OBVIOUS
    <3>1. {bridges[c].subscriber, bridges[c].publisher, listener[c].on} \subseteq {NoSocket} \cup DOMAIN sockets
      BY <1>0 DEF Typed
    <3>2. CASE c = b
      BY <3>1, <3>2 DEF ListenerStep
    <3>3. CASE c # b
      BY <3>1, <3>3 DEF ListenerStep, Altered
    <3> QED BY <3>2, <3>3
  <2>2. \A s \in DOMAIN sockets' : sockets'[s].of \in DOMAIN bridges
    <3> SUFFICES ASSUME NEW s \in DOMAIN sockets' PROVE sockets'[s].of \in DOMAIN bridges
      OBVIOUS
    <3>1. CASE s \in DOMAIN sockets
      BY <1>0, <3>1 DEF Typed, ListenerStep
    <3>2. CASE s \notin DOMAIN sockets
      BY <3>2 DEF ListenerStep
    <3> QED BY <3>1, <3>2
  <2>3. traffic' \in Nat /\ mishaps' \in 0..MaxMishaps /\ sockets' \in Seq(SocketRecord)
    BY <1>0 DEF Typed, ListenerStep
  <2>4. bridges' \in Seq(BridgeRecord) /\ listener' \in Seq(ListenerRecord) /\ Len(listener') = Len(bridges')
    BY <1>0 DEF Typed, ListenerStep, Altered
  <2> QED BY <1>1, <1>5, <2>1, <2>2, <2>3, <2>4 DEF Typed
<1>6. Numbered'
  BY DEF ListenerStep
<1> QED BY <1>1, <1>2, <1>3, <1>4, <1>5, <1>6

\* A connection is not lost sight of by a step that leaves it in a field, or not open.
NoneLost(b) ==
  \A s \in DOMAIN sockets' : sockets'[s].of = b /\ sockets'[s].open /\ ~sockets'[s].refused =>
    \/ s \in {bridges'[b].subscriber, bridges'[b].publisher} \/ (listener'[b].at = "assign" /\ listener'[b].on = s)
    \/ s \in DOMAIN sockets /\ Astray(s)

\* A listener that loses sight of nothing leaks nothing.
LEMMA NoneAstray ==
    ASSUME BridgeInv, NEW b \in DOMAIN bridges, ListenerStep(b), NoneLost(b)
    PROVE  Leaks'
<1>1. ASSUME NEW s \in DOMAIN sockets', Astray(s)' PROVE s \in DOMAIN sockets /\ Astray(s)
  <2> DEFINE c == sockets'[s].of
  <2>1. /\ sockets'[s].open /\ ~sockets'[s].refused
        /\ ~(s \in {bridges'[c].subscriber, bridges'[c].publisher} \/ (listener'[c].at = "assign" /\ listener'[c].on = s))
    BY <1>1 DEF Astray, Held
  <2>2. CASE c = b
    BY <2>1, <2>2 DEF NoneLost
  <2>3. CASE c # b
    <3>1. s \in DOMAIN sockets /\ sockets[s].of = c
      BY <2>3 DEF ListenerStep
    <3>2. Onward(sockets'[s], sockets[s], {}) /\ c \in DOMAIN bridges \ {b}
      BY <2>3, <3>1 DEF ListenerStep, BridgeInv, Typed
    <3>3. bridges'[c] = bridges[c] /\ listener'[c] = listener[c]
      BY <3>2 DEF ListenerStep, Altered
    <3>4. sockets[s].open /\ ~sockets[s].refused
      BY <2>1, <3>2 DEF Onward
    <3> HIDE DEF c
    <3> QED BY <2>1, <3>1, <3>3, <3>4 DEF Astray, Held
  <2> QED BY <2>2, <2>3
<1>2. \A s \in DOMAIN sockets : sockets'[s].of = sockets[s].of
  BY DEF ListenerStep
<1>3. \A c \in DOMAIN bridges : bridges'[c].running => bridges[c].running
  BY OthersAside
<1>4. current' \in {current, NoBridge, Len(bridges) + 1}
  BY DEF ListenerStep
<1> QED BY <1>1, <1>2, <1>3, <1>4, LeaksKept

\* A step of a listener that hands nothing over.
LEMMA ListenerKeeps ==
    ASSUME BridgeInv, NEW b \in DOMAIN bridges, ListenerStep(b), NoneLost(b), delivered' = delivered,
           Wired(b)', Pending(b)' \subseteq Pending(b), ~Unclosed(b) => Final(b)' \subseteq Final(b),
           ~bridges[b].running /\ At(b) \in After => At(b)' \in After
    PROVE  BridgeInv'
<1>1. /\ Numbered' /\ Server' /\ (delivered' \in Seq(Delivery) => Typed')
      /\ \A c \in DOMAIN bridges \ {b} :
           /\ Wired(c)' /\ Pending(c)' \subseteq Pending(c)
           /\ ~Unclosed(c) => Final(c)' \subseteq Final(c)
      /\ DOMAIN bridges' = DOMAIN bridges
      /\ \A c \in DOMAIN bridges : bridges'[c].running = bridges[c].running
  BY OthersAside
<1>2. Typed'
  BY <1>1 DEF BridgeInv, Typed
<1>3. Leaks'
  BY NoneAstray
<1>4. ASSUME NEW c \in DOMAIN bridges
      PROVE  /\ Wired(c)' /\ Pending(c)' \subseteq Pending(c)
             /\ ~Unclosed(c) => Final(c)' \subseteq Final(c)
  <2>1. CASE c = b
    BY <2>1
  <2>2. CASE c # b
    BY <1>1, <2>2
  <2> QED BY <2>1, <2>2
<1>5. traffic' = traffic /\ traffic \in Nat /\ Len(bridges') = Len(bridges) /\ bridges' \in Seq(BridgeRecord)
  BY DEF ListenerStep, Altered, BridgeInv, Typed
<1>6. InTurn'
  <2> DEFINE t == {}
  <2>1. t \in SUBSET Nat /\ \A n \in t : n > traffic
    OBVIOUS
  <2>2. \A c \in DOMAIN bridges : Pending(c)' \subseteq Pending(c) \cup t /\ (~Unclosed(c) => Final(c)' \subseteq Final(c))
    BY <1>4
  <2>3. \A c \in DOMAIN bridges' \ DOMAIN bridges : Pending(c)' = {}
    BY <1>1
  <2>4. traffic' >= traffic /\ traffic' \in Nat /\ Len(bridges') \in {Len(bridges), Len(bridges) + 1}
    BY <1>5
  <2> HIDE DEF t
  <2> QED BY <1>5, <2>1, <2>2, <2>3, <2>4, InTurnKept
<1>7. Lateness'
  <2>1. \A c \in DOMAIN bridges : ~bridges[c].running /\ At(c) \in After => At(c)' \in After
    <3> SUFFICES ASSUME NEW c \in DOMAIN bridges, ~bridges[c].running, At(c) \in After PROVE At(c)' \in After
      OBVIOUS
    <3>1. CASE c = b
      BY <3>1
    <3>2. CASE c # b
      BY <3>2 DEF ListenerStep, At
    <3> QED BY <3>1, <3>2
  <2> QED BY <1>1, <2>1, LatenessKept
<1> QED BY <1>1, <1>2, <1>3, <1>4, <1>6, <1>7 DEF BridgeInv

\* What a step of a listener starts from.
LEMMA Start ==
    ASSUME BridgeInv, NEW b \in DOMAIN bridges
    PROVE  /\ Typed /\ Numbered /\ Server /\ Wired(b) /\ Well(sockets, traffic) /\ traffic \in Nat /\ b \in Nat
           /\ \A B : Later(sockets, sockets, {}, B)
           /\ {bridges[b].subscriber, bridges[b].publisher, listener[b].on} \subseteq {NoSocket} \cup DOMAIN sockets
<1>1. Typed /\ Numbered /\ Server /\ Wired(b) /\ traffic \in Nat
  BY DEF BridgeInv, Typed
<1>2. Well(sockets, traffic)
  BY <1>1 DEF Typed, Numbered, Well
<1>3. \A B : Later(sockets, sockets, {}, B)
  BY <1>1, <1>2, LaterSelf
<1>4. b \in Nat
  BY <1>1, Lengths
<1>5. {bridges[b].subscriber, bridges[b].publisher, listener[b].on} \subseteq {NoSocket} \cup DOMAIN sockets
  BY <1>1 DEF Typed
<1> QED BY <1>1, <1>2, <1>3, <1>4, <1>5

\* Steps in which connections only go on.
LEMMA StepsOn ==
    ASSUME BridgeInv, NEW b \in DOMAIN bridges, Later(sockets', sockets, {}, {b}), NEW at, NEW on, NEW got, Moved(b, at, on, got),
           Altered(b), bridges'[b].running = bridges[b].running, bridges'[b].publisher = bridges[b].publisher,
           {bridges'[b].subscriber, on} \subseteq {NoSocket} \cup DOMAIN sockets',
           mishaps' \in 0..MaxMishaps, UNCHANGED <<current, serverThread, traffic>>
    PROVE  ListenerStep(b)
<1>1. Typed /\ Well(sockets, traffic) /\ traffic \in Nat
  BY Start
<1>2. Well(sockets', traffic)
  BY <1>1, LaterIsWell
<1>3. Numbered'
  BY <1>2 DEF Well, Numbered
<1>4. \A s \in DOMAIN sockets : sockets'[s].of = sockets[s].of
  BY DEF Later, Onward
<1>5. listener'[b].on = on
  BY DEF Moved
<1> QED BY <1>3, <1>4, <1>5 DEF Later, Moved, ListenerStep

\* Where the fields are left alone.
LEMMA SameBridges ==
    ASSUME BridgeInv, NEW b \in DOMAIN bridges, bridges' = bridges
    PROVE  /\ Altered(b) /\ bridges'[b].running = bridges[b].running /\ bridges'[b].publisher = bridges[b].publisher
           /\ bridges'[b].subscriber = bridges[b].subscriber
  BY DEF Altered, BridgeInv, Typed

\* A listener that is done with its connection, or for good.
LEMMA GivesUp ==
    ASSUME BridgeInv, NEW b \in DOMAIN bridges, NEW at \in {"finally", "ended"}, GoesTo(b, at), At(b) # "assign",
           at = "ended" => At(b) = "connect", Later(sockets', sockets, {}, {b}),
           \A s \in DOMAIN sockets' \ DOMAIN sockets : sockets'[s].refused,
           mishaps' \in 0..MaxMishaps, UNCHANGED <<bridges, delivered, current, serverThread, traffic>>
    PROVE  BridgeInv'
<1> DEFINE sub == bridges[b].subscriber
           pub == bridges[b].publisher
<1>1. /\ Typed /\ Wired(b) /\ traffic \in Nat /\ {sub, pub, listener[b].on} \subseteq {NoSocket} \cup DOMAIN sockets
  BY Start
<1>2. Moved(b, at, NoSocket, Ack)
  BY <1>1, Goes DEF Places
<1>3. /\ Altered(b) /\ bridges'[b].running = bridges[b].running /\ bridges'[b].publisher = pub
      /\ bridges'[b].subscriber = sub
  BY SameBridges
<1>4. \A s \in DOMAIN sockets : s \in DOMAIN sockets' /\ Onward(sockets'[s], sockets[s], {})
  BY DEF Later
<1>5. ListenerStep(b)
  BY <1>1, <1>2, <1>3, <1>4, StepsOn
<1>6. At(b)' = at /\ listener'[b].on = NoSocket /\ LineOf(b)' = {sub} \ {NoSocket} /\ LineOf(b)' \subseteq LineOf(b)
  BY <1>2, <1>3 DEF Moved, At, LineOf
<1>7. Pending(b)' \subseteq Pending(b)
  <2>1. \A s \in LineOf(b) : In(sockets'[s]) \subseteq In(sockets[s])
    BY <1>1, <1>4 DEF LineOf, Onward
  <2> QED BY <1>6, <2>1 DEF Pending
<1>8. Final(b)' = {}
  BY <1>6 DEF Final
<1>9. Wired(b)'
  <2>1. at = "ended" => sub = NoSocket
    BY <1>1 DEF Wired
  <2>2. \A s \in {sub, pub, NoSocket} \ {NoSocket} : sockets'[s].of = b
    BY <1>1, <1>4 DEF Wired, Onward
  <2> QED BY <1>3, <1>6, <2>1, <2>2 DEF Wired
<1>10. NoneLost(b)
  <2> SUFFICES ASSUME NEW s \in DOMAIN sockets', sockets'[s].of = b, sockets'[s].open, ~sockets'[s].refused, s \notin {sub, pub}
               PROVE  s \in DOMAIN sockets /\ Astray(s)
    BY <1>3 DEF NoneLost
  <2>1. s \in DOMAIN sockets
    OBVIOUS
  <2>2. sockets[s].of = b /\ sockets[s].open /\ ~sockets[s].refused
    BY <1>4, <2>1 DEF Onward
  <2> QED BY <2>1, <2>2 DEF Astray, Held, At
<1>11. At(b)' \in After
  BY <1>6 DEF After
<1> QED BY <1>5, <1>7, <1>8, <1>9, <1>10, <1>11, ListenerKeeps

\* The constructor of RespConnection: made, refused, or not tried.
LEMMA ConnectKeeps ==
    ASSUME BridgeInv, NEW b \in DOMAIN bridges, Connect(b), UNCHANGED <<current, serverThread, traffic>>
    PROVE  BridgeInv'
<1> DEFINE sub == bridges[b].subscriber
           pub == bridges[b].publisher
           n == Len(sockets)
<1>1. /\ Typed /\ Wired(b) /\ Well(sockets, traffic) /\ traffic \in Nat /\ b \in {b} /\ {b} \in SUBSET Nat
      /\ {sub, pub, listener[b].on} \subseteq {NoSocket} \cup DOMAIN sockets
      /\ Later(sockets, sockets, {}, {b}) /\ At(b) = "connect"
  BY Start DEF Connect, At
<1>2. bridges' = bridges /\ delivered' = delivered
  BY DEF Connect
<1>3. CASE ~bridges[b].running
  <2>1. GoesTo(b, "ended") /\ sockets' = sockets /\ mishaps' = mishaps
    BY <1>3 DEF Connect
  <2>2. mishaps' \in 0..MaxMishaps
    BY <1>1, <2>1 DEF Typed
  <2> QED BY <1>1, <1>2, <2>1, <2>2, GivesUp
<1>4. CASE bridges[b].running /\ Refused(b) /\ GoesTo(b, "finally")
  <2>1. mishaps' \in 0..MaxMishaps
    BY <1>1, <1>4, BridgeAssumption DEF Typed, Refused
  <2>2. CASE sockets' = sockets
    BY <1>1, <1>2, <1>4, <2>1, <2>2, GivesUp
  <2>3. CASE sockets' = Append(sockets, Socket(b, TRUE))
    <3>1. /\ Later(sockets', sockets, {}, {b}) /\ DOMAIN sockets = 1..n /\ n \in Nat
          /\ DOMAIN sockets' = 1..(n + 1) /\ sockets'[n + 1] = Socket(b, TRUE)
      BY <1>1, <2>3, LaterMade
    <3>2. \A s \in DOMAIN sockets' \ DOMAIN sockets : sockets'[s].refused
      BY <3>1 DEF Socket
    <3> QED BY <1>1, <1>2, <1>4, <2>1, <3>1, <3>2, GivesUp
  <2> QED BY <1>4, <2>2, <2>3 DEF Refused
<1>5. CASE /\ sockets' = Append(sockets, Socket(b, FALSE)) /\ mishaps' = mishaps
           /\ listener' = [listener EXCEPT ![b].at = "assign", ![b].on = Len(sockets) + 1]
  <2>1. /\ Later(sockets', sockets, {}, {b}) /\ DOMAIN sockets = 1..n /\ n \in Nat
        /\ DOMAIN sockets' = 1..(n + 1) /\ sockets'[n + 1] = Socket(b, FALSE)
        /\ \A s \in DOMAIN sockets : sockets'[s] = sockets[s]
    BY <1>1, <1>5, LaterMade
  <2> DEFINE new == n + 1
  <2>2. new \in Nat /\ new # NoSocket /\ new \in DOMAIN sockets' /\ DOMAIN sockets' \ DOMAIN sockets = {new}
    BY <2>1 DEF NoSocket
  <2>3. Moved(b, "assign", new, listener[b].got)
    BY <1>1, <1>5, <2>2, GoesOn DEF Places
  <2>4. /\ Altered(b) /\ bridges'[b].running = bridges[b].running /\ bridges'[b].publisher = pub
        /\ bridges'[b].subscriber = sub /\ sub = NoSocket
    BY <1>1, <1>2, SameBridges DEF Wired
  <2>5. mishaps' \in 0..MaxMishaps
    BY <1>1, <1>5 DEF Typed
  <2> HIDE DEF new, n
  <2>6. ListenerStep(b)
    BY <1>1, <2>1, <2>2, <2>3, <2>4, <2>5, StepsOn
  <2>7. At(b)' = "assign" /\ listener'[b].on = new /\ LineOf(b)' = {new}
    BY <2>2, <2>3, <2>4 DEF Moved, At, LineOf
  <2>8. In(sockets'[new]) = {} /\ sockets'[new].of = b
    BY <2>1 DEF Socket, In, Values, new
  <2>9. Pending(b)' = {} /\ Final(b)' = {}
    BY <2>7, <2>8 DEF Pending, Final
  <2>10. Wired(b)'
    <3>1. pub # NoSocket => sockets'[pub].of = b
      BY <1>1, <2>1 DEF Wired
    <3> QED BY <2>2, <2>4, <2>7, <2>8, <3>1 DEF Wired
  <2>11. NoneLost(b)
    <3> SUFFICES ASSUME NEW s \in DOMAIN sockets', sockets'[s].of = b, sockets'[s].open, ~sockets'[s].refused,
                        s \notin {sub, pub}, s # new
                 PROVE  s \in DOMAIN sockets /\ Astray(s)
      BY <2>4, <2>7 DEF NoneLost, At
    <3>1. s \in DOMAIN sockets
      BY <2>2
    <3> QED BY <1>1, <2>1, <3>1 DEF Astray, Held, At
  <2> QED BY <1>2, <1>3, <2>6, <2>7, <2>9, <2>10, <2>11, ListenerKeeps DEF Connect
<1> QED BY <1>3, <1>4, <1>5 DEF Connect

\* The listener sets subscriber.
LEMMA AssignKeeps ==
    ASSUME BridgeInv, NEW b \in DOMAIN bridges, Assign(b), UNCHANGED <<current, serverThread, traffic>>
    PROVE  BridgeInv'
<1> DEFINE sub == bridges[b].subscriber
           pub == bridges[b].publisher
           on == listener[b].on
<1>1. /\ Typed /\ Wired(b) /\ {sub, pub, on} \subseteq {NoSocket} \cup DOMAIN sockets
      /\ Later(sockets, sockets, {}, {b}) /\ At(b) = "assign"
  BY Start DEF Assign, At
<1>2. sub = NoSocket /\ on \in DOMAIN sockets /\ on # NoSocket /\ sockets[on].of = b
      /\ (pub # NoSocket => sockets[pub].of = b)
  BY <1>1 DEF Wired
<1>3. sockets' = sockets /\ mishaps' = mishaps /\ delivered' = delivered
      /\ bridges' = [bridges EXCEPT ![b].subscriber = on] /\ GoesTo(b, "subscribe")
  BY DEF Assign
<1>4. on \in Nat
  BY <1>1, <1>2, Lengths
<1>5. /\ Altered(b) /\ bridges'[b].running = bridges[b].running /\ bridges'[b].publisher = pub
      /\ bridges'[b].subscriber = on
  BY <1>1, <1>3, <1>4, SubscriberSet
<1>6. Moved(b, "subscribe", NoSocket, Ack)
  BY <1>1, <1>3, Goes DEF Places
<1>7. mishaps' \in 0..MaxMishaps
  BY <1>1, <1>3 DEF Typed
<1> HIDE DEF sub, pub, on
<1>8. ListenerStep(b)
  BY <1>1, <1>2, <1>3, <1>5, <1>6, <1>7, StepsOn DEF pub
<1>9. At(b)' = "subscribe" /\ listener'[b].on = NoSocket /\ LineOf(b)' = {on} /\ on \in LineOf(b)
  BY <1>2, <1>5, <1>6 DEF Moved, At, LineOf, on
<1>10. Pending(b)' \subseteq Pending(b) /\ Final(b)' = {}
  BY <1>3, <1>9 DEF Pending, Final
<1>11. Wired(b)'
  BY <1>2, <1>3, <1>5, <1>9 DEF Wired
<1>12. NoneLost(b)
  <2> SUFFICES ASSUME NEW s \in DOMAIN sockets, sockets[s].of = b, sockets[s].open, ~sockets[s].refused, s \notin {on, pub}
               PROVE  Astray(s)
    BY <1>3, <1>5 DEF NoneLost
  <2>1. s # NoSocket
    BY <1>1, Lengths DEF NoSocket
  <2> QED BY <1>2, <2>1 DEF Astray, Held, on, sub, pub
<1>13. At(b) \notin After
  BY <1>1 DEF After
<1> QED BY <1>3, <1>8, <1>10, <1>11, <1>12, <1>13, ListenerKeeps

\* The listener subscribes, and has nothing to hand over.
LEMMA SubscribeKeeps ==
    ASSUME BridgeInv, NEW b \in DOMAIN bridges, Subscribe(b), UNCHANGED <<current, serverThread, traffic>>
    PROVE  BridgeInv'
<1> DEFINE s == bridges[b].subscriber
           pub == bridges[b].publisher
           written == s # NoSocket /\ sockets[s].open /\ sockets[s].live
<1>1. /\ Typed /\ Numbered /\ Wired(b) /\ {s, pub} \subseteq {NoSocket} \cup DOMAIN sockets /\ Well(sockets, traffic)
      /\ Later(sockets, sockets, {}, {b}) /\ At(b) = "subscribe" /\ traffic \in Nat
  BY Start DEF Subscribe, At
<1>2. bridges' = bridges /\ mishaps' = mishaps /\ delivered' = delivered
  BY DEF Subscribe
<1>3. mishaps' \in 0..MaxMishaps
  BY <1>1, <1>2 DEF Typed
<1>4. CASE ~written
  <2>1. GoesTo(b, "finally") /\ sockets' = sockets
    BY <1>4 DEF Subscribe
  <2> QED BY <1>1, <1>2, <1>3, <2>1, GivesUp
<1>5. CASE written
  <2> DEFINE old == sockets[s]
             new == [old EXCEPT !.listening = TRUE, !.inbox = <<Ack>>]
  <2>1. s \in DOMAIN sockets /\ s \in Nat /\ s # NoSocket /\ old \in SocketRecord /\ old.of = b
    BY <1>1, <1>5, Lengths DEF Wired
  <2>2. listener' = [listener EXCEPT ![b].at = "acknowledge", ![b].on = s]
        /\ sockets' = [sockets EXCEPT ![s].listening = TRUE, ![s].inbox = <<Ack>>]
    BY <1>5 DEF Subscribe
  <2>3. sockets' = [sockets EXCEPT ![s] = new]
    BY <2>2
  <2>4. /\ new \in SocketRecord /\ new.of = b /\ new.inbox = <<Ack>> /\ new.open = old.open /\ new.refused = old.refused
    <3> DEFINE r == <<Ack>>
    <3>1. r \in Seq(Nat)
      BY DEF Ack
    <3>2. new = [old EXCEPT !.listening = TRUE, !.inbox = r]
      OBVIOUS
    <3> HIDE DEF r, new, old
    <3>3. /\ new \in SocketRecord /\ new.of = old.of /\ new.inbox = r /\ new.open = old.open /\ new.refused = old.refused
      BY <2>1, <3>1, <3>2 DEF SocketRecord
    <3> QED BY <2>1, <3>3 DEF r
  <2>5. In(new) = {0} /\ Increasing(new.inbox)
    BY <2>4 DEF In, Values, Increasing, Ack
  <2> HIDE DEF new, old
  <2>6. /\ sockets' \in Seq(SocketRecord) /\ DOMAIN sockets' = DOMAIN sockets /\ sockets'[s] = new
        /\ \A x \in DOMAIN sockets \ {s} : sockets'[x] = sockets[x]
    BY <2>1, <2>3, <2>4, Replaced, <1>1 DEF Typed
  <2>7. Numbered'
    <3> SUFFICES ASSUME NEW x \in DOMAIN sockets PROVE Increasing(sockets'[x].inbox) /\ In(sockets'[x]) \subseteq 0..traffic'
      BY <2>6 DEF Numbered
    <3>0. traffic' = traffic
      OBVIOUS
    <3>1. CASE x = s
      BY <1>1, <2>5, <2>6, <3>0, <3>1
    <3>2. CASE x # s
      BY <1>1, <2>6, <3>0, <3>2 DEF Numbered
    <3> QED BY <3>1, <3>2
  <2>8. Moved(b, "acknowledge", s, listener[b].got)
    BY <1>1, <2>1, <2>2, GoesOn DEF Places
  <2>9. /\ Altered(b) /\ bridges'[b].running = bridges[b].running /\ bridges'[b].publisher = pub
        /\ bridges'[b].subscriber = s
    BY <1>2, SameBridges
  <2>10. \A x \in DOMAIN sockets : sockets'[x].of = sockets[x].of
                                   /\ (sockets[x].of # b => Onward(sockets'[x], sockets[x], {}))
    <3> SUFFICES ASSUME NEW x \in DOMAIN sockets
                 PROVE  sockets'[x].of = sockets[x].of /\ (sockets[x].of # b => Onward(sockets'[x], sockets[x], {}))
      OBVIOUS
    <3>1. CASE x = s
      BY <2>1, <2>4, <2>6, <3>1 DEF old
    <3>2. CASE x # s
      BY <1>1, <2>6, <3>2 DEF Later
    <3> QED BY <3>1, <3>2
  <2> HIDE DEF s, pub
  <2>11. ListenerStep(b)
    BY <1>1, <1>3, <2>1, <2>6, <2>7, <2>8, <2>9, <2>10 DEF ListenerStep, Moved, pub
  <2>12. At(b)' = "acknowledge" /\ listener'[b].on = s /\ LineOf(b)' = {s}
    BY <2>1, <2>8, <2>9 DEF Moved, At, LineOf
  <2>13. Pending(b)' = {} /\ Final(b)' = {}
    BY <2>5, <2>6, <2>12 DEF Pending, Final
  <2>14. pub # NoSocket => sockets'[pub].of = b
    BY <1>1, <2>10 DEF Wired, pub
  <2>15. Wired(b)'
    BY <2>1, <2>4, <2>6, <2>9, <2>12, <2>14 DEF Wired
  <2>16. NoneLost(b)
    <3> SUFFICES ASSUME NEW x \in DOMAIN sockets, sockets[x].of = b, sockets[x].open, ~sockets[x].refused, x \notin {s, pub}
                 PROVE  Astray(x)
      BY <2>6, <2>9 DEF NoneLost
    <3> QED BY <1>1 DEF Astray, Held, At, s, pub
  <2>17. At(b) \notin After
    BY <1>1 DEF After
  <2> QED BY <1>2, <2>11, <2>13, <2>15, <2>16, <2>17, ListenerKeeps
<1> QED BY <1>4, <1>5

\* What reading from the connection of bridge b leaves there.
LEMMA ReadIs ==
    ASSUME BridgeInv, NEW b \in DOMAIN bridges, At(b) \in {"acknowledge", "read"}, sockets[listener[b].on].inbox # <<>>,
           sockets' = [sockets EXCEPT ![listener[b].on].inbox = Tail(@)]
    PROVE  LET on == listener[b].on
           IN  /\ on \in DOMAIN sockets /\ on # NoSocket /\ sockets[on].of = b
               /\ Later(sockets', sockets, {}, {b}) /\ DOMAIN sockets' = DOMAIN sockets
               /\ \A s \in DOMAIN sockets : /\ sockets'[s].of = sockets[s].of /\ (sockets'[s].open => sockets[s].open)
                                            /\ sockets'[s].refused = sockets[s].refused
                                            /\ In(sockets'[s]) \subseteq In(sockets[s])
                                            /\ sockets'[s].listening => sockets[s].listening
               /\ Head(sockets[on].inbox) \in In(sockets[on])
               /\ \A n \in In(sockets'[on]) : Head(sockets[on].inbox) < n
<1> DEFINE on == listener[b].on
           old == sockets[on]
           new == [old EXCEPT !.inbox = Tail(@)]
<1>1. /\ Typed /\ Numbered /\ Wired(b) /\ Well(sockets, traffic) /\ traffic \in Nat
      /\ on \in {NoSocket} \cup DOMAIN sockets
  BY Start
<1>2. on \in DOMAIN sockets /\ on # NoSocket /\ sockets[on].of = b
  BY <1>1 DEF Wired
<1>3. old \in SocketRecord /\ Increasing(old.inbox) /\ old.inbox # <<>>
  BY <1>1, <1>2, Lengths DEF Numbered
<1>4. sockets' = [sockets EXCEPT ![on] = new]
  OBVIOUS
<1> HIDE DEF old, on
<1>5. Onward(new, old, {}) /\ Head(old.inbox) \in In(old) /\ \A n \in In(new) : Head(old.inbox) < n
  BY <1>3, SocketRead
<1> HIDE DEF new
<1>6. /\ Later(sockets', sockets, {}, {b}) /\ DOMAIN sockets' = DOMAIN sockets /\ sockets'[on] = new
  <2>1. Onward(new, sockets[on], {})
    BY <1>5 DEF old
  <2>2. /\ Later([sockets EXCEPT ![on] = new], sockets, {}, {b})
        /\ DOMAIN [sockets EXCEPT ![on] = new] = DOMAIN sockets /\ [sockets EXCEPT ![on] = new][on] = new
    BY <1>1, <1>2, <2>1, LaterOne
  <2> QED BY <1>4, <2>2
<1>7. \A s \in DOMAIN sockets : Onward(sockets'[s], sockets[s], {})
  BY <1>6 DEF Later
<1>8. \A s \in DOMAIN sockets : /\ sockets'[s].of = sockets[s].of /\ (sockets'[s].open => sockets[s].open)
                                /\ sockets'[s].refused = sockets[s].refused
                                /\ In(sockets'[s]) \subseteq In(sockets[s])
                                /\ sockets'[s].listening => sockets[s].listening
  BY <1>7 DEF Onward
<1> QED BY <1>2, <1>5, <1>6, <1>8 DEF old, on

\* The acknowledgement comes before any number.
LEMMA AcknowledgedKeeps ==
    ASSUME BridgeInv, NEW b \in DOMAIN bridges, Acknowledged(b), UNCHANGED <<current, serverThread, traffic>>
    PROVE  BridgeInv'
<1> DEFINE sub == bridges[b].subscriber
           pub == bridges[b].publisher
           on == listener[b].on
<1>1. /\ Typed /\ Numbered /\ Wired(b) /\ {sub, pub, on} \subseteq {NoSocket} \cup DOMAIN sockets
      /\ Later(sockets, sockets, {}, {b}) /\ At(b) = "acknowledge"
  BY Start DEF Acknowledged, At
<1>2. mishaps' = mishaps /\ delivered' = delivered
  BY DEF Acknowledged
<1>3. mishaps' \in 0..MaxMishaps
  BY <1>1, <1>2 DEF Typed
<1>4. CASE GoesTo(b, "finally") /\ UNCHANGED <<sockets, bridges>>
  BY <1>1, <1>2, <1>3, <1>4, GivesUp
<1>5. CASE /\ sockets[on].inbox # <<>> /\ sockets' = [sockets EXCEPT ![on].inbox = Tail(@)]
           /\ bridges' = [bridges EXCEPT ![b].subscribed = TRUE] /\ GoesTo(b, "loop")
  <2>1. /\ on \in DOMAIN sockets /\ on # NoSocket /\ sockets[on].of = b
        /\ Later(sockets', sockets, {}, {b}) /\ DOMAIN sockets' = DOMAIN sockets
        /\ \A s \in DOMAIN sockets : /\ sockets'[s].of = sockets[s].of /\ (sockets'[s].open => sockets[s].open)
                                     /\ sockets'[s].refused = sockets[s].refused
                                     /\ In(sockets'[s]) \subseteq In(sockets[s])
        /\ Head(sockets[on].inbox) \in In(sockets[on])
        /\ \A n \in In(sockets'[on]) : Head(sockets[on].inbox) < n
    BY <1>1, <1>5, ReadIs
  <2>2. /\ Altered(b) /\ bridges'[b].running = bridges[b].running /\ bridges'[b].publisher = pub
        /\ bridges'[b].subscriber = sub
    BY <1>1, <1>5, SubscribedSet
  <2>3. Moved(b, "loop", NoSocket, Ack)
    BY <1>1, <1>5, Goes DEF Places
  <2>0. sub \in {NoSocket, on}
    BY <1>1 DEF Wired
  <2>4. 0 \notin In(sockets'[on])
    <3>1. Head(sockets[on].inbox) \in 0..traffic
      BY <1>1, <2>1 DEF Numbered
    <3> SUFFICES ASSUME 0 \in In(sockets'[on]) PROVE FALSE
      OBVIOUS
    <3>2. Head(sockets[on].inbox) < 0
      BY <2>1
    <3> QED BY <3>1, <3>2
  <2> HIDE DEF sub, pub, on
  <2>5. ListenerStep(b)
    BY <1>1, <1>3, <2>1, <2>2, <2>3, StepsOn DEF pub
  <2>6. At(b)' = "loop" /\ listener'[b].on = NoSocket /\ LineOf(b)' = {sub} \ {NoSocket} /\ LineOf(b)' \subseteq {on}
        /\ on \in LineOf(b)
    BY <2>0, <2>1, <2>2, <2>3 DEF Moved, At, LineOf, on
  <2>7. Pending(b)' \subseteq Pending(b) /\ Final(b)' = {}
    BY <2>1, <2>6 DEF Pending, Final
  <2>8. pub # NoSocket => sockets'[pub].of = b
    BY <1>1, <2>1 DEF Wired, pub
  <2>9. Wired(b)'
    BY <2>0, <2>1, <2>2, <2>4, <2>6, <2>8 DEF Wired
  <2>10. NoneLost(b)
    <3> SUFFICES ASSUME NEW s \in DOMAIN sockets, sockets'[s].of = b, sockets'[s].open, ~sockets'[s].refused, s \notin {sub, pub}
                 PROVE  Astray(s)
      BY <2>1, <2>2 DEF NoneLost
    <3>1. sockets[s].of = b /\ sockets[s].open /\ ~sockets[s].refused
      BY <2>1
    <3> QED BY <1>1, <3>1 DEF Astray, Held, At, sub, pub
  <2>11. At(b) \notin After
    BY <1>1 DEF After
  <2> QED BY <1>2, <2>5, <2>7, <2>9, <2>10, <2>11, ListenerKeeps
<1> QED BY <1>4, <1>5 DEF Acknowledged

\* The inner loop reads the field once.
LEMMA LoopKeeps ==
    ASSUME BridgeInv, NEW b \in DOMAIN bridges, Loop(b), UNCHANGED <<current, serverThread, traffic>>
    PROVE  BridgeInv'
<1> DEFINE sub == bridges[b].subscriber
           pub == bridges[b].publisher
<1>1. /\ Typed /\ Wired(b) /\ {sub, pub} \subseteq {NoSocket} \cup DOMAIN sockets
      /\ Later(sockets, sockets, {}, {b}) /\ At(b) = "loop"
  BY Start DEF Loop, At
<1>2. sockets' = sockets /\ bridges' = bridges /\ mishaps' = mishaps /\ delivered' = delivered
  BY DEF Loop
<1>3. mishaps' \in 0..MaxMishaps
  BY <1>1, <1>2 DEF Typed
<1>4. CASE GoesTo(b, "finally")
  BY <1>1, <1>2, <1>3, <1>4, GivesUp
<1>5. CASE bridges[b].running /\ sub # NoSocket /\ listener' = [listener EXCEPT ![b].at = "read", ![b].on = sub]
  <2>1. sub \in Nat /\ sub \in DOMAIN sockets
    BY <1>1, <1>5, Lengths
  <2>2. Moved(b, "read", sub, listener[b].got)
    BY <1>1, <1>5, <2>1, GoesOn DEF Places
  <2>3. /\ Altered(b) /\ bridges'[b].running = bridges[b].running /\ bridges'[b].publisher = pub
        /\ bridges'[b].subscriber = sub
    BY <1>2, SameBridges
  <2>4. Unclosed(b) /\ Unclosed(b)'
    BY <1>2, <1>5 DEF Unclosed
  <2>0. sub # NoSocket
    BY <1>5
  <2> HIDE DEF sub, pub
  <2>5. ListenerStep(b)
    BY <1>1, <1>2, <1>3, <2>1, <2>2, <2>3, StepsOn DEF pub
  <2>6. At(b)' = "read" /\ listener'[b].on = sub /\ LineOf(b)' = {sub} /\ sub \in LineOf(b)
    BY <2>0, <2>2, <2>3 DEF Moved, At, LineOf, sub
  <2>7. Pending(b)' \subseteq Pending(b)
    BY <1>2, <2>6 DEF Pending
  <2>8. 0 \notin In(sockets[sub])
    BY <1>1, <2>6 DEF Wired
  <2>9. \A s \in {sub, pub} \ {NoSocket} : sockets[s].of = b
    BY <1>1 DEF Wired, sub, pub
  <2>10. Wired(b)'
    BY <1>2, <2>0, <2>3, <2>4, <2>6, <2>8, <2>9 DEF Wired
  <2>11. NoneLost(b)
    <3> SUFFICES ASSUME NEW s \in DOMAIN sockets, sockets[s].of = b, sockets[s].open, ~sockets[s].refused, s \notin {sub, pub}
                 PROVE  Astray(s)
      BY <1>2, <2>3 DEF NoneLost
    <3> QED BY <1>1 DEF Astray, Held, At, sub, pub
  <2> QED BY <1>2, <1>5, <2>4, <2>5, <2>7, <2>10, <2>11, ListenerKeeps
<1> QED BY <1>4, <1>5 DEF Loop, Reads

\* A number read is what its connection had first.
LEMMA ReadKeepsBridge ==
    ASSUME BridgeInv, NEW b \in DOMAIN bridges, ReadMessage(b), UNCHANGED <<current, serverThread, traffic>>
    PROVE  BridgeInv'
<1> DEFINE sub == bridges[b].subscriber
           pub == bridges[b].publisher
           on == listener[b].on
           got == Head(sockets[on].inbox)
<1>1. /\ Typed /\ Numbered /\ Wired(b) /\ {sub, pub, on} \subseteq {NoSocket} \cup DOMAIN sockets
      /\ Later(sockets, sockets, {}, {b}) /\ At(b) = "read"
  BY Start DEF ReadMessage, At
<1>2. mishaps' = mishaps /\ delivered' = delivered /\ bridges' = bridges
  BY DEF ReadMessage
<1>3. mishaps' \in 0..MaxMishaps
  BY <1>1, <1>2 DEF Typed
<1>4. CASE GoesTo(b, "finally") /\ UNCHANGED sockets
  BY <1>1, <1>2, <1>3, <1>4, GivesUp
<1>5. CASE /\ sockets[on].inbox # <<>> /\ sockets' = [sockets EXCEPT ![on].inbox = Tail(@)]
           /\ listener' = [listener EXCEPT ![b].at = "receive", ![b].got = got]
  <2>1. /\ on \in DOMAIN sockets /\ on # NoSocket /\ sockets[on].of = b
        /\ Later(sockets', sockets, {}, {b}) /\ DOMAIN sockets' = DOMAIN sockets
        /\ \A s \in DOMAIN sockets : /\ sockets'[s].of = sockets[s].of /\ (sockets'[s].open => sockets[s].open)
                                     /\ sockets'[s].refused = sockets[s].refused
                                     /\ In(sockets'[s]) \subseteq In(sockets[s])
        /\ got \in In(sockets[on]) /\ \A n \in In(sockets'[on]) : got < n
    BY <1>1, <1>5, ReadIs
  <2>2. sub \in {NoSocket, on} /\ 0 \notin In(sockets[on])
    BY <1>1, <2>1 DEF Wired, LineOf
  <2>3. got \in 1..traffic /\ got \in Nat \ {0}
    <3>1. got \in 0..traffic /\ traffic \in Nat
      BY <1>1, <2>1 DEF Numbered, Typed
    <3>2. got # 0
      BY <2>1, <2>2
    <3> HIDE DEF got
    <3> QED BY <3>1, <3>2
  <2>4. Moved(b, "receive", on, got)
    <3> HIDE DEF got
    <3> QED BY <1>1, <1>5, <2>3, GoesWith DEF Places
  <2>5. /\ Altered(b) /\ bridges'[b].running = bridges[b].running /\ bridges'[b].publisher = pub
        /\ bridges'[b].subscriber = sub
    BY <1>2, SameBridges
  <2> HIDE DEF sub, pub, on, got
  <2>6. ListenerStep(b)
    BY <1>1, <1>3, <2>1, <2>4, <2>5, StepsOn DEF pub
  <2>7. At(b)' = "receive" /\ listener'[b].on = on /\ listener'[b].got = got /\ LineOf(b)' = {on} /\ on \in LineOf(b)
    BY <2>1, <2>2, <2>4, <2>5 DEF Moved, At, LineOf, on
  <2>8. Pending(b)' \subseteq Pending(b)
    BY <2>1, <2>3, <2>7 DEF Pending
  <2>9. Final(b)' \subseteq Final(b)
    BY <1>1, <2>1, <2>3, <2>7 DEF Final, on
  <2>10. pub # NoSocket => sockets'[pub].of = b
    BY <1>1, <2>1 DEF Wired, pub
  <2>11. 0 \notin In(sockets'[on]) /\ sockets'[on].of = b /\ traffic' = traffic
    BY <2>1, <2>2
  <2>12. Wired(b)'
    BY <2>1, <2>2, <2>3, <2>5, <2>7, <2>10, <2>11 DEF Wired
  <2>13. NoneLost(b)
    <3> SUFFICES ASSUME NEW s \in DOMAIN sockets, sockets'[s].of = b, sockets'[s].open, ~sockets'[s].refused, s \notin {sub, pub}
                 PROVE  Astray(s)
      BY <2>1, <2>5 DEF NoneLost
    <3>1. sockets[s].of = b /\ sockets[s].open /\ ~sockets[s].refused
      BY <2>1
    <3> QED BY <1>1, <3>1 DEF Astray, Held, At, sub, pub
  <2>14. At(b) \notin After
    BY <1>1 DEF After
  <2> QED BY <1>2, <2>6, <2>8, <2>9, <2>12, <2>13, <2>14, ListenerKeeps
<1> QED BY <1>4, <1>5 DEF ReadMessage

\* The finally of the loop closes the connection the field holds.
LEMMA FinallyKeeps ==
    ASSUME BridgeInv, NEW b \in DOMAIN bridges, Finally(b), UNCHANGED <<current, serverThread, traffic>>
    PROVE  BridgeInv'
<1> DEFINE sub == bridges[b].subscriber
           pub == bridges[b].publisher
<1>1. /\ Typed /\ Wired(b) /\ {sub, pub} \subseteq {NoSocket} \cup DOMAIN sockets /\ Well(sockets, traffic)
      /\ At(b) = "finally" /\ traffic \in Nat
  BY Start DEF Finally, At
<1>2. mishaps' = mishaps /\ delivered' = delivered /\ GoesTo(b, "forget")
      /\ bridges' = [bridges EXCEPT ![b].subscribed = FALSE] /\ sockets' = Closed(sockets, sub, 0)
  BY DEF Finally
<1>3. mishaps' \in 0..MaxMishaps
  BY <1>1, <1>2 DEF Typed
<1>4. /\ Altered(b) /\ bridges'[b].running = bridges[b].running /\ bridges'[b].publisher = pub
      /\ bridges'[b].subscriber = sub
  BY <1>1, <1>2, SubscribedSet
<1>5. Moved(b, "forget", NoSocket, Ack)
  BY <1>1, <1>2, Goes DEF Places
<1> HIDE DEF sub, pub
<1>6. sub # NoSocket => Len(sockets[sub].inbox) \in Nat
  BY <1>1, Lengths, LenProperties DEF SocketRecord
<1>7. /\ Later(sockets', sockets, {}, {b}) /\ DOMAIN sockets' = DOMAIN sockets
      /\ sub # NoSocket => ~sockets'[sub].open /\ In(sockets'[sub]) = {}
  <2>1. sub \in {NoSocket} \cup DOMAIN sockets /\ 0 \in Nat /\ (sub # NoSocket => 0 <= Len(sockets[sub].inbox))
    BY <1>1, <1>6
  <2> QED BY <1>1, <1>2, <2>1, LaterClosed
<1>8. \A s \in DOMAIN sockets : Onward(sockets'[s], sockets[s], {})
  BY <1>7 DEF Later
<1>9. ListenerStep(b)
  BY <1>1, <1>2, <1>3, <1>4, <1>5, <1>7, StepsOn DEF pub
<1>10. At(b)' = "forget" /\ listener'[b].on = NoSocket /\ LineOf(b)' = {sub} \ {NoSocket}
  BY <1>4, <1>5 DEF Moved, At, LineOf
<1>11. Pending(b)' = {} /\ Final(b)' = {}
  BY <1>7, <1>10 DEF Pending, Final
<1>12. \A s \in {sub, pub} \ {NoSocket} : sockets'[s].of = b
  BY <1>1, <1>8 DEF Wired, Onward, sub, pub
<1>13. Wired(b)'
  BY <1>4, <1>7, <1>10, <1>12 DEF Wired
<1>14. NoneLost(b)
  <2> SUFFICES ASSUME NEW s \in DOMAIN sockets, sockets'[s].of = b, sockets'[s].open, ~sockets'[s].refused, s \notin {sub, pub}
               PROVE  Astray(s)
    BY <1>4, <1>7 DEF NoneLost
  <2>1. sockets[s].of = b /\ sockets[s].open /\ ~sockets[s].refused
    BY <1>8 DEF Onward
  <2> QED BY <1>1, <2>1 DEF Astray, Held, At, sub, pub
<1>15. At(b)' \in After
  BY <1>10 DEF After
<1> QED BY <1>2, <1>9, <1>11, <1>13, <1>14, <1>15, ListenerKeeps

\* What is forgotten was closed.
LEMMA ForgetKeeps ==
    ASSUME BridgeInv, NEW b \in DOMAIN bridges, Forget(b), UNCHANGED <<current, serverThread, traffic>>
    PROVE  BridgeInv'
<1> DEFINE sub == bridges[b].subscriber
           pub == bridges[b].publisher
<1>1. /\ Typed /\ Wired(b) /\ {sub, pub} \subseteq {NoSocket} \cup DOMAIN sockets
      /\ Later(sockets, sockets, {}, {b}) /\ At(b) = "forget"
  BY Start DEF Forget, At
<1>2. mishaps' = mishaps /\ delivered' = delivered /\ GoesTo(b, "connect") /\ sockets' = sockets
      /\ bridges' = [bridges EXCEPT ![b].subscriber = NoSocket]
  BY DEF Forget
<1>3. mishaps' \in 0..MaxMishaps
  BY <1>1, <1>2 DEF Typed
<1>4. /\ Altered(b) /\ bridges'[b].running = bridges[b].running /\ bridges'[b].publisher = pub
      /\ bridges'[b].subscriber = NoSocket
  BY <1>1, <1>2, SubscriberSet DEF NoSocket
<1>5. Moved(b, "connect", NoSocket, Ack)
  BY <1>1, <1>2, Goes DEF Places
<1> HIDE DEF sub, pub
<1>6. ListenerStep(b)
  BY <1>1, <1>2, <1>3, <1>4, <1>5, StepsOn DEF pub
<1>7. At(b)' = "connect" /\ listener'[b].on = NoSocket /\ LineOf(b)' = {}
  BY <1>4, <1>5 DEF Moved, At, LineOf
<1>8. Pending(b)' = {} /\ Final(b)' = {}
  BY <1>7 DEF Pending, Final
<1>9. pub # NoSocket => sockets'[pub].of = b
  BY <1>1, <1>2 DEF Wired, pub
<1>10. Wired(b)'
  BY <1>4, <1>7, <1>9 DEF Wired
<1>11. NoneLost(b)
  <2> SUFFICES ASSUME NEW s \in DOMAIN sockets, sockets[s].of = b, sockets[s].open, ~sockets[s].refused, s # pub
               PROVE  Astray(s)
    BY <1>2, <1>4 DEF NoneLost
  <2>1. s # NoSocket
    BY <1>1, Lengths DEF NoSocket
  <2>2. s # sub
    BY <1>1, <2>1 DEF Wired, sub
  <2> QED BY <1>1, <2>2 DEF Astray, Held, At, sub, pub
<1>12. At(b)' \in After
  BY <1>7 DEF After
<1> QED BY <1>2, <1>6, <1>8, <1>10, <1>11, <1>12, ListenerKeeps

\* What is handed over comes before all its bridge may still hand over, and after
\* all that was: but behind what a later bridge has handed over.
Handed(d, e, last, final, pending, final2, pending2, top) ==
  /\ d \in Seq(Delivery) /\ last \in Nat /\ top \in Nat
  /\ e.by \in 1..last /\ e.number \in 1..top /\ e.number \in final[e.by] /\ e.number \in pending[e.by]
  /\ \A b \in 1..last : pending2[b] \subseteq pending[b] /\ final2[b] \subseteq final[b]
  /\ \A n \in pending2[e.by] : e.number < n
  /\ e.late \/ e.by = last

\* Handing it over keeps the turns.
LEMMA TurnsHanded ==
    ASSUME NEW d, NEW e \in Delivery, NEW last, NEW final, NEW pending, NEW final2, NEW pending2, NEW top,
           Handed(d, e, last, final, pending, final2, pending2, top), Turns(d, last, final, pending, top)
    PROVE  Turns(Append(d, e), last, final2, pending2, top)
<1> DEFINE new == Append(d, e)
           size == Len(d)
<1>0. /\ d \in Seq(Delivery) /\ last \in Nat /\ top \in Nat
      /\ e.by \in 1..last /\ e.number \in 1..top /\ e.number \in final[e.by] /\ e.number \in pending[e.by]
      /\ \A b \in 1..last : pending2[b] \subseteq pending[b] /\ final2[b] \subseteq final[b]
      /\ \A n \in pending2[e.by] : e.number < n
      /\ e.late \/ e.by = last
  BY DEF Handed
<1>1. DOMAIN d = 1..size /\ size \in Nat
  BY <1>0, LenProperties
<1>2. new \in Seq(Delivery) /\ Len(new) = size + 1 /\ new[size + 1] = e /\ \A i \in 1..size : new[i] = d[i]
  BY <1>0, AppendProperties
<1>3. DOMAIN new = 1..(size + 1)
  BY <1>2, LenProperties
<1> HIDE DEF new, size
<1>4. \A i \in DOMAIN new : (i \in DOMAIN d /\ new[i] = d[i] /\ i <= size) \/ (i = size + 1 /\ new[i] = e)
  BY <1>1, <1>2, <1>3
<1>5. /\ \A i \in DOMAIN d : d[i].by \in 1..last /\ d[i].number \in 1..top
      /\ \A i \in DOMAIN d : \A n \in pending[d[i].by] : d[i].number < n
      /\ \A b, c \in 1..last : b < c => \A m \in final[b], n \in pending[c] : m < n
      /\ \A i \in DOMAIN d : \A b \in 1..last :
           /\ b > d[i].by => \A n \in pending[b] : d[i].number < n
           /\ b < d[i].by => \A m \in final[b] : m < d[i].number
      /\ \A i, j \in DOMAIN d : i < j =>
           /\ d[i].by <= d[j].by => d[i].number < d[j].number
           /\ d[i].by > d[j].by => d[i].number > d[j].number /\ d[j].late
  BY DEF Turns
<1>6. \A i \in DOMAIN new : new[i].by \in 1..last /\ new[i].number \in 1..top
  BY <1>0, <1>4, <1>5
<1>7. \A i \in DOMAIN new : \A n \in pending2[new[i].by] : new[i].number < n
  <2> SUFFICES ASSUME NEW i \in DOMAIN new, NEW n \in pending2[new[i].by] PROVE new[i].number < n
    OBVIOUS
  <2>1. CASE i \in DOMAIN d /\ new[i] = d[i]
    <3>1. d[i].by \in 1..last
      BY <1>5, <2>1
    <3>2. n \in pending[d[i].by]
      BY <1>0, <2>1, <3>1
    <3> QED BY <1>5, <2>1, <3>2
  <2>2. CASE new[i] = e
    BY <1>0, <2>2
  <2> QED BY <1>4, <2>1, <2>2
<1>8. \A b, c \in 1..last : b < c => \A m \in final2[b], n \in pending2[c] : m < n
  BY <1>0, <1>5
<1>9. ASSUME NEW i \in DOMAIN new, NEW b \in 1..last
      PROVE  /\ b > new[i].by => \A n \in pending2[b] : new[i].number < n
             /\ b < new[i].by => \A m \in final2[b] : m < new[i].number
  <2>1. CASE i \in DOMAIN d /\ new[i] = d[i]
    BY <1>0, <1>5, <2>1
  <2>2. CASE new[i] = e
    <3>1. ASSUME b > e.by, NEW n \in pending2[b] PROVE e.number < n
      <4>1. e.by < b /\ n \in pending[b]
        BY <1>0, <3>1
      <4> QED BY <1>0, <1>5, <4>1
    <3>2. ASSUME b < e.by, NEW m \in final2[b] PROVE m < e.number
      BY <1>0, <1>5, <3>2
    <3> QED BY <2>2, <3>1, <3>2
  <2> QED BY <1>4, <2>1, <2>2
<1>10. ASSUME NEW i \in DOMAIN new, NEW j \in DOMAIN new, i < j
       PROVE  /\ new[i].by <= new[j].by => new[i].number < new[j].number
              /\ new[i].by > new[j].by => new[i].number > new[j].number /\ new[j].late
  <2>1. i \in DOMAIN d /\ new[i] = d[i]
    BY <1>1, <1>3, <1>4, <1>10
  <2>2. CASE j \in DOMAIN d /\ new[j] = d[j]
    BY <1>5, <1>10, <2>1, <2>2
  <2>3. CASE new[j] = e
    <3> DEFINE f == d[i]
    <3>1. f.by \in 1..last /\ f.number \in 1..top
      BY <1>5, <2>1
    <3>2. f.by = e.by => f.number < e.number
      BY <1>0, <1>5, <2>1
    <3>3. f.by < e.by => f.number < e.number
      <4>1. f.by < e.by => e.by > f.by
        BY <1>0, <3>1
      <4> QED BY <1>0, <1>5, <2>1, <4>1
    <3>4. f.by > e.by => e.number < f.number /\ e.late
      <4>1. f.by > e.by => e.by < f.by /\ e.by # last
        BY <1>0, <3>1
      <4> QED BY <1>0, <1>5, <2>1, <4>1
    <3> HIDE DEF f
    <3>5. /\ f.by <= e.by => f.number < e.number
          /\ f.by > e.by => f.number > e.number /\ e.late
      <4>1. f.by \in Int /\ e.by \in Int /\ f.number \in Int /\ e.number \in Int
        BY <1>0, <3>1
      <4> QED BY <3>2, <3>3, <3>4, <4>1
    <3> QED BY <2>1, <2>3, <3>5 DEF f
  <2> QED BY <1>4, <2>2, <2>3
<1> QED BY <1>6, <1>7, <1>8, <1>9, <1>10 DEF Turns, new

\* receive: the number is handed to the server thread.
LEMMA ReceiveKeeps ==
    ASSUME BridgeInv, NEW b \in DOMAIN bridges, Receive(b), UNCHANGED <<current, serverThread, traffic>>
    PROVE  BridgeInv'
<1> DEFINE sub == bridges[b].subscriber
           pub == bridges[b].publisher
           on == listener[b].on
           got == listener[b].got
           e == [number |-> got, by |-> b, late |-> ~bridges[b].running]
<1>1. /\ Typed /\ Numbered /\ Wired(b) /\ {sub, pub, on} \subseteq {NoSocket} \cup DOMAIN sockets
      /\ Later(sockets, sockets, {}, {b}) /\ At(b) = "receive" /\ traffic \in Nat
  BY Start DEF Receive, At
<1>2. mishaps' = mishaps /\ sockets' = sockets /\ bridges' = bridges /\ GoesTo(b, "loop")
      /\ delivered' = Append(delivered, e)
  BY DEF Receive
<1>3. mishaps' \in 0..MaxMishaps
  BY <1>1, <1>2 DEF Typed
<1>4. /\ Altered(b) /\ bridges'[b].running = bridges[b].running /\ bridges'[b].publisher = pub
      /\ bridges'[b].subscriber = sub
  BY <1>2, SameBridges
<1>5. Moved(b, "loop", NoSocket, Ack)
  BY <1>1, <1>2, Goes DEF Places
<1>6. /\ DOMAIN bridges = 1..Len(bridges) /\ Len(bridges) \in Nat /\ b \in 1..Len(bridges)
      /\ bridges[b].running \in BOOLEAN
  BY <1>1, Lengths DEF BridgeRecord
<1>7. got \in 1..traffic /\ got \in Nat \ {0} /\ \A s \in LineOf(b) : \A n \in In(sockets[s]) : got < n
  <2>1. got \in 1..traffic /\ \A s \in LineOf(b) : \A n \in In(sockets[s]) : got < n
    BY <1>1 DEF Wired
  <2> HIDE DEF got
  <2> QED BY <1>1, <2>1
<1> HIDE DEF sub, pub, on, got
<1>8. e \in Delivery /\ e.by = b /\ e.number = got /\ e.late = ~bridges[b].running
  BY <1>6, <1>7 DEF Delivery
<1> HIDE DEF e
<1>9. ListenerStep(b)
  BY <1>1, <1>2, <1>3, <1>4, <1>5, StepsOn DEF pub
<1>10. At(b)' = "loop" /\ listener'[b].on = NoSocket /\ LineOf(b)' = {sub} \ {NoSocket} /\ LineOf(b)' \subseteq LineOf(b)
  BY <1>4, <1>5 DEF Moved, At, LineOf, sub
<1>11. /\ Pending(b)' \subseteq Pending(b) /\ Final(b)' = {} /\ got \in Pending(b) /\ got \in Final(b)
       /\ \A n \in Pending(b)' : got < n
  BY <1>1, <1>2, <1>7, <1>10 DEF Pending, Final, got
<1>12. Wired(b)'
  <2>1. \A s \in {sub, pub} \ {NoSocket} : sockets[s].of = b
    BY <1>1 DEF Wired, sub, pub
  <2>2. \A s \in LineOf(b) : 0 \notin In(sockets[s])
    BY <1>1 DEF Wired
  <2> QED BY <1>2, <1>4, <1>10, <2>1, <2>2 DEF Wired
<1>13. NoneLost(b)
  <2> SUFFICES ASSUME NEW s \in DOMAIN sockets, sockets[s].of = b, sockets[s].open, ~sockets[s].refused, s \notin {sub, pub}
               PROVE  Astray(s)
    BY <1>2, <1>4 DEF NoneLost
  <2> QED BY <1>1 DEF Astray, Held, At, sub, pub
<1>14. /\ Numbered' /\ Server' /\ (delivered' \in Seq(Delivery) => Typed')
       /\ \A c \in DOMAIN bridges \ {b} :
            /\ Wired(c)' /\ Pending(c)' \subseteq Pending(c)
            /\ ~Unclosed(c) => Final(c)' \subseteq Final(c)
       /\ DOMAIN bridges' = DOMAIN bridges
  BY <1>9, OthersAside
<1>15. delivered \in Seq(Delivery) /\ DOMAIN delivered = 1..Len(delivered) /\ Len(delivered) \in Nat
  BY <1>1, LenProperties DEF Typed
<1>16. /\ delivered' \in Seq(Delivery) /\ DOMAIN delivered' = 1..(Len(delivered) + 1)
       /\ delivered'[Len(delivered) + 1] = e /\ \A i \in DOMAIN delivered : delivered'[i] = delivered[i]
  <2>1. /\ delivered' \in Seq(Delivery) /\ Len(delivered') = Len(delivered) + 1
        /\ delivered'[Len(delivered) + 1] = e /\ \A i \in 1..Len(delivered) : delivered'[i] = delivered[i]
    BY <1>2, <1>8, <1>15, AppendProperties
  <2>2. DOMAIN delivered' = 1..(Len(delivered) + 1)
    BY <2>1, LenProperties
  <2> QED BY <1>15, <2>1, <2>2
<1>17. InTurn'
  <2> DEFINE last == Len(bridges)
             final == [c \in 1..last |-> Final(c)]
             pending == [c \in 1..last |-> Pending(c)]
             final2 == [c \in 1..last |-> Final(c)']
             pending2 == [c \in 1..last |-> Pending(c)']
  <2>1. Turns(delivered, last, final, pending, traffic)
    BY DEF BridgeInv, InTurn
  <2>2. ASSUME NEW c \in 1..last PROVE pending2[c] \subseteq pending[c] /\ final2[c] \subseteq final[c]
    <3>1. final[c] = Final(c) /\ pending[c] = Pending(c) /\ final2[c] = Final(c)' /\ pending2[c] = Pending(c)'
      OBVIOUS
    <3> HIDE DEF final, pending, final2, pending2
    <3>2. CASE c = b
      BY <1>11, <3>1, <3>2
    <3>3. CASE c # b
      <4>1. listener'[c] = listener[c] /\ sockets' = sockets
        BY <1>2, <1>6, <3>3, <1>9 DEF ListenerStep
      <4>2. Final(c)' = Final(c)
        BY <4>1 DEF Final, At
      <4> QED BY <1>6, <1>14, <3>1, <3>3, <4>2
    <3> QED BY <3>2, <3>3
  <2>3. e.number \in final[e.by] /\ e.number \in pending[e.by] /\ \A n \in pending2[e.by] : e.number < n
    BY <1>6, <1>8, <1>11
  <2>4. e.late \/ e.by = last
    <3> SUFFICES ASSUME bridges[b].running PROVE b = last
      BY <1>8
    <3>1. b = current /\ b # 0
      BY <1>6 DEF BridgeInv, Server
    <3> QED BY <3>1 DEF BridgeInv, Server, NoBridge
  <2> HIDE DEF last, final, pending, final2, pending2
  <2>5. e.by \in 1..last /\ e.number \in 1..traffic /\ last \in Nat
    BY <1>6, <1>7, <1>8 DEF last
  <2>6. Handed(delivered, e, last, final, pending, final2, pending2, traffic)
    BY <1>1, <1>15, <2>2, <2>3, <2>4, <2>5, Zenon DEF Handed
  <2>7. Turns(Append(delivered, e), last, final2, pending2, traffic)
    BY <1>8, <2>1, <2>6, TurnsHanded, Zenon
  <2> QED BY <1>2, <2>7 DEF InTurn, last, final2, pending2
<1>18. Lateness'
  <2>1. \A i \in DOMAIN delivered : delivered[i].by \in DOMAIN bridges
    BY <1>6 DEF BridgeInv, InTurn, Turns
  <2>2. \A i \in DOMAIN delivered : delivered[i].late =>
          ~bridges[delivered[i].by].running /\ At(delivered[i].by) \in After /\ delivered[i].by # b
    BY <1>1 DEF BridgeInv, Lateness, After
  <2>3. \A i \in DOMAIN delivered' : i \in DOMAIN delivered \/ i = Len(delivered) + 1
    BY <1>15, <1>16
  <2>4. \A c \in DOMAIN bridges \ {b} : listener'[c] = listener[c]
    BY <1>9 DEF ListenerStep
  <2>5. \A i \in DOMAIN delivered' : delivered'[i].late => ~bridges'[delivered'[i].by].running /\ listener'[delivered'[i].by].at \in After
    <3> SUFFICES ASSUME NEW i \in DOMAIN delivered', delivered'[i].late
                 PROVE  ~bridges[delivered'[i].by].running /\ listener'[delivered'[i].by].at \in After
      BY <1>2 DEF At
    <3>1. CASE i \in DOMAIN delivered
      BY <1>16, <2>1, <2>2, <2>4, <3>1 DEF At
    <3>2. CASE i = Len(delivered) + 1
      <4>1. delivered'[i].by = b /\ ~bridges[b].running /\ listener'[b].at = "loop"
        BY <1>8, <1>10, <1>16, <3>2 DEF At
      <4> QED BY <4>1 DEF After
    <3> QED BY <2>3, <3>1, <3>2
  <2>6. \A i, j \in DOMAIN delivered' :
          delivered'[i].late /\ delivered'[j].late /\ delivered'[i].by = delivered'[j].by => i = j
    <3> SUFFICES ASSUME NEW i \in DOMAIN delivered', NEW j \in DOMAIN delivered',
                        delivered'[i].late, delivered'[j].late, delivered'[i].by = delivered'[j].by
                 PROVE  i = j
      OBVIOUS
    <3>1. CASE i \in DOMAIN delivered /\ j \in DOMAIN delivered
      BY <1>16, <3>1 DEF BridgeInv, Lateness
    <3>2. CASE i \in DOMAIN delivered /\ j = Len(delivered) + 1
      BY <1>8, <1>16, <2>2, <3>2
    <3>3. CASE i = Len(delivered) + 1 /\ j \in DOMAIN delivered
      BY <1>8, <1>16, <2>2, <3>3
    <3> QED BY <2>3, <3>1, <3>2, <3>3
  <2> QED BY <2>5, <2>6 DEF Lateness, At
<1>19. Leaks'
  BY <1>9, <1>13, NoneAstray
<1>20. \A c \in DOMAIN bridges' : Wired(c)'
  <2> SUFFICES ASSUME NEW c \in DOMAIN bridges PROVE Wired(c)'
    BY <1>14
  <2> QED BY <1>12, <1>14
<1> QED BY <1>14, <1>16, <1>17, <1>18, <1>19, <1>20 DEF BridgeInv

\* A step of the server thread or of Redis, which moves no listener.
ServerStep(t) ==
  /\ t \in SUBSET Nat /\ \A n \in t : n > traffic /\ n <= traffic'
  /\ traffic' \in Nat /\ traffic' >= traffic
  /\ Later(sockets', sockets, t, {current})
  /\ DOMAIN sockets' # DOMAIN sockets => current # NoBridge
  /\ bridges' \in Seq(BridgeRecord) /\ Len(bridges') \in {Len(bridges), Len(bridges) + 1}
  /\ listener' \in Seq(ListenerRecord) /\ Len(listener') = Len(bridges')
  /\ delivered' = delivered /\ mishaps' \in 0..MaxMishaps
  /\ \A c \in DOMAIN bridges : Aside(c) /\ bridges'[c].publisher \in {NoSocket} \cup DOMAIN sockets'
  /\ \A c \in DOMAIN bridges' \ DOMAIN bridges : bridges'[c] = Bridge /\ listener'[c] = Listener

\* Such a step keeps the invariant if it keeps the leaks and the fields of the server thread.
LEMMA ServerKeeps ==
    ASSUME BridgeInv, NEW t, ServerStep(t), Server', Leaks'
    PROVE  BridgeInv'
<1>1. /\ Typed /\ Numbered /\ Server /\ Well(sockets, traffic) /\ traffic \in Nat
      /\ \A c \in DOMAIN bridges : Wired(c)
  BY DEF BridgeInv, Typed, Numbered, Well
<1>2. /\ t \in SUBSET Nat /\ \A n \in t : n > traffic /\ n <= traffic'
      /\ traffic' \in Nat /\ traffic' >= traffic
      /\ Later(sockets', sockets, t, {current})
      /\ bridges' \in Seq(BridgeRecord) /\ Len(bridges') \in {Len(bridges), Len(bridges) + 1}
      /\ listener' \in Seq(ListenerRecord) /\ Len(listener') = Len(bridges')
      /\ delivered' = delivered /\ mishaps' \in 0..MaxMishaps
      /\ \A c \in DOMAIN bridges : Aside(c) /\ bridges'[c].publisher \in {NoSocket} \cup DOMAIN sockets'
      /\ \A c \in DOMAIN bridges' \ DOMAIN bridges : bridges'[c] = Bridge /\ listener'[c] = Listener
  BY DEF ServerStep
<1>3. /\ DOMAIN sockets \subseteq DOMAIN sockets' /\ sockets' \in Seq(SocketRecord)
      /\ \A s \in DOMAIN sockets : Onward(sockets'[s], sockets[s], t)
      /\ \A s \in DOMAIN sockets' \ DOMAIN sockets : sockets'[s].of = current
  BY <1>2 DEF Later
<1>4. DOMAIN bridges \subseteq DOMAIN bridges'
  <2>1. DOMAIN bridges = 1..Len(bridges) /\ Len(bridges) \in Nat /\ DOMAIN bridges' = 1..Len(bridges')
    BY <1>1, <1>2, Lengths, LenProperties
  <2> QED BY <1>2, <2>1
<1>5. Numbered'
  <2>1. t \subseteq 0..traffic'
    BY <1>2
  <2>2. Well(sockets', traffic')
    BY <1>1, <1>2, <2>1, LaterIsWell
  <2> QED BY <2>2 DEF Well, Numbered
<1>6. Typed'
  <2>1. ASSUME NEW c \in DOMAIN bridges'
        PROVE  {bridges'[c].subscriber, bridges'[c].publisher, listener'[c].on} \subseteq {NoSocket} \cup DOMAIN sockets'
    <3>1. CASE c \in DOMAIN bridges
      <4>1. {bridges[c].subscriber, listener[c].on} \subseteq {NoSocket} \cup DOMAIN sockets
        BY <1>1, <3>1 DEF Typed
      <4>2. bridges'[c].subscriber \in {bridges[c].subscriber, NoSocket} /\ listener'[c] = listener[c]
        BY <1>2, <3>1 DEF Aside
      <4> QED BY <1>2, <1>3, <3>1, <4>1, <4>2
    <3>2. CASE c \notin DOMAIN bridges
      BY <1>2, <2>1, <3>2 DEF Bridge, Listener
    <3> QED BY <3>1, <3>2
  <2>2. ASSUME NEW s \in DOMAIN sockets' PROVE sockets'[s].of \in DOMAIN bridges'
    <3>1. CASE s \in DOMAIN sockets
      BY <1>1, <1>3, <1>4, <3>1 DEF Typed, Onward
    <3>2. CASE s \notin DOMAIN sockets
      BY <1>1, <1>3, <1>4, <3>2, CurrentIs DEF ServerStep
    <3> QED BY <3>1, <3>2
  <2> QED BY <1>1, <1>2, <1>3, <2>1, <2>2 DEF Typed
<1>7. ASSUME NEW c \in DOMAIN bridges
      PROVE  /\ Wired(c)' /\ Pending(c)' \subseteq Pending(c) \cup t
             /\ ~Unclosed(c) => Final(c)' \subseteq Final(c)
  <2>1. Advances(c, t)
    BY <1>3 DEF Advances
  <2>2. \A n \in t : n > traffic
    BY <1>2
  <2> QED BY <1>1, <1>2, <2>1, <2>2, AsideKeeps
<1>8. ASSUME NEW c \in DOMAIN bridges' \ DOMAIN bridges PROVE Wired(c)' /\ Pending(c)' = {}
  <2>1. /\ bridges'[c].subscriber = NoSocket /\ bridges'[c].publisher = NoSocket
        /\ listener'[c].on = NoSocket /\ listener'[c].at = "connect"
    BY <1>2, <1>8 DEF Bridge, Listener
  <2>2. LineOf(c)' = {} /\ At(c)' = "connect"
    BY <2>1 DEF LineOf, At
  <2> QED BY <2>1, <2>2 DEF Wired, Pending
<1>9. \A c \in DOMAIN bridges' : Wired(c)'
  BY <1>7, <1>8
<1>10. InTurn'
  <2>1. \A n \in t : n > traffic
    BY <1>2
  <2>2. \A c \in DOMAIN bridges : Pending(c)' \subseteq Pending(c) \cup t /\ (~Unclosed(c) => Final(c)' \subseteq Final(c))
    BY <1>7
  <2>3. \A c \in DOMAIN bridges' \ DOMAIN bridges : Pending(c)' = {}
    BY <1>8
  <2> QED BY <1>2, <2>1, <2>2, <2>3, InTurnKept
<1>11. Lateness'
  <2>1. \A c \in DOMAIN bridges : /\ bridges'[c].running => bridges[c].running
                                  /\ ~bridges[c].running /\ At(c) \in After => At(c)' \in After
    BY <1>2 DEF Aside, At
  <2> QED BY <1>2, <2>1, LatenessKept
<1> QED BY <1>5, <1>6, <1>9, <1>10, <1>11 DEF BridgeInv

\* Steps that leave the fields alone.
LEMMA TrafficKeeps ==
    ASSUME BridgeInv, NEW t \in SUBSET Nat, \A n \in t : n > traffic /\ n <= traffic', traffic' \in Nat, traffic' >= traffic,
           Later(sockets', sockets, t, {}), mishaps' \in 0..MaxMishaps,
           UNCHANGED <<bridges, listener, current, serverThread, delivered>>
    PROVE  BridgeInv'
<1>1. Typed /\ Server /\ \A c \in DOMAIN bridges : Wired(c)
  BY DEF BridgeInv
<1>2. DOMAIN sockets' = DOMAIN sockets /\ \A s \in DOMAIN sockets : Onward(sockets'[s], sockets[s], t)
  BY DEF Later
<1>3. Server'
  BY <1>1 DEF Server
<1>4. \A c \in DOMAIN bridges : /\ Unclosed(c)' <=> Unclosed(c)
                                /\ bridges[c].publisher \in {NoSocket} \cup DOMAIN sockets
                                /\ bridges[c].publisher # NoSocket => sockets[bridges[c].publisher].of = c
  BY <1>1 DEF Unclosed, Typed, Wired
<1>5. \A c \in DOMAIN bridges : Aside(c) /\ bridges'[c].publisher \in {NoSocket} \cup DOMAIN sockets'
  BY <1>2, <1>4 DEF Aside, Onward
<1>6. Later(sockets', sockets, t, {current})
  BY DEF Later
<1>7. ServerStep(t)
  BY <1>1, <1>2, <1>5, <1>6 DEF ServerStep, Typed
<1>8. \A s \in DOMAIN sockets' : Astray(s)' => s \in DOMAIN sockets /\ Astray(s)
  <2> SUFFICES ASSUME NEW s \in DOMAIN sockets, Astray(s)' PROVE Astray(s)
    BY <1>2
  <2>1. /\ sockets'[s].of = sockets[s].of /\ (sockets'[s].open => sockets[s].open)
        /\ sockets'[s].refused = sockets[s].refused
    BY <1>2 DEF Onward
  <2> QED BY <2>1 DEF Astray, Held
<1>9. \A s \in DOMAIN sockets : sockets'[s].of = sockets[s].of
  BY <1>2 DEF Onward
<1>10. Leaks'
  BY <1>8, <1>9, LeaksKept
<1> QED BY <1>3, <1>7, <1>10, ServerKeeps

\* A connection breaks.
LEMMA BreaksKeeps ==
    ASSUME BridgeInv, NEW s \in DOMAIN sockets, Breaks(s)
    PROVE  BridgeInv'
<1>1. Typed /\ Numbered /\ Well(sockets, traffic) /\ traffic \in Nat /\ mishaps' \in 0..MaxMishaps
  <2>1. Typed /\ Numbered /\ mishaps' = mishaps + 1 /\ mishaps < MaxMishaps
    BY DEF BridgeInv, Breaks
  <2> QED BY <2>1, BridgeAssumption DEF Typed, Numbered, Well
<1>2. s # NoSocket /\ sockets[s] \in SocketRecord /\ Increasing(sockets[s].inbox)
  BY <1>1, Lengths DEF Numbered, NoSocket
<1>3. PICK k \in 0..Len(sockets[s].inbox) : sockets' = [sockets EXCEPT ![s] = Cut(sockets[s], k)]
  BY <1>2 DEF Breaks, Buffered
<1>4. Onward(Cut(sockets[s], k), sockets[s], {})
  BY <1>2, SocketCut
<1> DEFINE cut == Cut(sockets[s], k)
<1> HIDE DEF cut
<1>5. Onward(cut, sockets[s], {}) /\ sockets' = [sockets EXCEPT ![s] = cut]
  BY <1>3, <1>4 DEF cut
<1>6. Later([sockets EXCEPT ![s] = cut], sockets, {}, {})
  BY <1>1, <1>5, LaterOne
<1> DEFINE t == {}
<1>7. t \in SUBSET Nat /\ \A n \in t : n > traffic /\ n <= traffic'
  OBVIOUS
<1>8. Later(sockets', sockets, t, {}) /\ traffic' = traffic /\ UNCHANGED <<bridges, listener, current, serverThread, delivered>>
  BY <1>5, <1>6 DEF Breaks
<1> HIDE DEF t
<1> QED BY <1>1, <1>7, <1>8, TrafficKeeps

\* Somebody else publishes.
LEMMA PublishElsewhereKeeps ==
    ASSUME BridgeInv, PublishElsewhere
    PROVE  BridgeInv'
<1>1. Typed /\ Well(sockets, traffic) /\ traffic \in Nat /\ mishaps' \in 0..MaxMishaps
  BY DEF BridgeInv, Typed, Numbered, Well, PublishElsewhere
<1> DEFINE t == {traffic + 1}
           none == {}
<1>2. t \in SUBSET Nat /\ \A n \in t : n > traffic /\ n <= traffic'
  BY <1>1 DEF PublishElsewhere
<1>3. traffic' \in Nat /\ traffic' >= traffic /\ UNCHANGED <<bridges, listener, current, serverThread, delivered>>
  BY <1>1 DEF PublishElsewhere
<1>4. Later(Pushed(sockets), sockets, t, none) /\ sockets' = Pushed(sockets)
  BY <1>1, LaterPushed DEF PublishElsewhere
<1> HIDE DEF t
<1> QED BY <1>1, <1>2, <1>3, <1>4, TrafficKeeps

\* A publication by the bridge in use: the connection it used or made for it is
\* kept, or closed, or was refused.
LEMMA PublisherKeeps ==
    ASSUME BridgeInv, serverThread = "free", NEW t \in SUBSET Nat, \A n \in t : n > traffic /\ n <= traffic',
           traffic' \in Nat, traffic' >= traffic, Later(sockets', sockets, t, {current}), mishaps' \in 0..MaxMishaps,
           Altered(current), bridges'[current].running = bridges[current].running,
           bridges'[current].subscriber = bridges[current].subscriber,
           NEW p \in {NoSocket} \cup DOMAIN sockets', bridges'[current].publisher = p,
           p # NoSocket => sockets'[p].of = current,
           \A s \in DOMAIN sockets' : (s \notin DOMAIN sockets \/ s = bridges[current].publisher) /\ s # p =>
             ~sockets'[s].open \/ sockets'[s].refused,
           UNCHANGED <<listener, current, serverThread, delivered>>
    PROVE  BridgeInv'
<1>1. Typed /\ Server /\ (\A c \in DOMAIN bridges : Wired(c)) /\ current # NoBridge /\ current \in DOMAIN bridges
  <2>1. Typed /\ Server /\ (\A c \in DOMAIN bridges : Wired(c)) /\ current # NoBridge
    BY DEF BridgeInv, Server
  <2> QED BY <2>1, CurrentIs
<1>2. /\ bridges' \in Seq(BridgeRecord) /\ Len(bridges') = Len(bridges) /\ DOMAIN bridges' = DOMAIN bridges
      /\ \A c \in DOMAIN bridges \ {current} : bridges'[c] = bridges[c]
  <2>1. bridges' \in Seq(BridgeRecord) /\ Len(bridges') = Len(bridges) /\ bridges \in Seq(BridgeRecord)
    BY <1>1 DEF Altered, Typed
  <2> QED BY <2>1, LenProperties DEF Altered
<1>3. \A c \in DOMAIN bridges : bridges'[c].running = bridges[c].running /\ bridges'[c].subscriber = bridges[c].subscriber
  BY <1>2
<1>4. Server'
  BY <1>1, <1>2, <1>3 DEF Server
<1>5. /\ DOMAIN sockets \subseteq DOMAIN sockets' /\ \A s \in DOMAIN sockets : Onward(sockets'[s], sockets[s], t)
      /\ \A s \in DOMAIN sockets' \ DOMAIN sockets : sockets'[s].of = current
  BY DEF Later
<1>6. ASSUME NEW c \in DOMAIN bridges PROVE Aside(c) /\ bridges'[c].publisher \in {NoSocket} \cup DOMAIN sockets'
  <2>1. Unclosed(c)' <=> Unclosed(c)
    BY <1>3 DEF Unclosed
  <2>2. bridges'[c].publisher \in {NoSocket} \cup DOMAIN sockets' /\ (bridges'[c].publisher # NoSocket => sockets'[bridges'[c].publisher].of = c)
    <3>1. CASE c = current
      BY <3>1
    <3>2. CASE c # current
      <4>1. bridges[c].publisher \in {NoSocket} \cup DOMAIN sockets
            /\ (bridges[c].publisher # NoSocket => sockets[bridges[c].publisher].of = c)
        BY <1>1 DEF Typed, Wired
      <4> QED BY <1>2, <1>5, <3>2, <4>1 DEF Onward
    <3> QED BY <3>1, <3>2
  <2> QED BY <1>3, <2>1, <2>2 DEF Aside
<1>7. ServerStep(t)
  BY <1>1, <1>2, <1>6 DEF ServerStep, Typed
<1>8. ASSUME NEW s \in DOMAIN sockets', Astray(s)' PROVE s \in DOMAIN sockets /\ Astray(s)
  <2> DEFINE c == sockets'[s].of
  <2>1. /\ sockets'[s].open /\ ~sockets'[s].refused
        /\ ~(s \in {bridges'[c].subscriber, bridges'[c].publisher} \/ (listener[c].at = "assign" /\ listener[c].on = s))
    BY <1>8 DEF Astray, Held
  <2>2. s \in DOMAIN sockets
    <3> SUFFICES ASSUME s \notin DOMAIN sockets PROVE FALSE
      OBVIOUS
    <3>1. c = current /\ s = p
      BY <1>5, <2>1
    <3> QED BY <2>1, <3>1
  <2>3. sockets[s].of = c /\ sockets[s].open /\ ~sockets[s].refused /\ c \in DOMAIN bridges
    BY <1>1, <1>5, <2>1, <2>2 DEF Onward, Typed
  <2> HIDE DEF c
  <2>4. s \notin {bridges[c].subscriber, bridges[c].publisher}
    <3>1. CASE c = current
      BY <2>1, <2>2, <3>1
    <3>2. CASE c # current
      BY <1>2, <2>1, <2>3, <3>2
    <3> QED BY <3>1, <3>2
  <2> QED BY <2>1, <2>2, <2>3, <2>4 DEF Astray, Held
<1>9. \A s \in DOMAIN sockets : sockets'[s].of = sockets[s].of
  BY <1>5 DEF Onward
<1>10. Leaks'
  BY <1>3, <1>8, <1>9, LeaksKept
<1> QED BY <1>4, <1>7, <1>10, ServerKeeps

\* publish: with or without a connection, answered, broken or refused.
LEMMA PublishOwnKeeps ==
    ASSUME BridgeInv, PublishOwn
    PROVE  BridgeInv'
<1> DEFINE b   == current
           old == bridges[b].publisher
           n   == Len(sockets)
           s   == IF old = NoSocket THEN n + 1 ELSE old
           all == IF old = NoSocket THEN Append(sockets, Socket(b, FALSE)) ELSE sockets
           t   == {traffic + 1}
           none == {}
<1>1. /\ serverThread = "free" /\ b # NoBridge /\ UNCHANGED <<listener, current, serverThread, delivered>>
      /\ Typed /\ Server /\ Wired(b) /\ b \in DOMAIN bridges
  <2>1. Typed /\ Server /\ serverThread = "free" /\ b # NoBridge /\ UNCHANGED <<listener, current, serverThread, delivered>>
    BY DEF PublishOwn, BridgeInv
  <2>2. b \in DOMAIN bridges
    BY <2>1, CurrentIs
  <2> QED BY <2>1, <2>2 DEF BridgeInv
<1>2. \/ /\ all[s].live /\ traffic' = traffic + 1
         /\ \/ /\ sockets' = Pushed(all) /\ UNCHANGED mishaps
               /\ bridges' = [bridges EXCEPT ![b].publisher = s]
            \/ /\ mishaps < MaxMishaps /\ mishaps' = mishaps + 1
               /\ sockets' = Closed(Pushed(all), s, 0)
               /\ bridges' = [bridges EXCEPT ![b].publisher = NoSocket]
      \/ /\ ~all[s].live
         /\ sockets' = Closed(sockets, old, 0)
         /\ bridges' = [bridges EXCEPT ![b].publisher = NoSocket]
         /\ UNCHANGED <<traffic, mishaps>>
      \/ old = NoSocket /\ Refused(b) /\ UNCHANGED <<bridges, traffic>>
  BY DEF PublishOwn
<1>3. /\ Well(sockets, traffic) /\ traffic \in Nat /\ old \in {NoSocket} \cup DOMAIN sockets /\ b \in {b} /\ {b} \in SUBSET Nat
      /\ Later(sockets, sockets, {}, {b}) /\ DOMAIN sockets = 1..n /\ n \in Nat
      /\ \A x \in DOMAIN sockets : sockets[x] \in SocketRecord
  BY <1>1, Start, Lengths
<1>4. mishaps \in 0..MaxMishaps /\ MaxMishaps \in Nat
  BY <1>1, BridgeAssumption DEF Typed
<1>5. /\ Well(all, traffic) /\ Later(all, sockets, {}, {b}) /\ s \in DOMAIN all /\ all[s].of = b
      /\ DOMAIN all \ DOMAIN sockets \subseteq {s} /\ old \in {NoSocket, s} /\ s \in Nat /\ s # NoSocket
      /\ old = NoSocket => all[s].live
  <2>1. CASE old = NoSocket
    <3> DEFINE made == Socket(b, FALSE)
    <3>1. /\ Later(all, sockets, {}, {b}) /\ DOMAIN all = 1..(n + 1) /\ all[n + 1] = made /\ s = n + 1
      BY <1>3, <2>1, LaterMade
    <3>2. made.of = b /\ made.live
      BY DEF Socket
    <3> HIDE DEF all, s, made
    <3>3. Well(all, traffic)
      <4>1. none \subseteq 0..traffic /\ traffic >= traffic
        BY <1>3
      <4> QED BY <1>3, <3>1, <4>1, LaterIsWell
    <3>4. n + 1 \in 1..(n + 1) /\ n + 1 # 0 /\ n + 1 \in Nat /\ \A x \in 1..(n + 1) \ 1..n : x = n + 1
      BY <1>3
    <3> QED BY <1>3, <2>1, <3>1, <3>2, <3>3, <3>4 DEF NoSocket
  <2>2. CASE old # NoSocket
    <3>1. all = sockets /\ s = old
      BY <2>2
    <3>2. old \in DOMAIN sockets /\ sockets[old].of = b /\ old \in Nat
      BY <1>1, <1>3, <2>2 DEF Wired
    <3> QED BY <1>3, <2>2, <3>1, <3>2
  <2> QED BY <2>1, <2>2
<1> HIDE DEF all, s, n
<1>6. Len(all[s].inbox) \in Nat /\ Increasing(all[s].inbox)
  <2>1. all[s] \in SocketRecord
    BY <1>5, ElementOfSeq, LenProperties DEF Well
  <2> QED BY <1>5, <2>1, LenProperties DEF Well, SocketRecord
<1>7. CASE all[s].live /\ traffic' = traffic + 1 /\ \/ /\ sockets' = Pushed(all) /\ UNCHANGED mishaps
                                                       /\ bridges' = [bridges EXCEPT ![b].publisher = s]
                                                    \/ /\ mishaps < MaxMishaps /\ mishaps' = mishaps + 1
                                                       /\ sockets' = Closed(Pushed(all), s, 0)
                                                       /\ bridges' = [bridges EXCEPT ![b].publisher = NoSocket]
  <2> DEFINE pushed == Pushed(all)
  <2>1. /\ Later(pushed, all, t, {b}) /\ DOMAIN pushed = DOMAIN all /\ pushed[s].of = b
    BY <1>3, <1>5, LaterPushed
  <2> HIDE DEF pushed
  <2>2. Later(pushed, sockets, t, {b})
    BY <1>5, <2>1, LaterTwice
  <2>3. t \in SUBSET Nat /\ (\A x \in t : x > traffic /\ x <= traffic') /\ traffic' \in Nat /\ traffic' >= traffic
        /\ t \subseteq 0..(traffic + 1) /\ traffic + 1 \in Nat /\ traffic + 1 >= traffic
    BY <1>3, <1>7
  <2>4. CASE sockets' = pushed /\ UNCHANGED mishaps /\ bridges' = [bridges EXCEPT ![b].publisher = s]
    <3>1. /\ Altered(b) /\ bridges'[b].subscriber = bridges[b].subscriber
          /\ bridges'[b].publisher = s /\ bridges'[b].running = bridges[b].running
      BY <1>1, <1>5, <2>4, PublisherSet
    <3>2. \A x \in DOMAIN sockets' : ~((x \notin DOMAIN sockets \/ x = bridges[b].publisher) /\ x # s)
      <4> SUFFICES ASSUME NEW x \in DOMAIN all, x \notin DOMAIN sockets \/ x = old PROVE x = s
        BY <2>1, <2>4
      <4>1. x # NoSocket
        BY <1>5, LenProperties DEF Well, NoSocket
      <4> QED BY <1>5, <4>1
    <3>3. s \in {NoSocket} \cup DOMAIN sockets' /\ sockets'[s].of = b /\ mishaps' \in 0..MaxMishaps
      BY <1>4, <1>5, <2>1, <2>4
    <3> HIDE DEF t
    <3> QED BY <1>1, <2>2, <2>3, <2>4, <3>1, <3>2, <3>3, PublisherKeeps
  <2>5. CASE /\ mishaps < MaxMishaps /\ mishaps' = mishaps + 1 /\ sockets' = Closed(pushed, s, 0)
             /\ bridges' = [bridges EXCEPT ![b].publisher = NoSocket]
    <3>1. /\ Altered(b) /\ bridges'[b].subscriber = bridges[b].subscriber
          /\ bridges'[b].publisher = NoSocket /\ bridges'[b].running = bridges[b].running
      BY <1>1, <2>5, PublisherSet DEF NoSocket
    <3>2. Well(pushed, traffic + 1)
      BY <1>3, <1>5, <2>1, <2>3, LaterIsWell
    <3>3. Len(pushed[s].inbox) \in Nat
      <4>1. pushed[s] \in SocketRecord
        BY <1>5, <2>1, <3>2, ElementOfSeq, LenProperties DEF Well
      <4> QED BY <4>1, LenProperties DEF SocketRecord
    <3>4. s \in {NoSocket} \cup DOMAIN pushed /\ 0 \in Nat /\ (s # NoSocket => 0 <= Len(pushed[s].inbox))
      BY <1>5, <2>1, <3>3
    <3>5. /\ Later(sockets', pushed, none, {b}) /\ DOMAIN sockets' = DOMAIN pushed /\ ~sockets'[s].open
      BY <1>5, <2>3, <2>5, <3>2, <3>4, LaterClosed
    <3>6. \A x \in DOMAIN pushed : Onward(sockets'[x], pushed[x], none)
      BY <3>5 DEF Later
    <3>7. Later(sockets', sockets, t, {b})
      <4>1. sockets' \in Seq(SocketRecord) /\ DOMAIN sockets \subseteq DOMAIN sockets'
        BY <2>2, <3>5 DEF Later
      <4>2. ASSUME NEW x \in DOMAIN sockets PROVE Onward(sockets'[x], sockets[x], t)
        <5>1. Onward(pushed[x], sockets[x], t) /\ Onward(sockets'[x], pushed[x], none)
          BY <2>2, <3>6 DEF Later
        <5> QED BY <5>1 DEF Onward
      <4>3. ASSUME NEW x \in DOMAIN sockets' \ DOMAIN sockets
            PROVE  sockets'[x].of \in {b} /\ ~sockets'[x].listening /\ In(sockets'[x]) = {} /\ Increasing(sockets'[x].inbox)
        <5>1. Onward(sockets'[x], pushed[x], none) /\ pushed[x].of = b /\ ~pushed[x].listening /\ In(pushed[x]) = {}
          BY <2>2, <3>5, <3>6 DEF Later
        <5> QED BY <5>1 DEF Onward
      <4> QED BY <4>1, <4>2, <4>3 DEF Later
    <3>8. \A x \in DOMAIN sockets' : (x \notin DOMAIN sockets \/ x = bridges[b].publisher) /\ x # NoSocket =>
             ~sockets'[x].open \/ sockets'[x].refused
      BY <1>5, <2>1, <3>5
    <3>9. mishaps' \in 0..MaxMishaps
      BY <1>4, <2>5
    <3> HIDE DEF t
    <3> QED BY <1>1, <2>3, <3>1, <3>7, <3>8, <3>9, PublisherKeeps
  <2> QED BY <1>7, <2>4, <2>5 DEF pushed
<1> DEFINE quiet == {}
<1>8. quiet \in SUBSET Nat /\ (\A x \in quiet : x > traffic /\ x <= traffic')
  OBVIOUS
<1>9. CASE /\ ~all[s].live /\ sockets' = Closed(sockets, old, 0)
           /\ bridges' = [bridges EXCEPT ![b].publisher = NoSocket] /\ UNCHANGED <<traffic, mishaps>>
  <2>1. /\ Altered(b) /\ bridges'[b].subscriber = bridges[b].subscriber
        /\ bridges'[b].publisher = NoSocket /\ bridges'[b].running = bridges[b].running
    BY <1>1, <1>9, PublisherSet DEF NoSocket
  <2>2. old # NoSocket /\ all = sockets
    BY <1>5, <1>9 DEF all
  <2>3. old \in {NoSocket} \cup DOMAIN sockets /\ 0 \in Nat /\ 0 <= Len(sockets[old].inbox)
    BY <1>3, <1>5, <1>6, <2>2
  <2>4. Later(sockets', sockets, quiet, {b}) /\ DOMAIN sockets' = DOMAIN sockets /\ ~sockets'[old].open
    BY <1>3, <1>9, <2>2, <2>3, LaterClosed
  <2>5. traffic' \in Nat /\ traffic' >= traffic /\ mishaps' \in 0..MaxMishaps
    BY <1>3, <1>4, <1>9
  <2> HIDE DEF quiet
  <2> QED BY <1>1, <1>8, <2>1, <2>4, <2>5, PublisherKeeps
<1>10. CASE old = NoSocket /\ Refused(b) /\ UNCHANGED <<bridges, traffic>>
  <2>1. /\ Altered(b) /\ bridges'[b].subscriber = bridges[b].subscriber
        /\ bridges'[b].publisher = NoSocket /\ bridges'[b].running = bridges[b].running
    BY <1>1, <1>10, SameBridges
  <2>2. traffic' \in Nat /\ traffic' >= traffic /\ mishaps' \in 0..MaxMishaps
    BY <1>3, <1>4, <1>10 DEF Refused
  <2>3. /\ Later(sockets', sockets, quiet, {b})
        /\ \A x \in DOMAIN sockets' : (x \notin DOMAIN sockets \/ x = bridges[b].publisher) /\ x # NoSocket =>
             ~sockets'[x].open \/ sockets'[x].refused
    <3>1. CASE sockets' = sockets
      BY <1>3, <1>10, <3>1
    <3>2. CASE sockets' = Append(sockets, Socket(b, TRUE))
      <4>1. /\ Later(sockets', sockets, {}, {b}) /\ DOMAIN sockets' = 1..(n + 1) /\ sockets'[n + 1] = Socket(b, TRUE)
        BY <1>3, <3>2, LaterMade DEF n
      <4>2. Socket(b, TRUE).refused
        BY DEF Socket
      <4>3. \A x \in 1..(n + 1) \ 1..n : x = n + 1
        BY <1>3
      <4> QED BY <1>3, <1>10, <4>1, <4>2, <4>3
    <3> QED BY <1>10, <3>1, <3>2 DEF Refused
  <2> HIDE DEF quiet
  <2> QED BY <1>1, <1>8, <2>1, <2>2, <2>3, PublisherKeeps
<1> QED BY <1>2, <1>7, <1>9, <1>10

\* What a step of close() starts from: bridge b is the one in use.
LEMMA CloseStart ==
    ASSUME BridgeInv, serverThread \in {"free", "close", "forget"}
    PROVE  LET b == current
           IN  /\ Typed /\ Numbered /\ Server /\ (\A c \in DOMAIN bridges : Wired(c)) /\ Well(sockets, traffic) /\ traffic \in Nat
               /\ b # NoBridge /\ b \in DOMAIN bridges /\ b = Len(bridges)
               /\ {bridges[b].subscriber, bridges[b].publisher} \subseteq {NoSocket} \cup DOMAIN sockets
               /\ Later(sockets, sockets, {}, {b}) /\ mishaps \in 0..MaxMishaps
<1>1. Typed /\ Numbered /\ Server /\ (\A c \in DOMAIN bridges : Wired(c)) /\ current # NoBridge /\ mishaps \in 0..MaxMishaps
  BY DEF BridgeInv, Server, Typed
<1>2. current \in DOMAIN bridges /\ current = Len(bridges)
  BY <1>1, CurrentIs
<1> QED BY <1>1, <1>2, Start

\* A step of close(): only the record of the bridge in use changes, and of the
\* connections only those it closes.
LEMMA CloseKeeps ==
    ASSUME BridgeInv, serverThread \in {"free", "close", "forget"}, NEW b \in DOMAIN bridges, b = current, Altered(b),
           Later(sockets', sockets, {}, {b}), DOMAIN sockets' = DOMAIN sockets, Server', Leaks',
           Aside(b), bridges'[b].publisher \in {NoSocket, bridges[b].publisher},
           \A c \in DOMAIN bridges \ {b} : Unclosed(c)' <=> Unclosed(c),
           UNCHANGED <<listener, traffic, delivered, mishaps>>
    PROVE  BridgeInv'
<1> DEFINE t == {}
<1>1. /\ Typed /\ Server /\ (\A c \in DOMAIN bridges : Wired(c)) /\ traffic \in Nat /\ mishaps \in 0..MaxMishaps
  BY CloseStart
<1>2. /\ bridges' \in Seq(BridgeRecord) /\ Len(bridges') = Len(bridges) /\ DOMAIN bridges' = DOMAIN bridges
      /\ \A c \in DOMAIN bridges \ {b} : bridges'[c] = bridges[c]
  <2>1. bridges' \in Seq(BridgeRecord) /\ Len(bridges') = Len(bridges) /\ bridges \in Seq(BridgeRecord)
    BY <1>1 DEF Altered, Typed
  <2> QED BY <2>1, LenProperties DEF Altered
<1>3. ASSUME NEW c \in DOMAIN bridges PROVE Aside(c) /\ bridges'[c].publisher \in {NoSocket} \cup DOMAIN sockets'
  <2>1. bridges[c].publisher \in {NoSocket} \cup DOMAIN sockets
        /\ (bridges[c].publisher # NoSocket => sockets[bridges[c].publisher].of = c)
    BY <1>1 DEF Typed, Wired
  <2>2. CASE c = b
    BY <2>1, <2>2
  <2>3. CASE c # b
    <3>1. bridges'[c] = bridges[c] /\ listener'[c] = listener[c] /\ (Unclosed(c)' <=> Unclosed(c))
      BY <1>2, <2>3
    <3>2. bridges'[c].publisher # NoSocket => sockets'[bridges'[c].publisher].of = c
      BY <2>1, <3>1 DEF Later, Onward
    <3> QED BY <2>1, <3>1, <3>2 DEF Aside
  <2> QED BY <2>2, <2>3
<1>4. t \in SUBSET Nat /\ \A n \in t : n > traffic /\ n <= traffic'
  OBVIOUS
<1>5. listener' \in Seq(ListenerRecord) /\ Len(listener') = Len(bridges')
  BY <1>1, <1>2 DEF Typed
<1>6. Later(sockets', sockets, t, {current})
  OBVIOUS
<1> HIDE DEF t
<1>7. ServerStep(t)
  BY <1>1, <1>2, <1>3, <1>4, <1>5, <1>6 DEF ServerStep
<1> QED BY <1>7, ServerKeeps

\* close() first sets running to false.
LEMMA BeginCloseKeeps ==
    ASSUME BridgeInv, BeginClose
    PROVE  BridgeInv'
<1>b. PICK b \in DOMAIN bridges : b = current
  BY CloseStart DEF BeginClose
<1>1. /\ Typed /\ Server /\ (\A c \in DOMAIN bridges : Wired(c)) /\ b # NoBridge /\ b \in DOMAIN bridges
      /\ Later(sockets, sockets, {}, {b}) /\ serverThread = "free"
  BY <1>b, CloseStart DEF BeginClose
<1>2. /\ bridges' = [bridges EXCEPT ![b].running = FALSE] /\ serverThread' = "close"
      /\ UNCHANGED <<sockets, listener, current, traffic, delivered, mishaps>>
  BY <1>b DEF BeginClose
<1>3. /\ Altered(b) /\ bridges'[b].subscriber = bridges[b].subscriber
      /\ bridges'[b].publisher = bridges[b].publisher /\ bridges'[b].running = FALSE
  BY <1>1, <1>2, RunningSet
<1>4. /\ Len(bridges') = Len(bridges) /\ DOMAIN bridges' = DOMAIN bridges
      /\ \A c \in DOMAIN bridges \ {b} : bridges'[c] = bridges[c]
  <2>1. bridges' \in Seq(BridgeRecord) /\ Len(bridges') = Len(bridges) /\ bridges \in Seq(BridgeRecord)
    BY <1>1, <1>3 DEF Altered, Typed
  <2> QED BY <1>3, <2>1, LenProperties DEF Altered
<1>5. Server'
  BY <1>b, <1>1, <1>2, <1>3, <1>4 DEF Server
<1>6. \A c \in DOMAIN bridges : Unclosed(c)' <=> Unclosed(c)
  <2> SUFFICES ASSUME NEW c \in DOMAIN bridges PROVE Unclosed(c)' <=> Unclosed(c)
    OBVIOUS
  <2>1. CASE c = b
    BY <1>b, <1>1, <1>2, <2>1 DEF Unclosed, Server
  <2>2. CASE c # b
    BY <1>b, <1>1, <1>2, <1>4, <2>2 DEF Unclosed
  <2> QED BY <2>1, <2>2
<1>7. bridges[b].publisher # NoSocket => sockets[bridges[b].publisher].of = b
  BY <1>1 DEF Wired
<1>8. Aside(b)
  BY <1>1, <1>2, <1>3, <1>6, <1>7 DEF Aside
<1>9. \A c \in DOMAIN bridges : /\ bridges'[c].subscriber = bridges[c].subscriber
                                /\ bridges'[c].publisher = bridges[c].publisher
                                /\ bridges'[c].running => bridges[c].running
  BY <1>3, <1>4
<1>10. Leaks'
  <2>1. \A s \in DOMAIN sockets : sockets[s].of \in DOMAIN bridges
    BY <1>1 DEF Typed
  <2>2. \A s \in DOMAIN sockets' : Astray(s)' => s \in DOMAIN sockets /\ Astray(s)
    BY <1>2, <1>9, <2>1 DEF Astray, Held
  <2> QED BY <1>2, <1>9, <2>2, LeaksKept
<1> QED BY <1>b, <1>1, <1>2, <1>3, <1>5, <1>6, <1>8, <1>10, CloseKeeps

\* close() closes the subscriber: a listener that reads from it gets no more than is buffered.
LEMMA CloseSubscriberKeeps ==
    ASSUME BridgeInv, CloseSubscriber
    PROVE  BridgeInv'
<1>b. PICK b \in DOMAIN bridges : b = current
  BY CloseStart DEF CloseSubscriber
<1> DEFINE sub == bridges[b].subscriber
<1>1. /\ Typed /\ Numbered /\ Server /\ (\A c \in DOMAIN bridges : Wired(c)) /\ b # NoBridge /\ b \in DOMAIN bridges
      /\ Well(sockets, traffic) /\ traffic \in Nat /\ sub \in {NoSocket} \cup DOMAIN sockets /\ serverThread = "close"
  BY <1>b, CloseStart DEF CloseSubscriber
<1>2. /\ bridges' = [bridges EXCEPT ![b].subscribed = FALSE] /\ serverThread' = "forget"
      /\ UNCHANGED <<listener, current, traffic, delivered, mishaps>>
  BY <1>b DEF CloseSubscriber
<1>3. /\ Altered(b) /\ bridges'[b].subscriber = sub
      /\ bridges'[b].publisher = bridges[b].publisher /\ bridges'[b].running = bridges[b].running
  BY <1>1, <1>2, SubscribedSet
<1>4. /\ Len(bridges') = Len(bridges) /\ DOMAIN bridges' = DOMAIN bridges
      /\ \A c \in DOMAIN bridges \ {b} : bridges'[c] = bridges[c]
  <2>1. bridges' \in Seq(BridgeRecord) /\ Len(bridges') = Len(bridges) /\ bridges \in Seq(BridgeRecord)
    BY <1>1, <1>3 DEF Altered, Typed
  <2> QED BY <1>3, <2>1, LenProperties DEF Altered
<1>5. PICK k \in Buffered(sub) : sockets' = Closed(sockets, sub, k)
  BY <1>b DEF CloseSubscriber
<1> HIDE DEF sub
<1>6. k \in Nat /\ (sub # NoSocket => k <= Len(sockets[sub].inbox))
  <2>1. sub # NoSocket => Len(sockets[sub].inbox) \in Nat
    BY <1>1, Lengths, LenProperties DEF SocketRecord
  <2> QED BY <2>1 DEF Buffered
<1>7. /\ Later(sockets', sockets, {}, {b}) /\ DOMAIN sockets' = DOMAIN sockets
      /\ sub # NoSocket => ~sockets'[sub].open /\ ~sockets'[sub].listening
  BY <1>1, <1>5, <1>6, LaterClosed
<1>8. \A s \in DOMAIN sockets : /\ sockets'[s].of = sockets[s].of /\ (sockets'[s].open => sockets[s].open)
                                /\ sockets'[s].refused = sockets[s].refused
  BY <1>7 DEF Later, Onward
<1>9. Server'
  BY <1>b, <1>1, <1>2, <1>3, <1>4 DEF Server
<1>10. \A c \in DOMAIN bridges \ {b} : Unclosed(c)' <=> Unclosed(c)
  BY <1>b, <1>2, <1>4 DEF Unclosed
<1>11. Unclosed(b) /\ ~Unclosed(b)'
  <2>1. ~bridges'[b].running
    BY <1>b, <1>1, <1>3 DEF Server
  <2> QED BY <1>b, <1>1, <1>2, <2>1 DEF Unclosed
<1>12. Aside(b)
  <2>1. bridges[b].publisher # NoSocket => bridges[b].publisher \in DOMAIN sockets /\ sockets[bridges[b].publisher].of = b
    BY <1>1 DEF Typed, Wired
  <2>2. At(b) = "read" => sub = listener[b].on /\ sub # NoSocket
    BY <1>1, <1>11 DEF Wired, sub
  <2> QED BY <1>2, <1>3, <1>7, <1>8, <1>11, <2>1, <2>2 DEF Aside, sub
<1>13. \A c \in DOMAIN bridges : /\ bridges'[c].subscriber = bridges[c].subscriber
                                 /\ bridges'[c].publisher = bridges[c].publisher
                                 /\ bridges'[c].running => bridges[c].running
  BY <1>3, <1>4 DEF sub
<1>14. Leaks'
  <2>1. \A s \in DOMAIN sockets : sockets[s].of \in DOMAIN bridges
    BY <1>1 DEF Typed
  <2>2. \A s \in DOMAIN sockets' : Astray(s)' => s \in DOMAIN sockets /\ Astray(s)
    BY <1>2, <1>7, <1>8, <1>13, <2>1 DEF Astray, Held
  <2> QED BY <1>2, <1>8, <1>13, <2>2, LeaksKept
<1> QED BY <1>b, <1>1, <1>2, <1>3, <1>7, <1>9, <1>10, <1>12, <1>14, CloseKeeps

\* The one connection that may be lost sight of is the subscriber: the listener
\* has set the field after the server thread closed what was there.
LEMMA ForgetSubscriberKeeps ==
    ASSUME BridgeInv, ForgetSubscriber
    PROVE  BridgeInv'
<1>b. PICK b \in DOMAIN bridges : b = current
  BY CloseStart DEF ForgetSubscriber
<1> DEFINE sub == bridges[b].subscriber
           pub == bridges[b].publisher
<1>1. /\ Typed /\ Numbered /\ Server /\ (\A c \in DOMAIN bridges : Wired(c)) /\ b # NoBridge /\ b \in DOMAIN bridges
      /\ Well(sockets, traffic) /\ traffic \in Nat /\ pub \in {NoSocket} \cup DOMAIN sockets /\ serverThread = "forget"
  BY <1>b, CloseStart DEF ForgetSubscriber
<1>2. /\ bridges' = [bridges EXCEPT ![b].subscriber = NoSocket, ![b].publisher = NoSocket]
      /\ sockets' = Closed(sockets, pub, 0) /\ current' = NoBridge /\ serverThread' = "closed"
      /\ UNCHANGED <<listener, traffic, delivered, mishaps>>
  BY <1>b DEF ForgetSubscriber
<1>3. /\ Altered(b) /\ bridges'[b].subscriber = NoSocket
      /\ bridges'[b].publisher = NoSocket /\ bridges'[b].running = bridges[b].running
  BY <1>1, <1>2, BothForgotten
<1>4. /\ Len(bridges') = Len(bridges) /\ DOMAIN bridges' = DOMAIN bridges
      /\ \A c \in DOMAIN bridges \ {b} : bridges'[c] = bridges[c]
  <2>1. bridges' \in Seq(BridgeRecord) /\ Len(bridges') = Len(bridges) /\ bridges \in Seq(BridgeRecord)
    BY <1>1, <1>3 DEF Altered, Typed
  <2> QED BY <1>3, <2>1, LenProperties DEF Altered
<1> HIDE DEF sub, pub
<1>5. 0 \in Nat /\ (pub # NoSocket => 0 <= Len(sockets[pub].inbox))
  <2>1. pub # NoSocket => Len(sockets[pub].inbox) \in Nat
    BY <1>1, Lengths, LenProperties DEF SocketRecord
  <2> QED BY <2>1
<1>6. /\ Later(sockets', sockets, {}, {b}) /\ DOMAIN sockets' = DOMAIN sockets
      /\ pub # NoSocket => ~sockets'[pub].open
  BY <1>1, <1>2, <1>5, LaterClosed
<1>7. \A s \in DOMAIN sockets : /\ sockets'[s].of = sockets[s].of /\ (sockets'[s].open => sockets[s].open)
                                /\ sockets'[s].refused = sockets[s].refused
  BY <1>6 DEF Later, Onward
<1>8. ~bridges[b].running /\ \A c \in DOMAIN bridges : ~bridges'[c].running /\ ~Unclosed(c)'
  <2>1. ~bridges[b].running /\ \A c \in DOMAIN bridges : bridges[c].running => c = b
    BY <1>b, <1>1 DEF Server
  <2>2. \A c \in DOMAIN bridges : ~bridges'[c].running
    BY <1>3, <1>4, <2>1
  <2> QED BY <1>2, <2>1, <2>2 DEF Unclosed
<1>9. \A c \in DOMAIN bridges : ~Unclosed(c)
  BY <1>b, <1>1, <1>8 DEF Unclosed, Server
<1>10. Server'
  BY <1>1, <1>2, <1>4, <1>8 DEF Server
<1>11. Aside(b)
  BY <1>2, <1>3, <1>8, <1>9, <1>1 DEF Aside
<1>12. ASSUME NEW s \in DOMAIN sockets, Astray(s)' PROVE (Astray(s) /\ sockets[s].of # b) \/ (sockets[s].of = b /\ s = sub)
  <2> DEFINE c == sockets[s].of
  <2>1. /\ sockets[s].open /\ ~sockets[s].refused /\ sockets'[s].open
        /\ ~(s \in {bridges'[c].subscriber, bridges'[c].publisher} \/ (listener[c].at = "assign" /\ listener[c].on = s))
    BY <1>2, <1>7, <1>12 DEF Astray, Held
  <2>2. c \in DOMAIN bridges
    BY <1>1 DEF Typed
  <2>3. CASE c = b
    <3>1. ~Astray(s)
      BY <1>b, <2>3 DEF BridgeInv, Leaks
    <3>2. s \in {sub, pub}
      BY <2>1, <2>3, <3>1 DEF Astray, Held, sub, pub
    <3>3. s # NoSocket
      BY <1>1, Lengths DEF NoSocket
    <3> QED BY <1>6, <2>1, <2>3, <3>2, <3>3
  <2>4. CASE c # b
    <3>1. bridges'[c] = bridges[c]
      BY <1>4, <2>2, <2>4
    <3>2. ~(s \in {bridges[c].subscriber, bridges[c].publisher} \/ (listener[c].at = "assign" /\ listener[c].on = s))
      BY <2>1, <3>1
    <3> QED BY <2>1, <2>4, <3>2 DEF Astray, Held
  <2> QED BY <2>3, <2>4
<1>13. Leaks'
  <2>1. \A s \in DOMAIN sockets : sockets'[s].of \in DOMAIN bridges /\ sockets'[s].of # NoBridge
    BY <1>1, <1>7, Lengths DEF Typed, NoBridge
  <2>2. \A s, t \in DOMAIN sockets : Astray(s)' /\ Astray(t)' /\ sockets'[s].of = sockets'[t].of => s = t
    <3> SUFFICES ASSUME NEW s \in DOMAIN sockets, NEW t \in DOMAIN sockets, Astray(s)', Astray(t)', sockets[s].of = sockets[t].of
                 PROVE  s = t
      BY <1>7
    <3>1. CASE sockets[s].of = b
      BY <1>12, <3>1
    <3>2. CASE sockets[s].of # b
      BY <1>12, <3>2 DEF BridgeInv, Leaks
    <3> QED BY <3>1, <3>2
  <2> QED BY <1>2, <1>6, <1>8, <2>1, <2>2 DEF Leaks
<1> QED BY <1>b, <1>1, <1>2, <1>3, <1>6, <1>8, <1>9, <1>10, <1>11, <1>13, CloseKeeps

\* A new bridge has nothing to hand over.
LEMMA RenewKeeps ==
    ASSUME BridgeInv, Renew
    PROVE  BridgeInv'
<1> DEFINE n == Len(bridges)
<1>1. /\ Typed /\ Server /\ (\A c \in DOMAIN bridges : Wired(c)) /\ Well(sockets, traffic) /\ traffic \in Nat
      /\ serverThread = "closed" /\ current = NoBridge /\ mishaps \in 0..MaxMishaps
  BY DEF BridgeInv, Typed, Server, Numbered, Well, Renew
<1>2. /\ bridges' = Append(bridges, Bridge) /\ listener' = Append(listener, Listener)
      /\ current' = n + 1 /\ serverThread' = "free" /\ UNCHANGED <<sockets, traffic, delivered, mishaps>>
  BY DEF Renew
<1>3. DOMAIN bridges = 1..n /\ n \in Nat /\ DOMAIN listener = 1..n /\ Len(listener) = n
      /\ bridges \in Seq(BridgeRecord) /\ listener \in Seq(ListenerRecord)
  BY <1>1, Lengths DEF Typed
<1>4. Bridge \in BridgeRecord /\ Bridge.running /\ Listener \in ListenerRecord
  BY DEF Bridge, Listener, BridgeRecord, ListenerRecord, NoSocket, Ack, Places
<1> HIDE DEF n
<1>5. /\ bridges' \in Seq(BridgeRecord) /\ Len(bridges') = n + 1 /\ bridges'[n + 1] = Bridge
      /\ \A c \in 1..n : bridges'[c] = bridges[c]
  BY <1>2, <1>3, <1>4, AppendProperties DEF n
<1>6. /\ listener' \in Seq(ListenerRecord) /\ Len(listener') = n + 1 /\ listener'[n + 1] = Listener
      /\ \A c \in 1..n : listener'[c] = listener[c]
  BY <1>2, <1>3, <1>4, AppendProperties
<1>7. DOMAIN bridges' = 1..(n + 1) /\ \A c \in 1..(n + 1) \ 1..n : c = n + 1
  BY <1>3, <1>5, LenProperties
<1>8. \A c \in 1..n : ~bridges[c].running /\ c # 0 /\ c # n + 1
  BY <1>1, <1>3 DEF Server, NoBridge
<1>9. Server'
  <2>1. n + 1 \in 1..(n + 1) /\ n + 1 # 0
    BY <1>3
  <2>2. \A c \in DOMAIN bridges' : bridges'[c].running => c = n + 1
    <3> SUFFICES ASSUME NEW c \in 1..(n + 1), bridges'[c].running, c \in 1..n PROVE FALSE
      BY <1>7
    <3> QED BY <1>5, <1>8
  <2> QED BY <1>2, <1>4, <1>5, <2>1, <2>2 DEF Server, NoBridge
<1>10. ASSUME NEW c \in DOMAIN bridges PROVE Aside(c) /\ bridges'[c].publisher \in {NoSocket} \cup DOMAIN sockets'
  <2>1. bridges'[c] = bridges[c] /\ listener'[c] = listener[c] /\ ~bridges[c].running /\ c # current /\ c # current'
    BY <1>1, <1>2, <1>3, <1>5, <1>6, <1>8 DEF NoBridge
  <2>2. ~Unclosed(c) /\ ~Unclosed(c)'
    BY <2>1 DEF Unclosed
  <2>3. bridges[c].publisher \in {NoSocket} \cup DOMAIN sockets
        /\ (bridges[c].publisher # NoSocket => sockets[bridges[c].publisher].of = c)
    BY <1>1 DEF Typed, Wired
  <2> QED BY <1>2, <2>1, <2>2, <2>3 DEF Aside
<1>11. Leaks'
  <2>1. \A s \in DOMAIN sockets : sockets[s].of \in 1..n
    BY <1>1, <1>3 DEF Typed
  <2>2. \A s \in DOMAIN sockets' : Astray(s)' => s \in DOMAIN sockets /\ Astray(s)
    BY <1>2, <1>5, <1>6, <2>1 DEF Astray, Held
  <2>3. \A s \in DOMAIN sockets : sockets'[s].of = sockets[s].of
    BY <1>2
  <2>4. \A c \in DOMAIN bridges : bridges'[c].running => bridges[c].running
    BY <1>3, <1>5
  <2>5. current' \in {current, NoBridge, Len(bridges) + 1}
    BY <1>2 DEF n
  <2> QED BY <2>2, <2>3, <2>4, <2>5, LeaksKept
<1> DEFINE t == {}
<1>12. t \in SUBSET Nat /\ \A x \in t : x > traffic /\ x <= traffic'
  OBVIOUS
<1>13. Later(sockets', sockets, t, {current})
  BY <1>1, <1>2, LaterSelf
<1> HIDE DEF t
<1>14. Len(bridges') \in {Len(bridges), Len(bridges) + 1} /\ Len(listener') = Len(bridges')
  BY <1>5, <1>6 DEF n
<1>15. \A c \in DOMAIN bridges' \ DOMAIN bridges : bridges'[c] = Bridge /\ listener'[c] = Listener
  BY <1>3, <1>5, <1>6, <1>7
<1>16. ServerStep(t)
  BY <1>1, <1>2, <1>5, <1>6, <1>10, <1>12, <1>13, <1>14, <1>15 DEF ServerStep
<1> QED BY <1>9, <1>11, <1>16, ServerKeeps

\* The first bridge has nothing to hand over.
LEMMA BridgeStarts ==
    ASSUME BridgeInit
    PROVE  BridgeInv
<1>1. /\ sockets = <<>> /\ traffic = 0 /\ delivered = <<>> /\ mishaps = 0
      /\ bridges = <<Bridge>> /\ listener = <<Listener>> /\ current = 1 /\ serverThread = "free"
  BY DEF BridgeInit
<1>2. Bridge \in BridgeRecord /\ Listener \in ListenerRecord
  BY DEF Bridge, Listener, BridgeRecord, ListenerRecord, NoSocket, Ack, Places
<1>3. /\ bridges \in Seq(BridgeRecord) /\ Len(bridges) = 1 /\ DOMAIN bridges = {1} /\ bridges[1] = Bridge
      /\ listener \in Seq(ListenerRecord) /\ Len(listener) = 1 /\ listener[1] = Listener
  <2> DEFINE x == Bridge
             y == Listener
  <2> HIDE DEF x, y
  <2>1. /\ <<x>> \in Seq(BridgeRecord) /\ Len(<<x>>) = 1 /\ DOMAIN <<x>> = {1} /\ <<x>>[1] = x
        /\ <<y>> \in Seq(ListenerRecord) /\ Len(<<y>>) = 1 /\ <<y>>[1] = y
    BY <1>2 DEF x, y
  <2> QED BY <1>1, <2>1 DEF x, y
<1>4. DOMAIN sockets = {} /\ DOMAIN delivered = {} /\ sockets \in Seq(SocketRecord) /\ delivered \in Seq(Delivery)
  BY <1>1, EmptySeq, LenProperties
<1>5. MaxMishaps \in Nat
  BY BridgeAssumption
<1>6. /\ bridges[1].running /\ bridges[1].subscriber = NoSocket /\ bridges[1].publisher = NoSocket
      /\ listener[1].at = "connect" /\ listener[1].on = NoSocket
  BY <1>3 DEF Bridge, Listener
<1>7. Typed
  BY <1>1, <1>3, <1>4, <1>5, <1>6 DEF Typed
<1>8. Numbered
  BY <1>4 DEF Numbered
<1>9. Server
  BY <1>1, <1>3, <1>6 DEF Server, NoBridge
<1>10. LineOf(1) = {} /\ At(1) = "connect"
  BY <1>6 DEF LineOf, At
<1>11. Wired(1)
  BY <1>6, <1>10 DEF Wired
<1>12. Leaks
  BY <1>4 DEF Leaks
<1>13. InTurn
  <2>1. \A b, c \in 1..1 : ~(b < c)
    OBVIOUS
  <2> DEFINE final == [b \in 1..Len(bridges) |-> Final(b)]
             pending == [b \in 1..Len(bridges) |-> Pending(b)]
  <2> HIDE DEF final, pending
  <2>2. Turns(delivered, Len(bridges), final, pending, traffic)
    BY <1>3, <1>4, <2>1 DEF Turns
  <2> QED BY <2>2 DEF InTurn, final, pending
<1>14. Lateness
  BY <1>4 DEF Lateness
<1> QED BY <1>3, <1>7, <1>8, <1>9, <1>11, <1>12, <1>13, <1>14 DEF BridgeInv

\* Nothing changes.
LEMMA BridgeStutters ==
    ASSUME BridgeInv, UNCHANGED bridgeVars
    PROVE  BridgeInv'
<1>1. UNCHANGED <<sockets, bridges, listener, current, serverThread, traffic, delivered, mishaps>>
  BY DEF bridgeVars
<1>2. Typed /\ Numbered /\ Server /\ (\A b \in DOMAIN bridges : Wired(b)) /\ Leaks /\ InTurn /\ Lateness
  BY DEF BridgeInv
<1>3. Typed' /\ Numbered' /\ Server'
  BY <1>1, <1>2 DEF Typed, Numbered, Server
<1>4. \A b \in DOMAIN bridges' : Wired(b)'
  BY <1>1, <1>2 DEF Wired, At, LineOf, Unclosed
<1>5. Leaks'
  BY <1>1, <1>2 DEF Leaks, Astray, Held
<1>6. InTurn'
  <2>1. \A b : Final(b)' = Final(b) /\ Pending(b)' = Pending(b)
    BY <1>1 DEF Final, Pending, At, LineOf
  <2> QED BY <1>1, <1>2, <2>1 DEF InTurn
<1>7. Lateness'
  BY <1>1, <1>2 DEF Lateness, At
<1> QED BY <1>3, <1>4, <1>5, <1>6, <1>7 DEF BridgeInv

\* Every step keeps the invariant.
LEMMA BridgeStepHolds ==
    ASSUME BridgeInv, [BridgeNext]_bridgeVars
    PROVE  BridgeInv'
<1>1. ASSUME NEW b \in DOMAIN bridges, Listens(b) PROVE BridgeInv'
  BY <1>1, ConnectKeeps, AssignKeeps, SubscribeKeeps, AcknowledgedKeeps, LoopKeeps, ReadKeepsBridge,
     ReceiveKeeps, FinallyKeeps, ForgetKeeps DEF Listens
<1>2. ASSUME NEW s \in DOMAIN sockets, Breaks(s) PROVE BridgeInv'
  BY <1>2, BreaksKeeps
<1>3. CASE BeginClose
  BY <1>3, BeginCloseKeeps
<1>4. CASE CloseSubscriber
  BY <1>4, CloseSubscriberKeeps
<1>5. CASE ForgetSubscriber
  BY <1>5, ForgetSubscriberKeeps
<1>6. CASE Renew
  BY <1>6, RenewKeeps
<1>7. CASE PublishOwn
  BY <1>7, PublishOwnKeeps
<1>8. CASE PublishElsewhere
  BY <1>8, PublishElsewhereKeeps
<1>9. CASE UNCHANGED bridgeVars
  BY <1>9, BridgeStutters
<1> QED BY <1>1, <1>2, <1>3, <1>4, <1>5, <1>6, <1>7, <1>8, <1>9 DEF BridgeNext

\* The strengthening: what is still in the connections and listeners, bridge by
\* bridge, continues what was handed over.
THEOREM TheBridgeKeepsItsTurn == BridgeSpec => []BridgeInv
<1> QED BY BridgeStarts, BridgeStepHolds, PTL DEF BridgeSpec

\* The turns are the order of what is delivered, but for the late ones.
LEMMA InvMeansStragglers ==
    ASSUME BridgeInv
    PROVE  StragglersOnly
<1>1. Typed /\ Server /\ InTurn /\ Lateness
  BY DEF BridgeInv
<1>2. BridgeTypeOK
  <2>1. current \in {NoBridge} \cup DOMAIN bridges
    BY <1>1, CurrentIs
  <2> QED BY <1>1, <2>1 DEF BridgeTypeOK, Typed, Server
<1>3. /\ \A i \in DOMAIN delivered : delivered[i].by \in Nat /\ delivered[i].number \in Nat
      /\ \A i, j \in DOMAIN delivered : i < j =>
           /\ delivered[i].by <= delivered[j].by => delivered[i].number < delivered[j].number
           /\ delivered[i].by > delivered[j].by => delivered[i].number > delivered[j].number /\ delivered[j].late
  <2>1. \A i \in DOMAIN delivered : delivered[i] \in Delivery
    BY <1>1, ElementOfSeq, LenProperties DEF Typed
  <2> QED BY <1>1, <2>1 DEF InTurn, Turns, Delivery
<1>4. ASSUME NEW i \in DOMAIN delivered, NEW j \in DOMAIN delivered, i < j
      PROVE  \/ delivered[i].number < delivered[j].number
             \/ delivered[i].number > delivered[j].number /\ delivered[j].late /\ delivered[j].by < delivered[i].by
  <2>1. delivered[i].by <= delivered[j].by \/ (delivered[i].by > delivered[j].by /\ delivered[j].by < delivered[i].by)
    BY <1>3
  <2> QED BY <1>3, <1>4, <2>1
<1> QED BY <1>1, <1>2, <1>4 DEF StragglersOnly, Lateness

\* The leaks are those the property allows.
LEMMA InvMeansRaceLeaks ==
    ASSUME BridgeInv
    PROVE  OnlyTheRaceLeaks
  BY DEF BridgeInv, Leaks, Astray, OnlyTheRaceLeaks

\* What reaches the server comes once and in the order of the channel, over any number
\* of reconnections, but for one message that a closed bridge had read.
THEOREM OnlyStragglersAreLate == BridgeSpec => []StragglersOnly
<1> QED BY TheBridgeKeepsItsTurn, InvMeansStragglers, PTL

\* However bridges are closed, each leaves at most one connection open that neither
\* it nor its listener knows of (but for refused ones), and never before it is closed.
THEOREM TheRaceLeaksOneConnection == BridgeSpec => []OnlyTheRaceLeaks
<1> QED BY TheBridgeKeepsItsTurn, InvMeansRaceLeaks, PTL
================================================================================
