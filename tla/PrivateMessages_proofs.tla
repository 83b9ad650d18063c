------------------------ MODULE PrivateMessages_proofs ------------------------
(***************************************************************************)
(* Proofs about PrivateMessages: a private message is shown to the player  *)
(* it is for and to the spies only, and who ignores the sender sees it     *)
(* only if the lists there did not tell who it was, for all servers,       *)
(* players, names and messages.  A tick folds a queue of packets, so the   *)
(* proofs rest on what a fold from the left does, shown by descent to a    *)
(* least number.                                                           *)
(***************************************************************************)
EXTENDS PrivateMessages, SequenceTheorems, WellFoundedInduction, TLAPS

\* A set of numbers has a least one: induction over the numbers, as a fact of sets.
LEMMA Least ==
    ASSUME NEW T \in SUBSET Nat, T # {}
    PROVE  \E x \in T : \A y \in T : x <= y
<1> DEFINE R == {ss \in Nat \X Nat : ss[1] < ss[2]}
<1>1. IsWellFoundedOn(R, Nat)
  BY NatLessThanWellFounded DEF OpToRel
<1>2. \A x, y \in Nat : y < x => <<y, x>> \in R
  OBVIOUS
<1>3. \E x \in T : \A y \in T : ~(<<y, x>> \in R)
  <2> HIDE DEF R
  <2> QED BY <1>1, WFMin
<1> HIDE DEF R
<1>4. PICK x \in T : \A y \in T : ~(<<y, x>> \in R)
  BY <1>3
<1>5. \A y \in T : x <= y
  <2> SUFFICES ASSUME NEW y \in T PROVE x <= y
    OBVIOUS
  <2>1. x \in Nat /\ y \in Nat
    OBVIOUS
  <2>2. ~(y < x)
    BY <1>2, <1>4, <2>1
  <2> QED BY <2>1, <2>2
<1> QED BY <1>5

\* The greatest of some positions.
LEMMA MaxIs ==
    ASSUME NEW n \in Nat, NEW S \in SUBSET (1..n), S # {}
    PROVE  Max(S) \in S /\ \A y \in S : Max(S) >= y
<1> DEFINE T == {n - y : y \in S}
<1>1. T \in SUBSET Nat /\ T # {}
  <2>1. \A y \in S : y \in Int /\ n - y \in Nat
    OBVIOUS
  <2> QED BY <2>1
<1> HIDE DEF T
<1>2. PICK t \in T : \A u \in T : t <= u
  BY <1>1, Least
<1> USE DEF T
<1>3. PICK x \in S : t = n - x
  OBVIOUS
<1>4. \A y \in S : n - y \in T /\ y \in Nat
  OBVIOUS
<1>5. \A y \in S : x >= y
  BY <1>2, <1>3, <1>4
<1> QED BY <1>5 DEF Max

\* The function of FoldLeft: what the packets at the positions S make of base.
IsFold(g, s, q, base, n) ==
    g = [S \in SUBSET (1..n) |->
            IF S = {} THEN base ELSE Handled(s, g[S \ {Max(S)}], q[Max(S)])]

\* The recursion of FoldLeft has a solution, whatever packets it folds.
LEMMA FoldIsDefined ==
    ASSUME NEW s, NEW q, NEW base, NEW n \in Nat
    PROVE  \E g : IsFold(g, s, q, base, n)
<1> DEFINE Step(g, S) == IF S = {} THEN base ELSE Handled(s, g[S \ {Max(S)}], q[Max(S)])
           Is(k) == \E g : IsFold(g, s, q, base, k)
           Wrong == {k \in Nat : ~Is(k)}
<1>1. SUFFICES ASSUME Wrong # {} PROVE FALSE
  OBVIOUS
<1>2. PICK k \in Wrong : \A j \in Wrong : k <= j
  <2>1. Wrong \in SUBSET Nat
    OBVIOUS
  <2> HIDE DEF Wrong
  <2> QED BY <1>1, <2>1, Least
<1>3. CASE k = 0
  <2> DEFINE g == [S \in SUBSET (1..0) |-> base]
  <2>1. \A S \in SUBSET (1..0) : S = {}
    OBVIOUS
  <2>2. g = [S \in SUBSET (1..0) |-> Step(g, S)]
    BY <2>1
  <2>3. IsFold(g, s, q, base, 0)
    BY <2>2 DEF IsFold
  <2> HIDE DEF g, Step
  <2> QED BY <1>3, <2>3
<1>4. CASE k # 0
  <2> DEFINE j == k - 1
  <2>1. j \in Nat /\ k = j + 1 /\ k \in Nat /\ j \notin Wrong
    <3>1. k \in Nat
      OBVIOUS
    <3>2. j \in Nat /\ j < k
      BY <1>4, <3>1
    <3>3. j \notin Wrong
      <4> HIDE DEF Wrong, j
      <4> QED BY <1>2, <3>1, <3>2
    <3> HIDE DEF Wrong
    <3> QED BY <3>1, <3>2, <3>3
  <2> HIDE DEF j
  <2>2. Is(j)
    BY <2>1
  <2> HIDE DEF Step
  <2>3. PICK g : IsFold(g, s, q, base, j)
    BY <2>2
  <2> DEFINE h == [S \in SUBSET (1..k) |-> IF k \in S THEN Handled(s, g[S \ {k}], q[k]) ELSE g[S]]
  <2>4. ASSUME NEW S \in SUBSET (1..k) PROVE h[S] = Step(h, S)
    <3>1. CASE S = {}
      <4>1. S \in SUBSET (1..j) /\ k \notin S
        BY <3>1
      <4>2. g[S] = Step(g, S)
        BY <2>3, <4>1 DEF IsFold, Step
      <4> QED BY <3>1, <4>1, <4>2 DEF Step
    <3>2. CASE k \in S
      <4>1. S \ {k} \in SUBSET (1..j) /\ S \ {k} \in SUBSET (1..k) /\ k \notin S \ {k}
        BY <2>1
      <4>2. Max(S) = k
        <5>1. Max(S) \in S /\ Max(S) >= k
          BY <2>1, <3>2, MaxIs
        <5>2. Max(S) \in 1..k
          BY <5>1
        <5> QED BY <5>1, <5>2, <2>1
      <4>3. h[S \ {k}] = g[S \ {k}]
        BY <4>1
      <4> QED BY <3>2, <4>2, <4>3 DEF Step
    <3>3. CASE k \notin S /\ S # {}
      <4>1. S \in SUBSET (1..j)
        BY <2>1, <3>3
      <4>2. Max(S) \in S
        BY <2>1, <3>3, MaxIs
      <4>3. h[S] = g[S] /\ h[S \ {Max(S)}] = g[S \ {Max(S)}]
        BY <3>3
      <4>4. g[S] = Step(g, S)
        BY <2>3, <4>1 DEF IsFold, Step
      <4> QED BY <3>3, <4>3, <4>4 DEF Step
    <3> QED BY <3>1, <3>2, <3>3
  <2>5. h = [S \in SUBSET (1..k) |-> Step(h, S)]
    BY <2>4
  <2> HIDE DEF h
  <2>6. IsFold(h, s, q, base, k)
    BY <2>5 DEF IsFold, Step
  <2> QED BY <2>6
<1> QED BY <1>3, <1>4

\* A tick handles the packets of the inbox one after the other.
Pumped(s, base, q) == FoldLeft(LAMBDA views, pkt : Handled(s, views, pkt), base, q)

\* Pumping a queue is handling its packets one by one.
LEMMA PumpIsStepwise ==
    ASSUME NEW s, NEW q, NEW base, NEW n \in Nat, DOMAIN q = 1..n
    PROVE  \E v : /\ v[0] = base
                  /\ \A k \in 0..(n - 1) : v[k + 1] = Handled(s, v[k], q[k + 1])
                  /\ Pumped(s, base, q) = v[n]
<1> DEFINE iter == CHOOSE g : IsFold(g, s, q, base, n)
<1>1. IsFold(iter, s, q, base, n)
  BY FoldIsDefined
<1>2. Pumped(s, base, q) = iter[1..n]
  BY DEF Pumped, FoldLeft, MapThenFoldSet, IsFold
<1> HIDE DEF iter
<1> DEFINE v == [k \in 0..n |-> iter[1..k]]
<1>3. v[0] = base
  BY <1>1 DEF IsFold
<1>4. ASSUME NEW k \in 0..(n - 1) PROVE v[k + 1] = Handled(s, v[k], q[k + 1])
  <2> DEFINE S == 1..(k + 1)
  <2>1. S \in SUBSET (1..n) /\ S # {} /\ k + 1 \in S
    <3>1. k \in Nat /\ k + 1 <= n /\ k + 1 \in S
      OBVIOUS
    <3>2. \A i \in S : i \in 1..n
      BY <3>1
    <3> QED BY <3>1, <3>2
  <2>2. Max(S) = k + 1
    <3>1. Max(S) \in S /\ Max(S) >= k + 1
      BY <2>1, MaxIs
    <3> QED BY <3>1
  <2>3. S \ {k + 1} = 1..k
    OBVIOUS
  <2> HIDE DEF S
  <2>4. iter[S] = Handled(s, iter[1..k], q[k + 1])
    BY <1>1, <2>1, <2>2, <2>3 DEF IsFold
  <2> QED BY <2>4 DEF S
<1>5. Pumped(s, base, q) = v[n]
  BY <1>2
<1> QED BY <1>3, <1>4, <1>5
-----------------------------------------------------------------------------
(* The inductive invariant *)

\* A message accepted for somebody, of somebody who is not shadow-muted.
Sent(m) ==
    /\ fate[m] \in Players \X Players \X Names
    /\ From(m) \notin Shadowed
    /\ Typed(m) \in {To(m), Display[To(m)]}

Copy(m) == Private(m, From(m), To(m))

\* What an inbox or the wire may hold: lists, and messages that were sent.
Packet ==
    {List(s, who) : s \in Servers, who \in SUBSET Players}
    \cup {Private(m, p, q) : m \in Messages, p \in Players, q \in Players}
    \cup {Alert(m, q) : m \in Messages, q \in Players}
PacketOK(pkt) ==
    \/ \E s \in Servers, who \in SUBSET Players : pkt = List(s, who)
    \/ \E m \in Messages : Sent(m) /\ (pkt = Copy(m) \/ pkt = Alert(m, To(m)))

ListsOK(s, l) ==
    \A r \in DOMAIN l : /\ r \in (Servers \ {s}) \cup {Proxy}
                        /\ l[r] \in [who : SUBSET Players, age : 0..TTL]

\* What is shown was sent, and is shown to whom it may be.
SeenOK(set) ==
    /\ set \subseteq Views
    /\ \A v \in set : Sent(v[1]) /\ v[2] = To(v[1]) /\ (v[4] = 2 => v[1] \in doubtful)
SpiedOK(set) ==
    /\ set \subseteq Views
    /\ \A v \in set : /\ Sent(v[1]) /\ v[2] \in Spies \ {From(v[1]), To(v[1])}
                      /\ v[4] = 2 => v[1] \in doubtful
AlertedOK(set) == set \subseteq Messages \X Players /\ \A v \in set : Sent(v[1])
LastOK(l, set) ==
    /\ l \in [Players -> Players \cup {Nobody}]
    /\ \A p \in Players : l[p] # Nobody => \E v \in set : v[2] = p /\ From(v[1]) = l[p]
IgnoredOK(set, unseen) ==
    /\ unseen \subseteq Messages \X Servers
    /\ \A v \in set : From(v[1]) \in Ignores[v[2]] => \E s \in Servers : <<v[1], s>> \in unseen
ShownOK(view) ==
    /\ SeenOK(view.seen) /\ SpiedOK(view.spied) /\ AlertedOK(view.alerted)
    /\ LastOK(view.last, view.seen) /\ IgnoredOK(view.seen, view.blind)
AllShown == [last |-> last, seen |-> seen, spied |-> spied, alerted |-> alerted, blind |-> blind]

Unshown(m, s, view) == \A v \in view.seen \cup view.spied : ~(v[1] = m /\ v[3] = s)

\* A message whose answer was not lost has one packet for a server, and has not
\* been shown there while the packet is under way.
OnceEach ==
    \A s \in Servers, m \in Messages \ doubtful : Sent(m) =>
        /\ \A i, j \in DOMAIN inbox[s] : inbox[s][i] = Copy(m) /\ inbox[s][j] = Copy(m) => i = j
        /\ \A i \in DOMAIN inbox[s] :
              inbox[s][i] = Copy(m) => <<s, Copy(m)>> \notin wire /\ Unshown(m, s, AllShown)
        /\ <<s, Copy(m)>> \in wire => Unshown(m, s, AllShown)

WhereOK ==
    /\ at \in [Players -> Servers \cup {Nowhere}]
    /\ due \subseteq Servers /\ linked \subseteq Servers /\ events \in 0..MaxEvents
    /\ fate \in [Messages -> {<<>>, <<Nobody>>} \cup (Players \X Players \X Names)]
    /\ DOMAIN remote = Servers /\ \A s \in Servers : ListsOK(s, remote[s])
InFlight ==
    /\ inbox \in [Servers -> Seq(Packet)]
    /\ \A s \in Servers : \A i \in DOMAIN inbox[s] : PacketOK(inbox[s][i])
    /\ \A x \in wire : x = <<x[1], x[2]>> /\ x[1] \in Servers /\ PacketOK(x[2])

IInv == WhereOK /\ InFlight /\ ShownOK(AllShown) /\ OnceEach

-----------------------------------------------------------------------------
(* A packet *)

\* What a server can change, as a packet finds it.
ViewOK(s, view) ==
    /\ view = [lists |-> view.lists, last |-> view.last, seen |-> view.seen,
               spied |-> view.spied, alerted |-> view.alerted, blind |-> view.blind]
    /\ ListsOK(s, view.lists) /\ ShownOK(view)

\* A sent message has a sender and a target.
LEMMA SentIs ==
    ASSUME NEW m, Sent(m)
    PROVE  /\ From(m) \in Players \ Shadowed /\ To(m) \in Players
           /\ fate[m] # <<>> /\ fate[m] = <<From(m), To(m), Typed(m)>>
BY DEF Sent, From, To, Typed

\* Shown adds one copy for each of who.
LEMMA ShownAdds ==
    ASSUME NEW set, NEW m, NEW who, NEW s, NEW v \in Shown(set, m, who, s)
    PROVE  \/ v \in set
           \/ /\ v[1] = m /\ v[2] \in who /\ v[3] = s /\ v[4] \in {1, 2}
              /\ v = <<m, v[2], s, v[4]>>
              /\ v[4] = 2 => <<m, v[2], s, 1>> \in set
<1>1. CASE v \in set
  BY <1>1
<1>2. CASE v \notin set
  <2>1. PICK x \in who : v = <<m, x, s, IF <<m, x, s, 1>> \in set THEN 2 ELSE 1>>
    BY <1>2 DEF Shown
  <2>2. v[1] = m /\ v[2] = x /\ v[3] = s /\ v[4] = IF <<m, x, s, 1>> \in set THEN 2 ELSE 1
    BY <2>1
  <2>3. v = <<m, x, s, v[4]>>
    BY <2>1, <2>2
  <2> QED BY <2>2, <2>3
<1> QED BY <1>1, <1>2

\* A list, an alert or a message keeps what a server knows and has shown in order,
\* and shows no other message.
LEMMA NamesKept ==
    ASSUME NEW s \in Servers, NEW view, ViewOK(s, view),
           NEW t \in Servers, NEW who \in SUBSET Players,
           NEW new \in ReceiveNames(s, view, List(t, who))
    PROVE  ViewOK(s, new) /\ new.seen = view.seen /\ new.spied = view.spied
<1> DEFINE pkt == List(t, who)
<1>1. pkt.from = t /\ pkt.who = who
  BY DEF List
<1> HIDE DEF pkt
<1>2. CASE t = s
  BY <1>1, <1>2 DEF ReceiveNames, pkt
<1>3. CASE t # s
  <2> DEFINE l == [r \in DOMAIN view.lists \cup {t} |->
                      IF r = t THEN [who |-> who, age |-> 0] ELSE view.lists[r]]
  <2>1. new = [view EXCEPT !.lists = l]
    BY <1>1, <1>3 DEF ReceiveNames, pkt
  <2>2. ListsOK(s, l)
    BY <1>3, MessagesAssumption DEF ListsOK, ViewOK
  <2> HIDE DEF l
  <2>3. new = [lists |-> l, last |-> view.last, seen |-> view.seen,
               spied |-> view.spied, alerted |-> view.alerted, blind |-> view.blind]
    BY <2>1 DEF ViewOK
  <2>4. ViewOK(s, new) /\ new.seen = view.seen /\ new.spied = view.spied
    BY <2>2, <2>3 DEF ViewOK, ShownOK
  <2> QED BY <2>4
<1> QED BY <1>2, <1>3

\* Handling an alert keeps the view as it must be.
LEMMA AlertKept ==
    ASSUME NEW s \in Servers, NEW view, ViewOK(s, view),
           NEW m \in Messages, Sent(m), NEW new \in ReceiveAlert(s, view, Alert(m, To(m)))
    PROVE  ViewOK(s, new) /\ new.seen = view.seen /\ new.spied = view.spied
<1> DEFINE pkt == Alert(m, To(m))
           al == IF at[To(m)] = s THEN view.alerted \cup {<<m, To(m)>>} ELSE view.alerted
<1>1. pkt.id = m /\ pkt.to = To(m)
  BY DEF Alert
<1> HIDE DEF pkt
<1>2. new = [view EXCEPT !.alerted = al]
  BY <1>1 DEF ReceiveAlert, pkt
<1>3. AlertedOK(al)
  BY SentIs DEF ViewOK, ShownOK, AlertedOK
<1> HIDE DEF al
<1>4. new = [lists |-> view.lists, last |-> view.last, seen |-> view.seen,
             spied |-> view.spied, alerted |-> al, blind |-> view.blind]
  BY <1>2 DEF ViewOK
<1>5. ViewOK(s, new) /\ new.seen = view.seen /\ new.spied = view.spied
  BY <1>3, <1>4 DEF ViewOK, ShownOK
<1> QED BY <1>5

\* Handling a copy of a message keeps the view as it must be.
LEMMA CopyKept ==
    ASSUME NEW s \in Servers, NEW view, ViewOK(s, view),
           NEW m \in Messages, Sent(m), m \notin doubtful => Unshown(m, s, view),
           NEW new \in ReceivePrivate(s, view, Copy(m))
    PROVE  /\ ViewOK(s, new)
           /\ \A v \in new.seen \cup new.spied :
                 v \in view.seen \cup view.spied \/ (v[1] = m /\ v[3] = s)
<1> DEFINE pkt == Copy(m)
           p == From(m)
           q == To(m)
           here == at[q] = s
           bl == IF here /\ Mistakable(view, p) THEN view.blind \cup {<<m, s>>} ELSE view.blind
           who == (Spies \cap Here(s)) \ {p, q}
           sp == Shown(view.spied, m, who, s)
           SeenIf(ignored) == IF here /\ ~ignored THEN Shown(view.seen, m, {q}, s) ELSE view.seen
           LastIf(ignored) == IF here /\ ~ignored THEN [view.last EXCEPT ![q] = p] ELSE view.last
<1>1. pkt.id = m /\ pkt.from = p /\ pkt.to = q
  BY DEF Copy, Private
<1> HIDE DEF pkt
<1>0. PICK found \in Asked(view, p) :
         new = [view EXCEPT !.seen = SeenIf(here /\ found \in Ignores[q]),
                            !.last = LastIf(here /\ found \in Ignores[q]),
                            !.blind = bl, !.spied = sp]
  BY <1>1 DEF ReceivePrivate, Echoed, pkt
<1> DEFINE ignored == here /\ found \in Ignores[q]
           se == SeenIf(ignored)
           la == LastIf(ignored)
<1>2. new = [view EXCEPT !.seen = se, !.last = la, !.blind = bl, !.spied = sp]
  BY <1>0
<1>3. p \in Players /\ q \in Players
  BY SentIs
<1>4. /\ SeenOK(view.seen) /\ SpiedOK(view.spied) /\ AlertedOK(view.alerted)
      /\ LastOK(view.last, view.seen) /\ IgnoredOK(view.seen, view.blind)
  BY DEF ViewOK, ShownOK
<1> HIDE DEF who
<1>5. \A v \in se : \/ v \in view.seen
                    \/ /\ v = <<m, q, s, v[4]>> /\ v[1] = m /\ v[2] = q /\ v[3] = s
                       /\ v[4] \in {1, 2}
                       /\ v[4] = 2 => <<m, q, s, 1>> \in view.seen
                       /\ here /\ ~ignored
  <2>1. CASE here /\ ~ignored
    <3>1. \A v \in Shown(view.seen, m, {q}, s) :
             \/ v \in view.seen
             \/ /\ v[1] = m /\ v[2] \in {q} /\ v[3] = s /\ v[4] \in {1, 2}
                /\ v = <<m, v[2], s, v[4]>>
                /\ v[4] = 2 => <<m, v[2], s, 1>> \in view.seen
      BY ShownAdds
    <3> HIDE DEF here, ignored, q
    <3> QED BY <2>1, <3>1
  <2>2. CASE ~(here /\ ~ignored)
    BY <2>2
  <2> QED BY <2>1, <2>2
<1>6. \A v \in sp : \/ v \in view.spied
                    \/ /\ v = <<m, v[2], s, v[4]>> /\ v[1] = m /\ v[2] \in who /\ v[3] = s
                       /\ v[4] \in {1, 2}
                       /\ v[4] = 2 => <<m, v[2], s, 1>> \in view.spied
  BY ShownAdds
<1>7. m \notin doubtful => \A x : <<m, x, s, 1>> \notin view.seen \cup view.spied
  BY DEF Unshown
<1>8. SeenOK(se)
  <2> HIDE DEF se, here, ignored, p, q
  <2>1. \A v \in se : v \in Views
    BY <1>3, <1>4, <1>5 DEF SeenOK, Views
  <2>2. \A v \in se : Sent(v[1]) /\ v[2] = To(v[1]) /\ (v[4] = 2 => v[1] \in doubtful)
    BY <1>4, <1>5, <1>7 DEF SeenOK, q
  <2> QED BY <2>1, <2>2 DEF SeenOK
<1>9. SpiedOK(sp)
  <2>1. who \subseteq Spies \ {p, q} /\ who \subseteq Players
    BY DEF who, Here
  <2> HIDE DEF sp, p, q
  <2>2. ASSUME NEW v \in sp PROVE v \in Views
    <3>1. CASE v \in view.spied
      BY <3>1, <1>4 DEF SpiedOK
    <3>2. CASE v \notin view.spied
      <4>1. v = <<m, v[2], s, v[4]>> /\ v[2] \in Players /\ v[4] \in {1, 2}
        BY <3>2, <2>1, <1>6
      <4> QED BY <4>1 DEF Views
    <3> QED BY <3>1, <3>2
  <2>3. \A v \in sp : /\ Sent(v[1]) /\ v[2] \in Spies \ {From(v[1]), To(v[1])}
                      /\ v[4] = 2 => v[1] \in doubtful
    BY <2>1, <1>4, <1>6, <1>7 DEF SpiedOK, p, q
  <2> QED BY <2>2, <2>3 DEF SpiedOK
<1>10. view.seen \subseteq se
  BY DEF Shown
<1>11. LastOK(la, se)
  <2>1. CASE here /\ ~ignored
    <3> DEFINE c == <<m, q, s, IF <<m, q, s, 1>> \in view.seen THEN 2 ELSE 1>>
    <3>1. c \in se /\ c[1] = m /\ c[2] = q
      BY <2>1 DEF Shown
    <3>2. la \in [Players -> Players \cup {Nobody}] /\ la[q] = p
          /\ \A x \in Players \ {q} : la[x] = view.last[x]
      BY <2>1, <1>3, <1>4 DEF LastOK
    <3> HIDE DEF la, se, c, q, here, ignored
    <3> QED BY <3>1, <3>2, <1>4, <1>10 DEF LastOK
  <2>2. CASE ~(here /\ ~ignored)
    BY <2>2, <1>4
  <2> QED BY <2>1, <2>2
<1>12. IgnoredOK(se, bl)
  <2>1. view.blind \subseteq bl /\ bl \subseteq Messages \X Servers
    BY <1>4 DEF IgnoredOK
  <2>2. here /\ ~ignored /\ p \in Ignores[q] => <<m, s>> \in bl
    <3>1. ~Mistakable(view, p) => found = p
      BY <1>3 DEF Mistakable, Asked, Found
    <3> QED BY <3>1
  <2> HIDE DEF se, bl, here, ignored, p, q
  <2> QED BY <2>1, <2>2, <1>4, <1>5 DEF IgnoredOK, p
<1> HIDE DEF se, la, bl, sp
<1>13. new = [lists |-> view.lists, last |-> la, seen |-> se,
              spied |-> sp, alerted |-> view.alerted, blind |-> bl]
  BY <1>2 DEF ViewOK
<1>14. ViewOK(s, new)
  BY <1>4, <1>8, <1>9, <1>11, <1>12, <1>13 DEF ViewOK, ShownOK
<1>15. \A v \in new.seen \cup new.spied :
          v \in view.seen \cup view.spied \/ (v[1] = m /\ v[3] = s)
  BY <1>5, <1>6, <1>13
<1> QED BY <1>14, <1>15
\* A packet that is handled keeps what a server knows and has shown in order, and
\* shows nothing but itself.
LEMMA DispatchKept ==
    ASSUME NEW s \in Servers, NEW view, ViewOK(s, view), NEW pkt, PacketOK(pkt),
           \A m \in Messages \ doubtful : Sent(m) /\ pkt = Copy(m) => Unshown(m, s, view),
           NEW new \in Dispatch(s, view, pkt)
    PROVE  /\ ViewOK(s, new)
           /\ \A v \in new.seen \cup new.spied :
                 \/ v \in view.seen \cup view.spied
                 \/ v[3] = s /\ Sent(v[1]) /\ pkt = Copy(v[1])
<1>1. CASE \E t \in Servers, who \in SUBSET Players : pkt = List(t, who)
  <2>1. PICK t \in Servers, who \in SUBSET Players : pkt = List(t, who)
    BY <1>1
  <2>2. pkt.act = "UpdateNames"
    BY <2>1 DEF List
  <2>3. new \in ReceiveNames(s, view, List(t, who))
    BY <2>1, <2>2 DEF Dispatch
  <2> QED BY <2>3, NamesKept
<1>2. ASSUME NEW m \in Messages, Sent(m), pkt = Alert(m, To(m))
      PROVE  ViewOK(s, new) /\ new.seen = view.seen /\ new.spied = view.spied
  <2>1. pkt.act = "SendLang"
    BY <1>2 DEF Alert
  <2>2. new \in ReceiveAlert(s, view, Alert(m, To(m)))
    BY <1>2, <2>1 DEF Dispatch
  <2> QED BY <1>2, <2>2, AlertKept
<1>3. ASSUME NEW m \in Messages, Sent(m), pkt = Copy(m)
      PROVE  /\ ViewOK(s, new)
             /\ \A v \in new.seen \cup new.spied :
                   v \in view.seen \cup view.spied \/ (v[1] = m /\ v[3] = s)
  <2>1. pkt.act = "SendPrivateRaw"
    BY <1>3 DEF Copy, Private
  <2>2. new \in ReceivePrivate(s, view, Copy(m))
    BY <1>3, <2>1 DEF Dispatch
  <2>3. m \notin doubtful => Unshown(m, s, view)
    BY <1>3
  <2> QED BY <1>3, <2>2, <2>3, CopyKept
<1>4. CASE \E m \in Messages : Sent(m) /\ (pkt = Copy(m) \/ pkt = Alert(m, To(m)))
  <2>1. PICK m \in Messages : Sent(m) /\ (pkt = Copy(m) \/ pkt = Alert(m, To(m)))
    BY <1>4
  <2>2. CASE pkt = Copy(m)
    BY <2>1, <2>2, <1>3
  <2>3. CASE pkt = Alert(m, To(m))
    BY <2>1, <2>3, <1>2
  <2> QED BY <2>1, <2>2, <2>3
<1> QED BY <1>1, <1>4 DEF PacketOK

\* Of what an inbox of n packets holds, a tick makes a view that is in order and
\* shows nothing but those packets.
LEMMA PumpKept ==
    ASSUME IInv, NEW s \in Servers, NEW new \in Pumped(s, {ViewOf(s)}, inbox[s])
    PROVE  /\ ViewOK(s, new)
           /\ \A v \in new.seen \cup new.spied :
                 \/ v \in seen \cup spied
                 \/ v[3] = s /\ \E i \in DOMAIN inbox[s] : Sent(v[1]) /\ inbox[s][i] = Copy(v[1])
<1> DEFINE q == inbox[s]
           n == Len(q)
           base == ViewOf(s)
           views == {base}
<1>1. n \in Nat /\ DOMAIN q = 1..n /\ \A i \in 1..n : PacketOK(q[i])
  <2>1. q \in Seq(Packet)
    BY DEF IInv, InFlight
  <2>2. n \in Nat /\ DOMAIN q = 1..n
    BY <2>1
  <2> QED BY <2>2 DEF IInv, InFlight
<1>2. base = [lists |-> remote[s], last |-> last, seen |-> seen, spied |-> spied,
              alerted |-> alerted, blind |-> blind]
  BY DEF ViewOf
<1>3. ViewOK(s, base)
  <2> HIDE DEF base
  <2> QED BY <1>2 DEF ViewOK, IInv, WhereOK, ShownOK, AllShown
<1>4. base.seen = seen /\ base.spied = spied
  BY <1>2
<1> HIDE DEF base, n, views
<1>5. PICK w : /\ w[0] = views
               /\ \A k \in 0..(n - 1) : w[k + 1] = Handled(s, w[k], q[k + 1])
               /\ Pumped(s, views, q) = w[n]
  BY <1>1, PumpIsStepwise
<1> DEFINE Fits(view, k) == /\ ViewOK(s, view)
                            /\ \A v \in view.seen \cup view.spied :
                                  \/ v \in seen \cup spied
                                  \/ v[3] = s /\ \E i \in 1..k : Sent(v[1]) /\ q[i] = Copy(v[1])
           Upto(k) == \A view \in w[k] : Fits(view, k)
<1>6. Upto(0)
  BY <1>3, <1>4, <1>5 DEF views
<1>7. ASSUME NEW k \in 0..(n - 1), Upto(k) PROVE Upto(k + 1)
  <2>0. k \in Nat /\ k + 1 \in 1..n /\ k + 1 \notin 1..k /\ \A i \in 1..k : i \in 1..n /\ i \in 1..(k + 1)
    BY <1>1
  <2>1. SUFFICES ASSUME NEW next \in w[k + 1] PROVE Fits(next, k + 1)
    OBVIOUS
  <2>2. PICK view \in w[k] : next \in Dispatch(s, view, q[k + 1])
    BY <1>5 DEF Handled
  <2>3. Fits(view, k)
    BY <1>7
  <2>4. ASSUME NEW m \in Messages \ doubtful, Sent(m), q[k + 1] = Copy(m)
        PROVE  Unshown(m, s, view)
    <3>1. Unshown(m, s, AllShown)
      BY <1>1, <2>0, <2>4 DEF IInv, OnceEach
    <3>2. \A v \in seen \cup spied : ~(v[1] = m /\ v[3] = s)
      BY <3>1 DEF Unshown, AllShown
    <3>3. \A i \in 1..k : q[i] # Copy(m)
      BY <1>1, <2>0, <2>4 DEF IInv, OnceEach
    <3> HIDE DEF q
    <3> QED BY <3>2, <3>3, <2>3 DEF Unshown
  <2>5. PacketOK(q[k + 1])
    BY <1>1, <2>0
  <2> HIDE DEF q
  <2>6. /\ ViewOK(s, next)
        /\ \A v \in next.seen \cup next.spied :
              \/ v \in view.seen \cup view.spied
              \/ v[3] = s /\ Sent(v[1]) /\ q[k + 1] = Copy(v[1])
    BY <2>2, <2>3, <2>4, <2>5, DispatchKept
  <2>7. k + 1 \in 1..(k + 1)
    BY <2>0
  <2> QED BY <2>0, <2>3, <2>6, <2>7
<1> HIDE DEF Upto
<1>8. \A k \in 0..n : Upto(k)
  <2> DEFINE Wrong == {k \in 0..n : ~Upto(k)}
  <2>1. SUFFICES ASSUME Wrong # {} PROVE FALSE
    OBVIOUS
  <2>2. Wrong \in SUBSET Nat
    OBVIOUS
  <2>3. PICK k \in Wrong : \A j \in Wrong : k <= j
    <3> HIDE DEF Wrong
    <3> QED BY <2>1, <2>2, Least
  <2>4. k # 0 /\ k \in Nat /\ k <= n /\ ~Upto(k)
    BY <1>6
  <2>5. k - 1 \in 0..(n - 1) /\ (k - 1) + 1 = k /\ k - 1 \in 0..n
    BY <2>4, <1>1
  <2>6. k - 1 \notin Wrong
    <3> HIDE DEF Wrong
    <3>1. ~(k <= k - 1)
      BY <2>4
    <3> QED BY <3>1, <2>3
  <2>7. Upto(k - 1)
    BY <2>5, <2>6
  <2>8. Upto((k - 1) + 1)
    BY <2>5, <2>7, <1>7
  <2> QED BY <2>4, <2>5, <2>8
<1>9. Upto(n)
  BY <1>1, <1>8
<1> QED BY <1>1, <1>5, <1>9 DEF Upto, Fits, base, views

\* What a server has become keeps the invariant's view of it.
LEMMA BecomeKept ==
    ASSUME IInv, NEW s \in Servers, NEW new, ViewOK(s, new), Become(s, new),
           UNCHANGED <<at, due, linked, fate, events, doubtful>>
    PROVE  /\ WhereOK' /\ ShownOK(AllShown)'
           /\ seen' = new.seen /\ spied' = new.spied
<1>1. /\ remote' = [remote EXCEPT ![s] = new.lists]
      /\ last' = new.last /\ seen' = new.seen /\ spied' = new.spied
      /\ alerted' = new.alerted /\ blind' = new.blind
  BY DEF Become
<1>2. WhereOK'
  <2>1. DOMAIN remote' = Servers /\ \A t \in Servers : ListsOK(t, remote'[t])
    BY <1>1 DEF IInv, WhereOK, ViewOK
  <2> QED BY <2>1 DEF IInv, WhereOK, ListsOK
<1>3. ShownOK(AllShown)'
  <2>1. /\ SeenOK(new.seen) /\ SpiedOK(new.spied) /\ AlertedOK(new.alerted)
        /\ LastOK(new.last, new.seen) /\ IgnoredOK(new.seen, new.blind)
    BY DEF ViewOK, ShownOK
  <2>2. (SeenOK(seen) /\ SpiedOK(spied) /\ AlertedOK(alerted)
        /\ LastOK(last, seen) /\ IgnoredOK(seen, blind))'
    BY <1>1, <2>1 DEF SeenOK, SpiedOK, AlertedOK, LastOK, IgnoredOK, Sent, From, To, Typed
  <2> QED BY <2>2 DEF ShownOK, AllShown
<1> QED BY <1>1, <1>2, <1>3
-----------------------------------------------------------------------------
(* The steps *)

\* A step that settles the fate of no message but new ones keeps what was sent.
Settled == \A m \in Messages : Sent(m) => fate'[m] = fate[m]

\* A message that was sent stays so.
LEMMA SentStays ==
    ASSUME Settled, NEW m \in Messages, Sent(m)
    PROVE  Sent(m)' /\ From(m)' = From(m) /\ To(m)' = To(m) /\ Copy(m)' = Copy(m)
BY DEF Settled, Sent, From, To, Typed, Copy, Private

\* A packet that may be underway stays one.
LEMMA PacketStays ==
    ASSUME Settled, NEW pkt, PacketOK(pkt)
    PROVE  PacketOK(pkt)'
BY SentStays DEF PacketOK

\* What was shown stays in order while fewer are remembered as correspondents.
LEMMA ShownStays ==
    ASSUME IInv, Settled, doubtful \subseteq doubtful', UNCHANGED <<seen, spied, alerted, blind>>,
           last' \in [Players -> Players \cup {Nobody}],
           \A p \in Players : last'[p] \in {last[p], Nobody}
    PROVE  ShownOK(AllShown)'
<1>1. /\ SeenOK(seen) /\ SpiedOK(spied) /\ AlertedOK(alerted)
      /\ LastOK(last, seen) /\ IgnoredOK(seen, blind)
  BY DEF IInv, ShownOK, AllShown
<1>2. \A v \in seen \cup spied \cup alerted : v[1] \in Messages /\ Sent(v[1])
  BY <1>1 DEF SeenOK, SpiedOK, AlertedOK, Views
<1>3. \A v \in seen \cup spied \cup alerted :
         Sent(v[1])' /\ From(v[1])' = From(v[1]) /\ To(v[1])' = To(v[1])
  BY <1>2, SentStays
<1>4. SeenOK(seen)'
  BY <1>1, <1>3 DEF SeenOK
<1>5. SpiedOK(spied)'
  BY <1>1, <1>3 DEF SpiedOK
<1>6. AlertedOK(alerted)'
  BY <1>1, <1>3 DEF AlertedOK
<1>7. LastOK(last, seen)'
  BY <1>1, <1>3 DEF LastOK
<1>8. IgnoredOK(seen, blind)'
  BY <1>1, <1>3 DEF IgnoredOK
<1> QED BY <1>4, <1>5, <1>6, <1>7, <1>8 DEF ShownOK, AllShown

\* What Redis pushes comes behind what it pushed before.
LEMMA PushedShape ==
    ASSUME inbox \in [Servers -> Seq(Packet)], NEW pkts \in Seq(Packet), Pushed(pkts)
    PROVE  /\ inbox' \in [Servers -> Seq(Packet)]
           /\ \A t \in Servers : \A i \in DOMAIN inbox'[t] :
                 \/ i \in DOMAIN inbox[t] /\ inbox'[t][i] = inbox[t][i]
                 \/ \E j \in DOMAIN pkts : i = Len(inbox[t]) + j /\ inbox'[t][i] = pkts[j]
<1>1. ASSUME NEW t \in Servers
      PROVE  /\ inbox[t] \o pkts \in Seq(Packet)
             /\ \A i \in DOMAIN (inbox[t] \o pkts) :
                   \/ i \in DOMAIN inbox[t] /\ (inbox[t] \o pkts)[i] = inbox[t][i]
                   \/ \E j \in DOMAIN pkts : i = Len(inbox[t]) + j /\ (inbox[t] \o pkts)[i] = pkts[j]
  <2> DEFINE q == inbox[t]
             both == q \o pkts
  <2>1. q \in Seq(Packet)
    OBVIOUS
  <2> HIDE DEF q
  <2>2. both \in Seq(Packet) /\ Len(both) = Len(q) + Len(pkts)
        /\ \A i \in 1..(Len(q) + Len(pkts)) :
              both[i] = IF i <= Len(q) THEN q[i] ELSE pkts[i - Len(q)]
    BY <2>1, ConcatProperties
  <2> HIDE DEF both
  <2>3. Len(q) \in Nat /\ Len(pkts) \in Nat /\ DOMAIN q = 1..Len(q) /\ DOMAIN pkts = 1..Len(pkts)
        /\ DOMAIN both = 1..(Len(q) + Len(pkts))
    BY <2>1, <2>2
  <2>4. ASSUME NEW i \in 1..(Len(q) + Len(pkts))
        PROVE  \/ i \in DOMAIN q /\ both[i] = q[i]
               \/ \E j \in DOMAIN pkts : i = Len(q) + j /\ both[i] = pkts[j]
    <3>1. CASE i <= Len(q)
      BY <3>1, <2>2, <2>3
    <3>2. CASE ~(i <= Len(q))
      <4>1. i - Len(q) \in DOMAIN pkts /\ i = Len(q) + (i - Len(q)) /\ both[i] = pkts[i - Len(q)]
        BY <3>2, <2>2, <2>3
      <4> QED BY <4>1
    <3> QED BY <3>1, <3>2
  <2> QED BY <2>2, <2>3, <2>4 DEF q, both
<1>2. \A t \in Servers : inbox'[t] = IF t \in linked THEN inbox[t] \o pkts ELSE inbox[t]
  BY DEF Pushed
<1>3. inbox' \in [Servers -> Seq(Packet)]
  BY <1>1 DEF Pushed
<1>4. ASSUME NEW t \in Servers, NEW i \in DOMAIN inbox'[t]
      PROVE  \/ i \in DOMAIN inbox[t] /\ inbox'[t][i] = inbox[t][i]
             \/ \E j \in DOMAIN pkts : i = Len(inbox[t]) + j /\ inbox'[t][i] = pkts[j]
  <2>1. CASE t \in linked
    <3> DEFINE both == inbox[t] \o pkts
    <3>1. inbox'[t] = both
      BY <2>1, <1>2
    <3>2. \A k \in DOMAIN both :
             \/ k \in DOMAIN inbox[t] /\ both[k] = inbox[t][k]
             \/ \E j \in DOMAIN pkts : k = Len(inbox[t]) + j /\ both[k] = pkts[j]
      BY <1>1
    <3> HIDE DEF both
    <3> QED BY <3>1, <3>2
  <2>2. CASE t \notin linked
    BY <2>2, <1>2, <1>4
  <2> QED BY <2>1, <2>2
<1> QED BY <1>3, <1>4

\* An inbox holds what it held, or a list.
OnlyLists ==
    /\ inbox' \in [Servers -> Seq(Packet)]
    /\ \A t \in Servers : \A i \in DOMAIN inbox'[t] :
          \/ i \in DOMAIN inbox[t] /\ inbox'[t][i] = inbox[t][i]
          \/ \E s \in Servers, who \in SUBSET Players : inbox'[t][i] = List(s, who)

\* What publishing names puts in flight are lists of names.
LEMMA PublishedAreLists ==
    ASSUME IInv, NEW s \in Servers, NEW who \in SUBSET Players, PublishNames(s, who)
    PROVE  OnlyLists
<1>1. inbox \in [Servers -> Seq(Packet)]
  BY DEF IInv, InFlight
<1>2. CASE s \in linked
  <2> DEFINE pkts == <<List(s, who)>>
  <2>1. List(s, who) \in Packet
    BY DEF Packet
  <2>2. pkts \in Seq(Packet) /\ DOMAIN pkts = {1} /\ pkts[1] = List(s, who)
    BY <2>1
  <2>3. Pushed(pkts)
    BY <1>2 DEF PublishNames
  <2> HIDE DEF pkts
  <2> QED BY <1>1, <2>2, <2>3, PushedShape DEF OnlyLists
<1>3. CASE s \notin linked
  BY <1>1, <1>3 DEF PublishNames, OnlyLists
<1> QED BY <1>2, <1>3

\* A step that sends no message and shows none.
LEMMA QuietStep ==
    ASSUME IInv, WhereOK', UNCHANGED <<fate, seen, spied, alerted, blind, doubtful, wire>>,
           last' \in [Players -> Players \cup {Nobody}],
           \A p \in Players : last'[p] \in {last[p], Nobody},
           OnlyLists
    PROVE  IInv'
<1>1. Settled
  BY DEF Settled
<1>2. ShownOK(AllShown)'
  BY <1>1, ShownStays
<1>3. InFlight'
  <2>1. \A pkt : PacketOK(pkt) => PacketOK(pkt)'
    BY <1>1, PacketStays
  <2>2. \A t \in Servers : \A i \in DOMAIN inbox'[t] : PacketOK(inbox'[t][i])
    <3> SUFFICES ASSUME NEW t \in Servers, NEW i \in DOMAIN inbox'[t] PROVE PacketOK(inbox'[t][i])
      OBVIOUS
    <3>1. CASE i \in DOMAIN inbox[t] /\ inbox'[t][i] = inbox[t][i]
      BY <3>1 DEF IInv, InFlight
    <3>2. CASE \E s \in Servers, who \in SUBSET Players : inbox'[t][i] = List(s, who)
      BY <3>2 DEF PacketOK
    <3> QED BY <3>1, <3>2 DEF OnlyLists
  <2>3. \A x \in wire : x = <<x[1], x[2]>> /\ x[1] \in Servers /\ PacketOK(x[2])
    BY DEF IInv, InFlight
  <2>4. (\A t \in Servers : \A i \in DOMAIN inbox[t] : PacketOK(inbox[t][i]))'
    BY <2>1, <2>2
  <2>5. (\A x \in wire : x = <<x[1], x[2]>> /\ x[1] \in Servers /\ PacketOK(x[2]))'
    BY <2>1, <2>3
  <2> QED BY <2>4, <2>5 DEF InFlight, OnlyLists
<1>4. OnceEach'
  <2>1. \A m : Sent(m)' = Sent(m) /\ Copy(m)' = Copy(m)
    BY DEF Sent, From, To, Typed, Copy, Private
  <2>2. \A m, t : Unshown(m, t, AllShown)' = Unshown(m, t, AllShown)
    BY DEF Unshown, AllShown
  <2>3. \A m, s, who : Copy(m) # List(s, who)
    BY DEF Copy, Private, List
  <2>4. \A t \in Servers : \A m : \A i \in DOMAIN inbox'[t] :
           inbox'[t][i] = Copy(m) => i \in DOMAIN inbox[t] /\ inbox[t][i] = Copy(m)
    BY <2>3 DEF OnlyLists
  <2>5. ASSUME NEW s \in Servers, NEW m \in Messages \ doubtful, Sent(m)
        PROVE  /\ \A i, j \in DOMAIN inbox'[s] : inbox'[s][i] = Copy(m) /\ inbox'[s][j] = Copy(m) => i = j
               /\ \A i \in DOMAIN inbox'[s] :
                     inbox'[s][i] = Copy(m) => <<s, Copy(m)>> \notin wire /\ Unshown(m, s, AllShown)
               /\ <<s, Copy(m)>> \in wire => Unshown(m, s, AllShown)
    BY <2>4, <2>5 DEF IInv, OnceEach
  <2> QED BY <2>1, <2>2, <2>5 DEF OnceEach
<1> QED BY <1>2, <1>3, <1>4 DEF IInv

\* A tick drains the inbox of a server.
LEMMA PumpStep ==
    ASSUME IInv, NEW s \in Servers, Pump(s)
    PROVE  IInv'
<1>1. /\ inbox' = [inbox EXCEPT ![s] = <<>>]
      /\ UNCHANGED <<at, due, linked, wire, fate, events, doubtful>>
  BY DEF Pump
<1>2. PICK new \in Pumped(s, {ViewOf(s)}, inbox[s]) : Become(s, new)
  BY DEF Pump, Pumped
<1>3. /\ ViewOK(s, new)
      /\ \A v \in new.seen \cup new.spied :
            \/ v \in seen \cup spied
            \/ v[3] = s /\ \E i \in DOMAIN inbox[s] : Sent(v[1]) /\ inbox[s][i] = Copy(v[1])
  BY PumpKept
<1>4. WhereOK' /\ ShownOK(AllShown)' /\ seen' = new.seen /\ spied' = new.spied
  BY <1>1, <1>2, <1>3, BecomeKept
<1>5. Settled
  BY <1>1 DEF Settled
<1>6. /\ inbox' \in [Servers -> Seq(Packet)] /\ DOMAIN inbox'[s] = {}
      /\ \A t \in Servers \ {s} : inbox'[t] = inbox[t]
  <2>1. <<>> \in Seq(Packet)
    OBVIOUS
  <2> QED BY <1>1, <2>1 DEF IInv, InFlight
<1>7. InFlight'
  <2>1. \A pkt : PacketOK(pkt) => PacketOK(pkt)'
    BY <1>5, PacketStays
  <2>2. (\A t \in Servers : \A i \in DOMAIN inbox[t] : PacketOK(inbox[t][i]))'
    BY <2>1, <1>6 DEF IInv, InFlight
  <2>3. (\A x \in wire : x = <<x[1], x[2]>> /\ x[1] \in Servers /\ PacketOK(x[2]))'
    BY <2>1, <1>1 DEF IInv, InFlight
  <2> QED BY <1>6, <2>2, <2>3 DEF InFlight
<1>8. OnceEach'
  <2>1. \A m : Sent(m)' = Sent(m) /\ Copy(m)' = Copy(m)
    BY <1>1 DEF Sent, From, To, Typed, Copy, Private
  <2>2. ASSUME NEW t \in Servers, NEW m \in Messages, Sent(m), Unshown(m, t, AllShown),
               t # s \/ \A i \in DOMAIN inbox[s] : inbox[s][i] # Copy(m)
        PROVE  Unshown(m, t, AllShown)'
    <3>1. \A v \in new.seen \cup new.spied : ~(v[1] = m /\ v[3] = t)
      BY <1>3, <2>2 DEF Unshown, AllShown
    <3> QED BY <3>1, <1>4 DEF Unshown, AllShown
  <2>3. ASSUME NEW t \in Servers, NEW m \in Messages \ doubtful, Sent(m)
        PROVE  /\ \A i, j \in DOMAIN inbox'[t] : inbox'[t][i] = Copy(m) /\ inbox'[t][j] = Copy(m) => i = j
               /\ \A i \in DOMAIN inbox'[t] :
                     inbox'[t][i] = Copy(m) => <<t, Copy(m)>> \notin wire /\ Unshown(m, t, AllShown)'
               /\ <<t, Copy(m)>> \in wire => Unshown(m, t, AllShown)'
    <3>1. CASE t = s
      BY <3>1, <1>6, <2>2, <2>3 DEF IInv, OnceEach
    <3>2. CASE t # s
      BY <3>2, <1>6, <2>2, <2>3 DEF IInv, OnceEach
    <3> QED BY <3>1, <3>2
  <2> QED BY <2>1, <2>3, <1>1 DEF OnceEach
<1> QED BY <1>4, <1>7, <1>8 DEF IInv

\* The proxy hands a packet over.
LEMMA HandOverStep ==
    ASSUME IInv, NEW x \in wire, HandOver(x)
    PROVE  IInv'
<1> DEFINE s == x[1]
           pkt == x[2]
<1>0. PICK new \in Dispatch(s, ViewOf(s), pkt) : Become(s, new)
  BY DEF HandOver
<1>1. /\ wire' = wire \ {x} /\ Become(s, new)
      /\ UNCHANGED <<at, due, linked, inbox, fate, events, doubtful>>
  BY <1>0 DEF HandOver
<1>2. s \in Servers /\ PacketOK(pkt) /\ x = <<s, pkt>>
  BY DEF IInv, InFlight
<1> HIDE DEF s, pkt
<1>3. ViewOK(s, ViewOf(s)) /\ ViewOf(s).seen = seen /\ ViewOf(s).spied = spied
  <2>1. ViewOf(s) = [lists |-> remote[s], last |-> last, seen |-> seen, spied |-> spied,
                     alerted |-> alerted, blind |-> blind]
    BY DEF ViewOf
  <2> QED BY <2>1, <1>2 DEF ViewOK, IInv, WhereOK, ShownOK, AllShown
<1>4. \A m \in Messages \ doubtful : Sent(m) /\ pkt = Copy(m) => Unshown(m, s, ViewOf(s))
  BY <1>2, <1>3 DEF IInv, OnceEach, Unshown, AllShown
<1>5. /\ ViewOK(s, new)
      /\ \A v \in new.seen \cup new.spied :
            \/ v \in seen \cup spied
            \/ v[3] = s /\ Sent(v[1]) /\ pkt = Copy(v[1])
  BY <1>0, <1>2, <1>3, <1>4, DispatchKept
<1>6. WhereOK' /\ ShownOK(AllShown)' /\ seen' = new.seen /\ spied' = new.spied
  BY <1>1, <1>2, <1>5, BecomeKept
<1>7. Settled
  BY <1>1 DEF Settled
<1>8. InFlight'
  <2>1. \A p : PacketOK(p) => PacketOK(p)'
    BY <1>7, PacketStays
  <2>2. (\A t \in Servers : \A i \in DOMAIN inbox[t] : PacketOK(inbox[t][i]))'
    BY <2>1, <1>1 DEF IInv, InFlight
  <2>3. (\A y \in wire : y = <<y[1], y[2]>> /\ y[1] \in Servers /\ PacketOK(y[2]))'
    BY <2>1, <1>1 DEF IInv, InFlight
  <2> QED BY <1>1, <2>2, <2>3 DEF IInv, InFlight
<1>9. OnceEach'
  <2>1. \A m : Sent(m)' = Sent(m) /\ Copy(m)' = Copy(m)
    BY <1>1 DEF Sent, From, To, Typed, Copy, Private
  <2>2. ASSUME NEW t \in Servers, NEW m \in Messages, Sent(m), Unshown(m, t, AllShown),
               t # s \/ pkt # Copy(m)
        PROVE  Unshown(m, t, AllShown)'
    <3>1. \A v \in new.seen \cup new.spied : ~(v[1] = m /\ v[3] = t)
      BY <1>5, <2>2 DEF Unshown, AllShown
    <3> QED BY <3>1, <1>6 DEF Unshown, AllShown
  <2>3. ASSUME NEW t \in Servers, NEW m \in Messages \ doubtful, Sent(m)
        PROVE  /\ \A i, j \in DOMAIN inbox[t] : inbox[t][i] = Copy(m) /\ inbox[t][j] = Copy(m) => i = j
               /\ \A i \in DOMAIN inbox[t] :
                     inbox[t][i] = Copy(m) => <<t, Copy(m)>> \notin wire' /\ Unshown(m, t, AllShown)'
               /\ <<t, Copy(m)>> \in wire' => Unshown(m, t, AllShown)'
    <3>1. /\ \A i, j \in DOMAIN inbox[t] : inbox[t][i] = Copy(m) /\ inbox[t][j] = Copy(m) => i = j
          /\ \A i \in DOMAIN inbox[t] :
                inbox[t][i] = Copy(m) => <<t, Copy(m)>> \notin wire /\ Unshown(m, t, AllShown)
          /\ <<t, Copy(m)>> \in wire => Unshown(m, t, AllShown)
      BY <2>3 DEF IInv, OnceEach
    <3>2. x \in wire /\ (t = s /\ pkt = Copy(m) => x = <<t, Copy(m)>>)
      BY <1>2
    <3> QED BY <3>1, <3>2, <1>1, <2>2, <2>3
  <2> QED BY <2>1, <2>3, <1>1 DEF OnceEach
<1> QED BY <1>6, <1>8, <1>9 DEF IInv
\* A message that has no fate yet is nowhere: neither under way nor shown.
LEMMA Unheard_of ==
    ASSUME IInv, NEW m \in Messages, fate[m] = <<>>,
           \A k \in Messages \ {m} : fate'[k] = fate[k]
    PROVE  /\ Settled /\ ~Sent(m)
           /\ \A k \in Messages \ {m} : Sent(k)' = Sent(k) /\ Copy(k)' = Copy(k)
           /\ \A pkt : PacketOK(pkt) => pkt # Copy(m)'
           /\ \A v \in seen \cup spied \cup alerted : v[1] \in Messages \ {m} /\ Sent(v[1])
<1>1. ~Sent(m)
  BY SentIs
<1>2. \A k \in Messages \ {m} : Sent(k)' = Sent(k) /\ Copy(k)' = Copy(k)
  BY DEF Sent, From, To, Typed, Copy, Private
<1>3. Settled
  BY <1>1 DEF Settled
<1>4. ASSUME NEW pkt, PacketOK(pkt), pkt = Copy(m)' PROVE FALSE
  <2>1. pkt.act = "SendPrivateRaw" /\ pkt.id = m
    BY <1>4 DEF Copy, Private
  <2>2. CASE \E t \in Servers, who \in SUBSET Players : pkt = List(t, who)
    BY <2>1, <2>2 DEF List
  <2>3. CASE \E k \in Messages : Sent(k) /\ (pkt = Copy(k) \/ pkt = Alert(k, To(k)))
    <3>1. PICK k \in Messages : Sent(k) /\ (pkt = Copy(k) \/ pkt = Alert(k, To(k)))
      BY <2>3
    <3>2. pkt.id = k
      BY <3>1 DEF Copy, Private, Alert
    <3> QED BY <3>1, <3>2, <2>1, <1>1
  <2> QED BY <1>4, <2>2, <2>3 DEF PacketOK
<1>5. \A v \in seen \cup spied \cup alerted : v[1] \in Messages /\ Sent(v[1])
  BY DEF IInv, ShownOK, AllShown, SeenOK, SpiedOK, AlertedOK, Views
<1> QED BY <1>1, <1>2, <1>3, <1>4, <1>5

\* What a server sends of a message: to Redis or to the proxy, to both only if
\* Redis may have taken it, or nothing at all.
LEMMA SendingStep ==
    ASSUME IInv, WhereOK', NEW m \in Messages, fate[m] = <<>>,
           \A k \in Messages \ {m} : fate'[k] = fate[k],
           UNCHANGED shown, doubtful' \in {doubtful, doubtful \cup {m}},
           inbox' \in [Servers -> Seq(Packet)],
           \A t \in Servers : \A i \in DOMAIN inbox'[t] :
              \/ i \in DOMAIN inbox[t] /\ inbox'[t][i] = inbox[t][i]
              \/ Sent(m)' /\ inbox'[t][i] \in {Copy(m)', Alert(m, To(m)')},
           \A t \in Servers : \A i, j \in DOMAIN inbox'[t] :
              inbox'[t][i] = Copy(m)' /\ inbox'[t][j] = Copy(m)' => i = j,
           \A y \in wire' :
              \/ y \in wire
              \/ Sent(m)' /\ y = <<y[1], y[2]>> /\ y[1] \in Servers
                 /\ y[2] \in {Copy(m)', Alert(m, To(m)')},
           m \in doubtful' \/ UNCHANGED inbox \/ UNCHANGED wire
    PROVE  IInv'
<1>1. /\ Settled /\ ~Sent(m)
      /\ \A k \in Messages \ {m} : Sent(k)' = Sent(k) /\ Copy(k)' = Copy(k)
      /\ \A pkt : PacketOK(pkt) => pkt # Copy(m)'
      /\ \A v \in seen \cup spied \cup alerted : v[1] \in Messages \ {m} /\ Sent(v[1])
  BY Unheard_of
<1>2. ShownOK(AllShown)'
  <2>1. last' = last /\ last \in [Players -> Players \cup {Nobody}]
        /\ UNCHANGED <<seen, spied, alerted, blind>>
    BY DEF IInv, ShownOK, LastOK, AllShown, shown
  <2> QED BY <2>1, <1>1, ShownStays
<1>3. InFlight'
  <2>1. \A pkt : PacketOK(pkt) => PacketOK(pkt)'
    BY <1>1, PacketStays
  <2>2. \A pkt \in {Copy(m)', Alert(m, To(m)')} : Sent(m)' => PacketOK(pkt)'
    BY DEF PacketOK
  <2>3. (\A t \in Servers : \A i \in DOMAIN inbox[t] : PacketOK(inbox[t][i]))'
    <3>1. ASSUME NEW t \in Servers, NEW i \in DOMAIN inbox'[t]
          PROVE  PacketOK(inbox'[t][i]) \/ (Sent(m)' /\ inbox'[t][i] \in {Copy(m)', Alert(m, To(m)')})
      <4>1. CASE i \in DOMAIN inbox[t] /\ inbox'[t][i] = inbox[t][i]
        BY <4>1 DEF IInv, InFlight
      <4> QED BY <4>1
    <3> QED BY <3>1, <2>1, <2>2
  <2>4. ASSUME NEW y \in wire' PROVE y = <<y[1], y[2]>> /\ y[1] \in Servers /\ PacketOK(y[2])'
    <3>1. CASE y \in wire
      BY <3>1, <2>1 DEF IInv, InFlight
    <3>2. CASE y \notin wire
      BY <3>2, <2>2
    <3> QED BY <3>1, <3>2
  <2> QED BY <2>3, <2>4 DEF InFlight
<1>4. OnceEach'
  <2>1. \A k, t : Unshown(k, t, AllShown)' = Unshown(k, t, AllShown)
    BY DEF Unshown, AllShown, shown
  <2>2. \A t : Unshown(m, t, AllShown)
    BY <1>1 DEF Unshown, AllShown
  <2>3. ASSUME NEW t \in Servers, NEW k \in Messages \ doubtful', Sent(k)', k # m
        PROVE  /\ \A i, j \in DOMAIN inbox'[t] : inbox'[t][i] = Copy(k) /\ inbox'[t][j] = Copy(k) => i = j
               /\ \A i \in DOMAIN inbox'[t] :
                     inbox'[t][i] = Copy(k) => <<t, Copy(k)>> \notin wire' /\ Unshown(k, t, AllShown)
               /\ <<t, Copy(k)>> \in wire' => Unshown(k, t, AllShown)
    <3>1. k \in Messages \ doubtful /\ Sent(k)
      BY <2>3, <1>1
    <3>2. Copy(k) # Copy(m)' /\ Copy(k) # Alert(m, To(m)')
      BY <2>3 DEF Copy, Private, Alert
    <3>3. \A i \in DOMAIN inbox'[t] : inbox'[t][i] = Copy(k) => i \in DOMAIN inbox[t] /\ inbox[t][i] = Copy(k)
      BY <3>2
    <3>4. <<t, Copy(k)>> \in wire' => <<t, Copy(k)>> \in wire
      <4>1. <<t, Copy(k)>>[2] = Copy(k)
        OBVIOUS
      <4> QED BY <4>1, <3>2
    <3> QED BY <3>1, <3>3, <3>4 DEF IInv, OnceEach
  <2>4. ASSUME NEW t \in Servers, m \notin doubtful'
        PROVE  \A i \in DOMAIN inbox'[t] : inbox'[t][i] = Copy(m)' => <<t, Copy(m)'>> \notin wire'
    <3>1. \A i \in DOMAIN inbox[t] : inbox[t][i] # Copy(m)'
      BY <1>1 DEF IInv, InFlight
    <3>2. <<t, Copy(m)'>> \notin wire
      BY <1>1 DEF IInv, InFlight
    <3> QED BY <3>1, <3>2, <2>4
  <2>5. ASSUME NEW t \in Servers, NEW k \in (Messages \ doubtful)', Sent(k)'
        PROVE  (/\ \A i, j \in DOMAIN inbox[t] : inbox[t][i] = Copy(k) /\ inbox[t][j] = Copy(k) => i = j
                /\ \A i \in DOMAIN inbox[t] :
                     inbox[t][i] = Copy(k) => <<t, Copy(k)>> \notin wire /\ Unshown(k, t, AllShown)
                /\ <<t, Copy(k)>> \in wire => Unshown(k, t, AllShown))'
    <3>1. CASE k = m
      BY <3>1, <2>1, <2>2, <2>4, <2>5
    <3>2. CASE k # m
      BY <3>2, <2>1, <2>3, <2>5, <1>1
    <3> QED BY <3>1, <3>2
  <2> QED BY <2>5 DEF OnceEach
<1> QED BY <1>2, <1>3, <1>4 DEF IInv

\* A step that settles the fate of a message and does no more.
LEMMA SilentStep ==
    ASSUME IInv, NEW m \in Messages, fate[m] = <<>>,
           NEW x \in {<<Nobody>>} \cup (Players \X Players \X Names),
           fate' = [fate EXCEPT ![m] = x],
           NoEffect, UNCHANGED <<at, due, linked>>
    PROVE  IInv'
<1>1. UNCHANGED <<inbox, wire, remote, shown, events, doubtful>>
  BY DEF NoEffect
<1>2. WhereOK'
  BY <1>1 DEF IInv, WhereOK, ListsOK
<1>3. \A k \in Messages \ {m} : fate'[k] = fate[k]
  BY DEF IInv, WhereOK
<1>4. \A pkt : PacketOK(pkt) => pkt # Copy(m)'
  BY <1>3, Unheard_of
<1>5. \A t \in Servers : \A i \in DOMAIN inbox[t] : inbox[t][i] # Copy(m)'
  BY <1>4 DEF IInv, InFlight
<1>6. inbox' \in [Servers -> Seq(Packet)]
  BY <1>1 DEF IInv, InFlight
<1> QED BY <1>1, <1>2, <1>3, <1>5, <1>6, SendingStep

\* A message to somebody on the same server.
LEMMA LocallyStep ==
    ASSUME IInv, NEW m \in Messages, NEW p \in Players, NEW q \in Players, NEW name \in Names,
           fate[m] = <<>>, at[p] \in Servers, name \in {q, Display[q]},
           Locally(m, p, q, name), UNCHANGED <<at, due, linked>>
    PROVE  IInv'
<1> DEFINE s == at[p]
           who == (Spies \cap Here(s)) \ {p, q}
<1>1. /\ p \notin Shadowed /\ fate' = [fate EXCEPT ![m] = <<p, q, name>>]
      /\ spied' = Shown(spied, m, who, s)
      /\ UNCHANGED <<inbox, wire, remote, blind, events, doubtful>>
      /\ \/ /\ p \in Ignores[q] /\ UNCHANGED <<seen, last, alerted>>
         \/ /\ p \notin Ignores[q]
            /\ seen' = Shown(seen, m, {q}, s) /\ last' = [last EXCEPT ![q] = p]
            /\ alerted' \in {alerted, alerted \cup {<<m, q>>}}
  BY DEF Locally, Accepted, Echoed
<1>2. /\ \A k \in Messages \ {m} : fate'[k] = fate[k]
      /\ fate'[m] = <<p, q, name>>
  BY <1>1 DEF IInv, WhereOK
<1>3. Sent(m)' /\ From(m)' = p /\ To(m)' = q
  BY <1>1, <1>2 DEF Sent, From, To, Typed
<1>4. /\ Settled /\ ~Sent(m)
      /\ \A k \in Messages \ {m} : Sent(k)' = Sent(k) /\ Copy(k)' = Copy(k)
      /\ \A pkt : PacketOK(pkt) => pkt # Copy(m)'
      /\ \A v \in seen \cup spied \cup alerted : v[1] \in Messages \ {m} /\ Sent(v[1])
  BY <1>2, Unheard_of
<1>5. \A v \in seen \cup spied \cup alerted :
         Sent(v[1])' /\ From(v[1])' = From(v[1]) /\ To(v[1])' = To(v[1]) /\ v[1] # m
  BY <1>4, SentStays
<1>6. WhereOK'
  BY <1>1 DEF IInv, WhereOK, ListsOK
<1>7. InFlight'
  <2>1. \A pkt : PacketOK(pkt) => PacketOK(pkt)'
    BY <1>4, PacketStays
  <2>2. (\A t \in Servers : \A i \in DOMAIN inbox[t] : PacketOK(inbox[t][i]))'
    BY <2>1, <1>1 DEF IInv, InFlight
  <2>3. (\A y \in wire : y = <<y[1], y[2]>> /\ y[1] \in Servers /\ PacketOK(y[2]))'
    BY <2>1, <1>1 DEF IInv, InFlight
  <2> QED BY <1>1, <2>2, <2>3 DEF IInv, InFlight
<1>8. \A v \in seen' : v \in seen \/ (v = <<m, q, s, 1>> /\ p \notin Ignores[q])
  <2>1. CASE seen' = seen
    BY <2>1
  <2>2. CASE seen' = Shown(seen, m, {q}, s) /\ p \notin Ignores[q]
    <3>1. \A v \in Shown(seen, m, {q}, s) :
             \/ v \in seen
             \/ /\ v[1] = m /\ v[2] \in {q} /\ v[3] = s /\ v[4] \in {1, 2}
                /\ v = <<m, v[2], s, v[4]>>
                /\ v[4] = 2 => <<m, v[2], s, 1>> \in seen
      BY ShownAdds
    <3>2. \A x : <<m, x, s, 1>> \notin seen
      BY <1>5
    <3> HIDE DEF s
    <3> QED BY <2>2, <3>1, <3>2
  <2> QED BY <1>1, <2>1, <2>2
<1>9. \A v \in spied' : v \in spied \/ (v[2] \in who /\ v = <<m, v[2], s, 1>>)
  <2>1. \A v \in Shown(spied, m, who, s) :
             \/ v \in spied
             \/ /\ v[1] = m /\ v[2] \in who /\ v[3] = s /\ v[4] \in {1, 2}
                /\ v = <<m, v[2], s, v[4]>>
                /\ v[4] = 2 => <<m, v[2], s, 1>> \in spied
    BY ShownAdds
  <2>2. \A x : <<m, x, s, 1>> \notin spied
    BY <1>5
  <2> HIDE DEF s, who
  <2> QED BY <1>1, <2>1, <2>2
<1>10. ShownOK(AllShown)'
  <2>0. /\ SeenOK(seen) /\ SpiedOK(spied) /\ AlertedOK(alerted)
        /\ LastOK(last, seen) /\ IgnoredOK(seen, blind)
    BY DEF IInv, ShownOK, AllShown
  <2>1. SeenOK(seen)'
    <3>1. ASSUME NEW v \in seen'
          PROVE  v \in Views /\ Sent(v[1])' /\ v[2] = To(v[1])' /\ (v[4] = 2 => v[1] \in doubtful')
      <4>1. CASE v \in seen
        BY <4>1, <2>0, <1>1, <1>5 DEF SeenOK
      <4>2. CASE v = <<m, q, s, 1>>
        BY <4>2, <1>3 DEF Views
      <4> QED BY <4>1, <4>2, <1>8
    <3> QED BY <3>1 DEF SeenOK
  <2>2. SpiedOK(spied)'
    <3>1. ASSUME NEW v \in spied'
          PROVE  v \in Views /\ Sent(v[1])' /\ v[2] \in Spies \ {From(v[1])', To(v[1])'}
                 /\ (v[4] = 2 => v[1] \in doubtful')
      <4>1. CASE v \in spied
        BY <4>1, <2>0, <1>1, <1>5 DEF SpiedOK
      <4>2. CASE v[2] \in who /\ v = <<m, v[2], s, 1>>
        <5>1. v[2] \in Players /\ v[2] \in Spies \ {p, q}
          BY <4>2 DEF Here
        <5> HIDE DEF who
        <5> QED BY <5>1, <4>2, <1>3 DEF Views
      <4> QED BY <4>1, <4>2, <1>9
    <3> QED BY <3>1 DEF SpiedOK
  <2>3. AlertedOK(alerted)'
    <3>1. \A v \in alerted' : v \in alerted \/ v = <<m, q>>
      BY <1>1
    <3> QED BY <3>1, <2>0, <1>3, <1>5 DEF AlertedOK
  <2>4. LastOK(last, seen)'
    <3>1. CASE UNCHANGED <<seen, last>>
      BY <3>1, <2>0, <1>5 DEF LastOK
    <3>2. CASE seen' = Shown(seen, m, {q}, s) /\ last' = [last EXCEPT ![q] = p]
      <4> DEFINE c == <<m, q, s, IF <<m, q, s, 1>> \in seen THEN 2 ELSE 1>>
      <4>1. c \in seen' /\ c[1] = m /\ c[2] = q /\ seen \subseteq seen'
        BY <3>2 DEF Shown
      <4>2. last' \in [Players -> Players \cup {Nobody}] /\ last'[q] = p
            /\ \A x \in Players \ {q} : last'[x] = last[x]
        BY <3>2, <2>0 DEF LastOK
      <4> HIDE DEF c
      <4>3. ASSUME NEW x \in Players, last'[x] # Nobody
            PROVE  \E v \in seen' : v[2] = x /\ From(v[1])' = last'[x]
        <5>1. CASE x = q
          BY <5>1, <4>1, <4>2, <1>3
        <5>2. CASE x # q
          BY <5>2, <4>1, <4>2, <4>3, <2>0, <1>5 DEF LastOK
        <5> QED BY <5>1, <5>2
      <4> QED BY <4>2, <4>3 DEF LastOK
    <3> QED BY <3>1, <3>2, <1>1
  <2>5. IgnoredOK(seen, blind)'
    <3>1. ASSUME NEW v \in seen', From(v[1])' \in Ignores[v[2]]
          PROVE  \E t \in Servers : <<v[1], t>> \in blind
      <4>1. CASE v \in seen
        BY <4>1, <3>1, <2>0, <1>5 DEF IgnoredOK
      <4>2. CASE v = <<m, q, s, 1>> /\ p \notin Ignores[q]
        BY <4>2, <3>1, <1>3
      <4> QED BY <4>1, <4>2, <1>8
    <3> QED BY <3>1, <2>0, <1>1 DEF IgnoredOK
  <2> QED BY <2>1, <2>2, <2>3, <2>4, <2>5 DEF ShownOK, AllShown
<1>11. OnceEach'
  <2>1. ASSUME NEW t \in Servers, NEW k \in Messages \ doubtful, Sent(k), k # m
        PROVE  /\ \A i, j \in DOMAIN inbox[t] : inbox[t][i] = Copy(k) /\ inbox[t][j] = Copy(k) => i = j
               /\ \A i \in DOMAIN inbox[t] :
                     inbox[t][i] = Copy(k) => <<t, Copy(k)>> \notin wire /\ Unshown(k, t, AllShown)'
               /\ <<t, Copy(k)>> \in wire => Unshown(k, t, AllShown)'
    <3>1. \A v \in seen' \cup spied' : v \in seen \cup spied \/ v[1] = m
      BY <1>8, <1>9
    <3>2. Unshown(k, t, AllShown) => Unshown(k, t, AllShown)'
      BY <3>1, <2>1 DEF Unshown, AllShown
    <3> QED BY <3>2, <2>1 DEF IInv, OnceEach
  <2>2. \A t \in Servers : /\ \A i \in DOMAIN inbox[t] : inbox[t][i] # Copy(m)'
                           /\ <<t, Copy(m)'>> \notin wire
    BY <1>4 DEF IInv, InFlight
  <2>3. ASSUME NEW t \in Servers, NEW k \in (Messages \ doubtful)', Sent(k)'
        PROVE  (/\ \A i, j \in DOMAIN inbox[t] : inbox[t][i] = Copy(k) /\ inbox[t][j] = Copy(k) => i = j
                /\ \A i \in DOMAIN inbox[t] :
                     inbox[t][i] = Copy(k) => <<t, Copy(k)>> \notin wire /\ Unshown(k, t, AllShown)
                /\ <<t, Copy(k)>> \in wire => Unshown(k, t, AllShown))'
    <3>1. CASE k = m
      BY <3>1, <2>2, <1>1
    <3>2. CASE k # m
      BY <3>2, <2>1, <2>3, <1>1, <1>4
    <3> QED BY <3>1, <3>2
  <2> QED BY <2>3 DEF OnceEach
<1> QED BY <1>6, <1>7, <1>10, <1>11 DEF IInv
\* A message to somebody on another server.
LEMMA RemotelyStep ==
    ASSUME IInv, NEW m \in Messages, NEW p \in Players, NEW q \in Players, NEW name \in Names,
           fate[m] = <<>>, at[p] \in Servers, name \in {q, Display[q]},
           Remotely(m, p, q, name), UNCHANGED <<at, due, linked>>
    PROVE  IInv'
<1> DEFINE s == at[p]
           pkts == <<Private(m, p, q)>> \o (IF m \in Mentioning THEN <<Alert(m, q)>> ELSE <<>>)
           one == <<pkts[1]>>
<1>1. /\ p \notin Shadowed /\ fate' = [fate EXCEPT ![m] = <<p, q, name>>]
      /\ UNCHANGED <<remote, shown>>
      /\ events' \in {events, events + 1} /\ (events' # events => events < MaxEvents)
      /\ \/ Pushed(pkts) /\ UNCHANGED <<wire, doubtful>>
         \/ Pushed(one) /\ doubtful' = doubtful \cup {m} /\ (Relayed(s, pkts) \/ UNCHANGED wire)
         \/ UNCHANGED <<inbox, doubtful>> /\ (Relayed(s, pkts) \/ UNCHANGED wire)
  BY DEF Remotely, Accepted, Event
<1>2. /\ \A k \in Messages \ {m} : fate'[k] = fate[k]
      /\ fate'[m] = <<p, q, name>>
  BY <1>1 DEF IInv, WhereOK
<1>3. Sent(m)' /\ From(m)' = p /\ To(m)' = q
  BY <1>1, <1>2 DEF Sent, From, To, Typed
<1>4. Copy(m)' = Private(m, p, q) /\ Alert(m, To(m)') = Alert(m, q)
  BY <1>3 DEF Copy
<1>5. Private(m, p, q) # Alert(m, q) /\ Private(m, p, q) \in Packet /\ Alert(m, q) \in Packet
  BY DEF Private, Alert, Packet
<1>6. /\ pkts \in Seq(Packet) /\ pkts[1] = Private(m, p, q)
      /\ \A j \in DOMAIN pkts : j = 1 \/ (j = 2 /\ pkts[j] = Alert(m, q))
  BY <1>5
<1>7. one \in Seq(Packet) /\ one[1] = Private(m, p, q) /\ DOMAIN one = {1}
  BY <1>5, <1>6
<1> HIDE DEF pkts, one
<1>8. WhereOK'
  <2>1. events' \in 0..MaxEvents
    BY <1>1, MessagesAssumption DEF IInv, WhereOK
  <2> QED BY <2>1, <1>1 DEF IInv, WhereOK, ListsOK
<1>9. /\ \A pkt : PacketOK(pkt) => pkt # Copy(m)'
  BY <1>2, Unheard_of
<1>10. \A t \in Servers : \A i \in DOMAIN inbox[t] : inbox[t][i] # Copy(m)'
  BY <1>9 DEF IInv, InFlight
<1>11. /\ inbox' \in [Servers -> Seq(Packet)]
       /\ \A t \in Servers : \A i \in DOMAIN inbox'[t] :
             \/ i \in DOMAIN inbox[t] /\ inbox'[t][i] = inbox[t][i]
             \/ i = Len(inbox[t]) + 1 /\ inbox'[t][i] = Copy(m)'
             \/ inbox'[t][i] = Alert(m, q)
  <2>1. inbox \in [Servers -> Seq(Packet)]
    BY DEF IInv, InFlight
  <2>2. CASE Pushed(pkts)
    BY <2>1, <2>2, <1>4, <1>6, PushedShape
  <2>3. CASE Pushed(one)
    BY <2>1, <2>3, <1>4, <1>7, PushedShape
  <2>4. CASE UNCHANGED inbox
    BY <2>1, <2>4
  <2> QED BY <1>1, <2>2, <2>3, <2>4
<1>12. \A t \in Servers : \A i, j \in DOMAIN inbox'[t] :
          inbox'[t][i] = Copy(m)' /\ inbox'[t][j] = Copy(m)' => i = j
  <2> SUFFICES ASSUME NEW t \in Servers, NEW i \in DOMAIN inbox'[t], NEW j \in DOMAIN inbox'[t],
                      inbox'[t][i] = Copy(m)', inbox'[t][j] = Copy(m)'
               PROVE  i = j
    OBVIOUS
  <2>1. i = Len(inbox[t]) + 1
    BY <1>4, <1>5, <1>10, <1>11
  <2>2. j = Len(inbox[t]) + 1
    BY <1>4, <1>5, <1>10, <1>11
  <2> QED BY <2>1, <2>2
<1>13. \A y \in wire' :
          \/ y \in wire
          \/ y = <<y[1], y[2]>> /\ y[1] \in Servers /\ y[2] \in {Copy(m)', Alert(m, To(m)')}
  <2>1. CASE Relayed(s, pkts)
    <3>1. \A y \in wire' : y \in wire \/ \E t \in ProxyServers, j \in DOMAIN pkts : y = <<t, pkts[j]>>
      BY <2>1 DEF Relayed
    <3>2. \A j \in DOMAIN pkts : pkts[j] \in {Copy(m)', Alert(m, To(m)')}
      BY <1>4, <1>6
    <3> QED BY <3>1, <3>2, MessagesAssumption
  <2>2. CASE UNCHANGED wire
    BY <2>2
  <2> QED BY <1>1, <2>1, <2>2
<1>14. m \in doubtful' \/ UNCHANGED inbox \/ UNCHANGED wire
  BY <1>1
<1>15. doubtful' \in {doubtful, doubtful \cup {m}}
  BY <1>1
<1>16. \A t \in Servers : \A i \in DOMAIN inbox'[t] :
          \/ i \in DOMAIN inbox[t] /\ inbox'[t][i] = inbox[t][i]
          \/ inbox'[t][i] \in {Copy(m)', Alert(m, To(m)')}
  BY <1>4, <1>11
<1>17. UNCHANGED shown
  BY <1>1
<1> QED BY <1>2, <1>3, <1>8, <1>11, <1>12, <1>13, <1>14, <1>15, <1>16, <1>17, SendingStep

\* Whatever /msg and /reply do.
LEMMA SendStep ==
    ASSUME IInv, NEW m \in Messages, NEW p \in Players, NEW name \in Names, SendPrivate(m, p, name)
    PROVE  IInv'
<1>1. fate[m] = <<>> /\ at[p] \in Servers /\ UNCHANGED <<at, due, linked>>
  BY DEF SendPrivate, IInv, WhereOK
<1>2. CASE Refused(m) /\ NoEffect
  BY <1>1, <1>2, SilentStep DEF Refused
<1>3. ASSUME NEW q \in Players, Unheard(m, p, q, name) PROVE IInv'
  <2>1. <<p, q, name>> \in Players \X Players \X Names
    OBVIOUS
  <2> QED BY <1>1, <1>3, <2>1, SilentStep DEF Unheard, Accepted
<1>4. CASE name \in Here(at[p]) /\ (Unheard(m, p, name, name) \/ Locally(m, p, name, name))
  <2>1. name \in Players
    BY <1>4 DEF Here
  <2> QED BY <1>1, <1>3, <1>4, <2>1, LocallyStep
<1>5. CASE \E q \in Players :
              /\ name \in {q, Display[q]}
              /\ Unheard(m, p, q, name) \/ Unsafe(m, p) \/ Remotely(m, p, q, name)
  BY <1>1, <1>2, <1>3, <1>5, RemotelyStep DEF Unsafe
<1> QED BY <1>2, <1>4, <1>5 DEF SendPrivate, NotFound, Found

\* A server publishes its list, or learns another one.
LEMMA ListStep ==
    ASSUME IInv, NEW s \in Servers, Periodic(s) \/ Aggregate(s)
    PROVE  IInv'
<1>1. UNCHANGED <<fate, seen, spied, alerted, blind, doubtful, wire, last, at>>
  BY DEF Periodic, Aggregate, shown
<1>2. last \in [Players -> Players \cup {Nobody}]
  BY DEF IInv, ShownOK, AllShown, LastOK
<1>3. CASE Periodic(s)
  <2>1. WhereOK'
    BY <1>3 DEF Periodic, IInv, WhereOK, ListsOK
  <2>2. OnlyLists
    <3>1. Here(s) \in SUBSET Players
      BY DEF Here
    <3> QED BY <1>3, <3>1, PublishedAreLists DEF Periodic
  <2> QED BY <1>1, <1>2, <2>1, <2>2, QuietStep
<1>4. CASE Aggregate(s)
  <2> DEFINE l == [r \in {Proxy} |-> [who |-> UNION {Here(t) : t \in ProxyServers}, age |-> 0]]
  <2>1. ListsOK(s, l)
    <3>1. UNION {Here(t) : t \in ProxyServers} \subseteq Players
      BY DEF Here
    <3> QED BY <3>1, MessagesAssumption DEF ListsOK
  <2>2. /\ remote' = [remote EXCEPT ![s] = l] /\ events < MaxEvents /\ events' = events + 1
        /\ UNCHANGED <<due, linked, inbox>>
    BY <1>4 DEF Aggregate, Event
  <2> HIDE DEF l
  <2>3. DOMAIN remote' = Servers /\ \A t \in Servers : ListsOK(t, remote'[t])
    BY <2>1, <2>2 DEF IInv, WhereOK
  <2>4. WhereOK'
    BY <2>2, <2>3, <1>1, MessagesAssumption DEF IInv, WhereOK, ListsOK
  <2>5. OnlyLists
    BY <2>2 DEF OnlyLists, IInv, InFlight
  <2> QED BY <1>1, <1>2, <2>4, <2>5, QuietStep
<1> QED BY <1>3, <1>4

\* A player comes or goes.
LEMMA PlayerStep ==
    ASSUME IInv, NEW p \in Players,
           Leave(p) \/ \E s \in Servers : Join(p, s)
    PROVE  IInv'
<1>1. UNCHANGED <<fate, seen, spied, alerted, blind, doubtful, wire>>
      /\ UNCHANGED <<remote, due, linked>> /\ events < MaxEvents /\ events' = events + 1
  BY DEF Leave, Join, Event, lists, shown
<1>2. last \in [Players -> Players \cup {Nobody}]
  BY DEF IInv, ShownOK, AllShown, LastOK
<1>3. CASE Leave(p)
  <2>1. at[p] \in Servers /\ at' = [at EXCEPT ![p] = Nowhere] /\ last' = [last EXCEPT ![p] = Nobody]
    BY <1>3 DEF Leave, IInv, WhereOK
  <2>2. WhereOK'
    BY <2>1, <1>1, MessagesAssumption DEF IInv, WhereOK, ListsOK
  <2>3. OnlyLists
    <3>1. PICK who \in {Here(at[p]), Here(at[p]) \ {p}} : PublishNames(at[p], who)
      BY <1>3 DEF Leave
    <3>2. who \in SUBSET Players
      BY DEF Here
    <3> QED BY <2>1, <3>1, <3>2, PublishedAreLists
  <2>4. last' \in [Players -> Players \cup {Nobody}] /\ \A x \in Players : last'[x] \in {last[x], Nobody}
    BY <2>1, <1>2
  <2> QED BY <1>1, <2>2, <2>3, <2>4, QuietStep
<1>4. ASSUME NEW s \in Servers, Join(p, s) PROVE IInv'
  <2>1. at' = [at EXCEPT ![p] = s] /\ UNCHANGED last
    BY <1>4 DEF Join, shown
  <2>2. WhereOK'
    BY <2>1, <1>1, MessagesAssumption DEF IInv, WhereOK, ListsOK
  <2>3. OnlyLists
    <3>1. PICK who \in {Here(s), Here(s) \cup {p}} : PublishNames(s, who)
      BY <1>4 DEF Join
    <3>2. who \in SUBSET Players
      BY DEF Here
    <3> QED BY <3>1, <3>2, PublishedAreLists
  <2> QED BY <1>1, <1>2, <2>1, <2>2, <2>3, QuietStep
<1> QED BY <1>3, <1>4

\* The links come and go, time passes, and a server starts again.
LEMMA WorldStep ==
    ASSUME IInv, Pass \/ UNCHANGED vars \/ \E s \in Servers : Unlink(s) \/ Relink(s) \/ Restart(s)
    PROVE  IInv'
<1>1. UNCHANGED <<fate, seen, spied, alerted, blind, doubtful, wire>>
  BY DEF Pass, Unlink, Relink, Restart, lists, shown, vars
<1>2. last \in [Players -> Players \cup {Nobody}] /\ inbox \in [Servers -> Seq(Packet)]
  BY DEF IInv, InFlight, ShownOK, AllShown, LastOK
<1>3. CASE Pass
  <2>1. ASSUME NEW s \in Servers PROVE ListsOK(s, Aged(remote[s]))
    <3>1. ListsOK(s, remote[s])
      BY DEF IInv, WhereOK
    <3>2. \A r \in DOMAIN Aged(remote[s]) :
             /\ r \in DOMAIN remote[s] /\ remote[s][r].age < TTL
             /\ Aged(remote[s])[r] = [remote[s][r] EXCEPT !.age = @ + 1]
      BY DEF Aged
    <3>3. ASSUME NEW r \in DOMAIN Aged(remote[s])
          PROVE  Aged(remote[s])[r] \in [who : SUBSET Players, age : 0..TTL]
      <4>1. remote[s][r] \in [who : SUBSET Players, age : 0..TTL] /\ remote[s][r].age < TTL
        BY <3>1, <3>2, <3>3 DEF ListsOK
      <4>2. remote[s][r].age + 1 \in 0..TTL
        BY <4>1, MessagesAssumption
      <4> QED BY <3>2, <3>3, <4>1, <4>2
    <3> QED BY <3>1, <3>2, <3>3 DEF ListsOK
  <2>2. /\ remote' = [s \in Servers |-> Aged(remote[s])] /\ due' = Servers
        /\ UNCHANGED <<at, linked, inbox, last, events>>
    BY <1>3 DEF Pass, shown
  <2>3. DOMAIN remote' = Servers /\ \A s \in Servers : ListsOK(s, remote'[s])
    BY <2>1, <2>2
  <2>4. WhereOK'
    BY <2>2, <2>3, <1>1 DEF IInv, WhereOK, ListsOK
  <2>5. OnlyLists
    BY <2>2, <1>2 DEF OnlyLists
  <2> QED BY <1>1, <1>2, <2>2, <2>4, <2>5, QuietStep
<1>4. CASE UNCHANGED vars \/ \E s \in Servers : Unlink(s) \/ Relink(s)
  <2>1. /\ UNCHANGED <<at, remote, due, inbox, last>>
        /\ \/ UNCHANGED <<linked, events>>
           \/ \E s \in Servers : \/ linked' = linked \ {s} /\ events < MaxEvents /\ events' = events + 1
                                 \/ linked' = linked \cup {s} /\ UNCHANGED events
    BY <1>4 DEF Unlink, Relink, Event, lists, shown, vars
  <2>2. linked' \subseteq Servers /\ events' \in 0..MaxEvents
    BY <2>1, MessagesAssumption DEF IInv, WhereOK
  <2>3. WhereOK'
    BY <2>1, <2>2, <1>1 DEF IInv, WhereOK, ListsOK
  <2>4. OnlyLists
    BY <2>1, <1>2 DEF OnlyLists
  <2> QED BY <1>1, <1>2, <2>1, <2>3, <2>4, QuietStep
<1>5. ASSUME NEW s \in Servers, Restart(s) PROVE IInv'
  <2>1. /\ at' = [p \in Players |-> IF at[p] = s THEN Nowhere ELSE at[p]]
        /\ last' = [p \in Players |-> IF at[p] = s THEN Nobody ELSE last[p]]
        /\ remote' = [remote EXCEPT ![s] = Empty] /\ inbox' = [inbox EXCEPT ![s] = <<>>]
        /\ linked' = linked \ {s} /\ events < MaxEvents /\ events' = events + 1 /\ due' = due
    BY <1>5 DEF Restart, Event
  <2>2. DOMAIN remote' = Servers /\ \A t \in Servers : ListsOK(t, remote'[t])
    <3>1. ListsOK(s, Empty)
      BY DEF ListsOK, Empty
    <3> QED BY <2>1, <3>1 DEF IInv, WhereOK
  <2>3. at' \in [Players -> Servers \cup {Nowhere}] /\ events' \in 0..MaxEvents
    BY <2>1, MessagesAssumption DEF IInv, WhereOK
  <2>4. WhereOK'
    BY <2>1, <2>2, <2>3, <1>1 DEF IInv, WhereOK, ListsOK
  <2>5. OnlyLists
    <3>1. <<>> \in Seq(Packet) /\ DOMAIN <<>> = {}
      OBVIOUS
    <3> QED BY <2>1, <1>2, <3>1 DEF OnlyLists
  <2>6. last' \in [Players -> Players \cup {Nobody}] /\ \A x \in Players : last'[x] \in {last[x], Nobody}
    BY <2>1, <1>2
  <2> QED BY <1>1, <2>4, <2>5, <2>6, QuietStep
<1> QED BY <1>3, <1>4, <1>5

\* The invariant is inductive.
LEMMA IInvInductive ==
    /\ Init => IInv
    /\ IInv /\ [Next]_vars => IInv'
<1>1. ASSUME Init PROVE IInv
  <2>1. \A s \in Servers : remote[s] = Empty /\ inbox[s] = <<>>
    BY <1>1 DEF Init
  <2>2. WhereOK
    BY <1>1, <2>1, MessagesAssumption DEF Init, WhereOK, ListsOK, Empty
  <2>3. InFlight
    <3>1. <<>> \in Seq(Packet) /\ DOMAIN <<>> = {}
      OBVIOUS
    <3> QED BY <1>1, <2>1, <3>1 DEF Init, InFlight
  <2>4. ShownOK(AllShown)
    BY <1>1 DEF Init, ShownOK, AllShown, SeenOK, SpiedOK, AlertedOK, LastOK, IgnoredOK
  <2>5. OnceEach
    BY <1>1, <2>1 DEF Init, OnceEach
  <2> QED BY <2>2, <2>3, <2>4, <2>5 DEF IInv
<1>2. ASSUME IInv, [Next]_vars PROVE IInv'
  <2>1. ASSUME NEW s \in Servers, ServerStep(s) PROVE IInv'
    BY <1>2, <2>1, ListStep, PumpStep, WorldStep, PlayerStep DEF ServerStep
  <2>2. ASSUME NEW p \in Players, NEW m \in Messages, Msg(m, p) \/ Reply(m, p) PROVE IInv'
    <3>1. CASE Msg(m, p)
      BY <1>2, <3>1, SendStep DEF Msg
    <3>2. CASE Reply(m, p)
      <4>1. last[p] \in Names
        BY <1>2, <3>2 DEF Reply, IInv, ShownOK, AllShown, LastOK, Names
      <4> QED BY <1>2, <3>2, <4>1, SendStep DEF Reply
    <3> QED BY <2>2, <3>1, <3>2
  <2> QED BY <1>2, <2>1, <2>2, PlayerStep, HandOverStep, WorldStep DEF Next
<1> QED BY <1>1, <1>2

\* What the invariant says of who sees what.
LEMMA IInvKeepsPrivate == IInv => KeptPrivate /\ IgnoredUnlessMistaken
<1> SUFFICES ASSUME IInv PROVE KeptPrivate /\ IgnoredUnlessMistaken
  OBVIOUS
<1>1. /\ SeenOK(seen) /\ SpiedOK(spied) /\ AlertedOK(alerted)
      /\ LastOK(last, seen) /\ IgnoredOK(seen, blind)
  BY DEF IInv, ShownOK, AllShown
<1>2. TypeOK
  <2>1. \A s \in Servers : \A i \in DOMAIN inbox[s] :
           inbox[s][i].act \in {"UpdateNames", "SendPrivateRaw", "SendLang"}
    BY DEF IInv, InFlight, PacketOK, List, Copy, Private, Alert
  <2> QED BY <2>1, <1>1 DEF TypeOK, IInv, WhereOK, ListsOK, SeenOK, SpiedOK, AlertedOK, LastOK, IgnoredOK
<1>3. ShadowSilent
  <2>1. \A v \in seen \cup spied \cup alerted : From(v[1]) \notin Shadowed
    BY <1>1 DEF SeenOK, SpiedOK, AlertedOK, Sent
  <2>2. \A p \in Players : last[p] \notin Shadowed
    BY <2>1, <1>1, MessagesAssumption DEF LastOK
  <2> QED BY <2>1, <2>2 DEF ShadowSilent
<1>4. OnceToTheNamed
  BY <1>1 DEF OnceToTheNamed, SeenOK, Sent
<1>5. SpiesApart
  BY <1>1 DEF SpiesApart, SpiedOK
<1>6. ReplyToSeen
  BY <1>1 DEF ReplyToSeen, LastOK
<1>7. IgnoredUnlessMistaken
  BY <1>1 DEF IgnoredUnlessMistaken, IgnoredOK
<1> QED BY <1>2, <1>3, <1>4, <1>5, <1>6, <1>7 DEF KeptPrivate

\* send_private, receive_private and notify_spies_by_name between them show a
\* message to its target, once, and its echo to spies outside the conversation;
\* a shadow-muted sender reaches nobody, and /reply answers a sender who was seen.
THEOREM MessagesKeptPrivate == Spec => []KeptPrivate
<1>1. IInv => KeptPrivate
  BY IInvKeepsPrivate
<1> QED BY <1>1, IInvInductive, PTL DEF Spec

\* receive_private shows a message to somebody who ignores its sender only where
\* the lists of the server do not tell who the sender is: no list has the sender,
\* or find_remote_player may take another player shown under that name.
THEOREM IgnoredAreMistaken == Spec => []IgnoredUnlessMistaken
<1>1. IInv => IgnoredUnlessMistaken
  BY IInvKeepsPrivate
<1> QED BY <1>1, IInvInductive, PTL DEF Spec
=============================================================================
