--------------------------- MODULE ChatGuards_proofs ---------------------------
(***************************************************************************)
(* Theorems about ChatGuards, for any players, texts, settings and         *)
(* periods; about the scores of messages the guards compare with their     *)
(* limits (MessageScores); and about the dates it all happens on           *)
(* (Calendar).                                                             *)
(***************************************************************************)
EXTENDS ChatGuards, MessageScores, Calendar, FiniteSetTheorems, SequenceTheorems, WellFoundedInduction, TLAPS

IInv == TypeOK /\ WindowsMatch

(* Set changes the entry of one player. *)
LEMMA SetOnly ==
    ASSUME NEW f, NEW p \in Players, NEW v
    PROVE  /\ Set(f, p, v)[p] = v
           /\ \A q \in Players \ {p} : Set(f, p, v)[q] = f[q]
BY DEF Set

(* A set of numbered entries, each number once, has as many entries as numbers. *)
LEMMA Numbered ==
    ASSUME NEW m \in Nat, NEW W, NEW N,
           \A e \in W : e.n \in 1..m,
           \A d, e \in W : d.n = e.n => d = e,
           \A e \in W : e.n \in N,
           \A i \in N : \E e \in W : e.n = i
    PROVE  IsFiniteSet(W) /\ IsFiniteSet(N) /\ Cardinality(N) = Cardinality(W)
<1> DEFINE f == [e \in W |-> e.n]
<1>1. IsFiniteSet(1..m)
  BY FS_Interval
<1>2. f \in Injection(W, 1..m)
  BY DEF Injection, IsInjective
<1>3. IsFiniteSet(W)
  BY <1>1, <1>2, FS_Injection
<1>4. f \in Surjection(W, N) /\ f \in Injection(W, N)
  BY DEF Surjection, Injection, IsInjective
<1> QED
  BY <1>3, <1>4, FS_Surjection

-----------------------------------------------------------------------------
(* One message *)

(* Every verdict is one of the Verdicts, and what is shown is a text. *)
LEMMA OutcomeTypes ==
    ASSUME NEW p \in Players, NEW t \in Texts, TypeOK
    PROVE  Verdict(p, t) \in Verdicts /\ Shown(p, t) \in Texts
<1>1. Verdict(p, t) \in Verdicts
  BY DEF Verdict, Verdicts, Early
<1>2. Shown(p, t) \in Texts
  BY GuardsAssumption DEF Shown
<1> QED
  BY <1>1, <1>2

(* A message changes what is kept of its sender, and appends to the history. *)
LEMMA SayEffect ==
    ASSUME NEW p \in Players, NEW t \in Texts, TypeOK, Say(p, t)
    PROVE  /\ settings' = settings /\ now' = now
           /\ said' \in [Players -> Seq(Attempt)]
           /\ Len(said'[p]) = Len(said[p]) + 1
           /\ \A j \in 1..Len(said[p]) : said'[p][j] = said[p][j]
           /\ said'[p][Len(said[p]) + 1] =
                 [at |-> now, text |-> t, shown |-> Shown(p, t), verdict |-> Verdict(p, t)]
           /\ last'[p] = LastAfter(p, t, Verdict(p, t))
           /\ recent'[p] = RecentAfter(p, t, Verdict(p, t))
           /\ sends'[p] = SendsAfter(p, Verdict(p, t))
           /\ \A q \in Players \ {p} :
                 /\ said'[q] = said[q] /\ last'[q] = last[q]
                 /\ recent'[q] = recent[q] /\ sends'[q] = sends[q]
<1> DEFINE a == [at |-> now, text |-> t, shown |-> Shown(p, t), verdict |-> Verdict(p, t)]
<1>1. a \in Attempt
  <2>1. now \in Nat
    BY GuardsAssumption DEF TypeOK
  <2>2. Verdict(p, t) \in Verdicts /\ Shown(p, t) \in Texts
    BY OutcomeTypes
  <2> QED
    BY <2>1, <2>2 DEF Attempt
<1>2. said[p] \in Seq(Attempt)
  BY DEF TypeOK
<1>3. said' = Set(said, p, Append(said[p], a))
  BY DEF Say
<1>4. Append(said[p], a) \in Seq(Attempt)
  BY <1>1, <1>2
<1>5. said' \in [Players -> Seq(Attempt)]
  BY <1>3, <1>4 DEF Set, TypeOK
<1>6. said'[p] = Append(said[p], a)
  BY <1>3 DEF Set
<1> HIDE DEF a
<1>7. /\ Len(said'[p]) = Len(said[p]) + 1
      /\ \A j \in 1..Len(said[p]) : said'[p][j] = said[p][j]
      /\ said'[p][Len(said[p]) + 1] = a
  BY <1>1, <1>2, <1>6
<1>8. /\ last' = Set(last, p, LastAfter(p, t, Verdict(p, t)))
      /\ recent' = Set(recent, p, RecentAfter(p, t, Verdict(p, t)))
      /\ sends' = Set(sends, p, SendsAfter(p, Verdict(p, t)))
      /\ settings' = settings /\ now' = now
  BY DEF Say
<1>9. \A q \in Players \ {p} :
          /\ said'[q] = said[q] /\ last'[q] = last[q]
          /\ recent'[q] = recent[q] /\ sends'[q] = sends[q]
  BY <1>3, <1>8, SetOnly
<1>10. /\ last'[p] = LastAfter(p, t, Verdict(p, t))
       /\ recent'[p] = RecentAfter(p, t, Verdict(p, t))
       /\ sends'[p] = SendsAfter(p, Verdict(p, t))
  BY <1>8 DEF Set
<1> QED
  BY <1>5, <1>7, <1>8, <1>9, <1>10 DEF a

(* What was tried before is not rewritten: whatever the history says of an
   earlier attempt, it goes on saying. *)
LEMMA HistoryKept ==
    ASSUME NEW p \in Players, NEW t \in Texts, TypeOK, Say(p, t),
           NEW q \in Players, NEW i \in Attempts(q)
    PROVE  /\ i \in Attempts(q)' /\ said'[q][i] = said[q][i]
           /\ IsAccepted(q, i)' = IsAccepted(q, i)
           /\ AcceptedBefore(q, i)' = AcceptedBefore(q, i)
           /\ \A period : Within(q, i, period)' = Within(q, i, period)
           /\ Echoes(q, i)' = Echoes(q, i)
           /\ Counts(q, i)' = Counts(q, i)
<1>a. Len(said[q]) \in Nat /\ Len(said[p]) \in Nat
  BY DEF TypeOK
<1>b. Len(said'[p]) = Len(said[p]) + 1 /\ \A r \in Players \ {p} : said'[r] = said[r]
  BY SayEffect
<1>1. Len(said[q]) \in Nat /\ Len(said[p]) \in Nat /\ Len(said'[p]) = Len(said[p]) + 1
  BY <1>a, <1>b
<1>2. Len(said'[q]) >= Len(said[q]) /\ Len(said'[q]) \in Nat
  <2>1. CASE q = p
    BY <2>1, <1>1
  <2>2. CASE q # p
    BY <2>2, <1>1, <1>b
  <2> QED
    BY <2>1, <2>2
<1>3. \A j \in 1..Len(said[q]) : said'[q][j] = said[q][j]
  <2>1. CASE q = p
    BY <2>1, SayEffect
  <2>2. CASE q # p
    BY <2>2, SayEffect
  <2> QED
    BY <2>1, <2>2
<1>4. i \in Nat /\ 1 <= i /\ i <= Len(said[q]) /\ \A j \in 1..i : j \in 1..Len(said[q])
  BY <1>1 DEF Attempts
<1>5. i \in Attempts(q)' /\ said'[q][i] = said[q][i] /\ \A j \in 1..i : said'[q][j] = said[q][j]
  BY <1>1, <1>2, <1>3, <1>4 DEF Attempts
<1>6. IsAccepted(q, i)' = IsAccepted(q, i) /\ \A j \in 1..i : IsAccepted(q, j)' = IsAccepted(q, j)
  BY <1>5 DEF IsAccepted
<1>7. AcceptedBefore(q, i)' = AcceptedBefore(q, i)
  <2>1. \A j \in 1..(i - 1) : j \in 1..i
    BY <1>4
  <2> QED
    BY <1>6, <2>1 DEF AcceptedBefore
<1>8. \A period : Within(q, i, period)' = Within(q, i, period)
  BY <1>5 DEF Within
<1>9. settings' = settings
  BY SayEffect
<1>10. Echoes(q, i)' = Echoes(q, i)
  <2>1. \A j \in AcceptedBefore(q, i) : said'[q][j] = said[q][j]
    BY <1>5, <1>4 DEF AcceptedBefore
  <2>2. \A a, b : Alike(a, b)' = Alike(a, b)
    BY <1>9 DEF Alike
  <2> QED
    BY <1>5, <1>7, <2>1, <2>2 DEF Echoes, Alike
<1>11. Counts(q, i)' = Counts(q, i)
  BY <1>5, <1>9, <1>10 DEF Counts, IsMod
<1> QED
  BY <1>5, <1>6, <1>7, <1>8, <1>10, <1>11

(* What is in a window after a message was there before, or is that message. *)
LEMMA WindowContents ==
    ASSUME NEW p \in Players, NEW t \in Texts, TypeOK, Say(p, t)
    PROVE  /\ \A e \in sends'[p] : e \in sends[p] \/ (e = Entry(p) /\ Verdict(p, t) = "accepted")
           /\ \A e \in recent'[p] :
                 \/ e \in recent[p]
                 \/ /\ e = [n |-> Len(said[p]) + 1, at |-> now, text |-> t]
                    /\ Verdict(p, t) \notin Early /\ IsSimilar(p, t)
                    /\ IsMod => Verdict(p, t) # "too_similar"
<1>1. sends'[p] = SendsAfter(p, Verdict(p, t)) /\ recent'[p] = RecentAfter(p, t, Verdict(p, t))
  BY SayEffect
<1>2. Sends(p) \subseteq sends[p] /\ Recent(p) \subseteq recent[p]
  BY DEF Sends, Recent, Fresh
<1>3. \A e \in sends'[p] : e \in sends[p] \/ (e = Entry(p) /\ Verdict(p, t) = "accepted")
  BY <1>1, <1>2 DEF SendsAfter
<1>4. ASSUME NEW e \in recent'[p]
      PROVE  \/ e \in recent[p]
             \/ /\ e = [n |-> Len(said[p]) + 1, at |-> now, text |-> t]
                /\ Verdict(p, t) \notin Early /\ IsSimilar(p, t)
                /\ IsMod => Verdict(p, t) # "too_similar"
  BY <1>1, <1>2 DEF RecentAfter, Entry
<1> QED
  BY <1>3, <1>4

(* A message keeps the types. *)
LEMMA SayTypes ==
    ASSUME NEW p \in Players, NEW t \in Texts, TypeOK, Say(p, t)
    PROVE  TypeOK'
<1>1. now \in Nat /\ Len(said[p]) \in Nat
  BY GuardsAssumption DEF TypeOK
<1>2. Shown(p, t) \in Texts
  BY OutcomeTypes
<1>3. last' \in [Players -> Said \cup {NoMessage}]
  <2>1. LastAfter(p, t, Verdict(p, t)) \in Said \cup {NoMessage}
    BY <1>1, <1>2 DEF LastAfter, Said, TypeOK
  <2>2. last' = Set(last, p, LastAfter(p, t, Verdict(p, t)))
    BY DEF Say
  <2> QED
    BY <2>1, <2>2 DEF Set, TypeOK
<1>4. sends' \in [Players -> SUBSET [n : Nat \ {0}, at : Nat]]
  <2>0. \A e \in sends[p] : e \in [n : Nat \ {0}, at : Nat]
    BY DEF TypeOK
  <2>a. Entry(p) \in [n : Nat \ {0}, at : Nat]
    BY <1>1 DEF Entry
  <2>b. \A e \in sends'[p] : e \in sends[p] \/ e = Entry(p)
    BY WindowContents
  <2>1. \A e \in sends'[p] : e \in [n : Nat \ {0}, at : Nat]
    BY <2>0, <2>a, <2>b
  <2>2. sends' = Set(sends, p, SendsAfter(p, Verdict(p, t)))
    BY DEF Say
  <2>3. sends'[p] = SendsAfter(p, Verdict(p, t))
    BY <2>2 DEF Set
  <2> QED
    BY <2>1, <2>2, <2>3 DEF Set, TypeOK
<1>5. recent' \in [Players -> SUBSET [n : Nat \ {0}, at : Nat, text : Texts]]
  <2>0. \A e \in recent[p] : e \in [n : Nat \ {0}, at : Nat, text : Texts]
    BY DEF TypeOK
  <2>a. [n |-> Len(said[p]) + 1, at |-> now, text |-> t] \in [n : Nat \ {0}, at : Nat, text : Texts]
    BY <1>1
  <2>b. \A e \in recent'[p] : e \in recent[p] \/ e = [n |-> Len(said[p]) + 1, at |-> now, text |-> t]
    BY WindowContents
  <2>1. \A e \in recent'[p] : e \in [n : Nat \ {0}, at : Nat, text : Texts]
    BY <2>0, <2>a, <2>b
  <2>2. recent' = Set(recent, p, RecentAfter(p, t, Verdict(p, t)))
    BY DEF Say
  <2>3. recent'[p] = RecentAfter(p, t, Verdict(p, t))
    BY <2>2 DEF Set
  <2> QED
    BY <2>1, <2>2, <2>3 DEF Set, TypeOK
<1>6. /\ settings' \in Configurations /\ globalMute' \in BOOLEAN /\ muted' \subseteq Players
      /\ now' \in 0..MaxTime /\ attempts' \in 0..MaxAttempts /\ orders' \in 0..MaxOrders
  BY GuardsAssumption DEF Say, TypeOK
<1>7. said' \in [Players -> Seq(Attempt)]
  BY SayEffect
<1>8. ASSUME NEW q \in Players
      PROVE  /\ \A e \in sends'[q] : e.n \in Attempts(q)' /\ said'[q][e.n].at = e.at
             /\ \A e \in recent'[q] :
                    e.n \in Attempts(q)' /\ said'[q][e.n].at = e.at /\ said'[q][e.n].text = e.text
  <2>1. \A i \in Attempts(q) : i \in Attempts(q)' /\ said'[q][i] = said[q][i]
    BY HistoryKept
  <2>2. /\ \A e \in sends[q] : e.n \in Attempts(q) /\ said[q][e.n].at = e.at
        /\ \A e \in recent[q] :
               e.n \in Attempts(q) /\ said[q][e.n].at = e.at /\ said[q][e.n].text = e.text
    BY DEF TypeOK
  <2>3. CASE q # p
    <3>1. sends'[q] = sends[q] /\ recent'[q] = recent[q]
      BY <2>3, SayEffect
    <3> QED
      BY <2>1, <2>2, <3>1
  <2>4. CASE q = p
    <3>0. /\ Len(said'[p]) = Len(said[p]) + 1
          /\ said'[p][Len(said[p]) + 1] =
                [at |-> now, text |-> t, shown |-> Shown(p, t), verdict |-> Verdict(p, t)]
      BY SayEffect
    <3>1. /\ Len(said'[p]) = Len(said[p]) + 1
          /\ said'[p][Len(said[p]) + 1].at = now /\ said'[p][Len(said[p]) + 1].text = t
      BY <3>0
    <3>2. Len(said[p]) + 1 \in Attempts(p)'
      BY <3>1, <1>1 DEF Attempts
    <3>3. \A e \in sends'[p] : e.n \in Attempts(p)' /\ said'[p][e.n].at = e.at
      BY <2>1, <2>2, <2>4, <3>1, <3>2, WindowContents DEF Entry
    <3>4. \A e \in recent'[p] :
              e.n \in Attempts(p)' /\ said'[p][e.n].at = e.at /\ said'[p][e.n].text = e.text
      BY <2>1, <2>2, <2>4, <3>1, <3>2, WindowContents
    <3> QED
      BY <2>4, <3>3, <3>4
  <2> QED
    BY <2>3, <2>4
<1> QED
  BY <1>3, <1>4, <1>5, <1>6, <1>7, <1>8 DEF TypeOK

(* What the history says of the newest message. *)
LEMMA Newest ==
    ASSUME NEW p \in Players, NEW t \in Texts, IInv, Say(p, t),
           NEW n, n = Len(said[p]) + 1
    PROVE  /\ n \in Nat /\ Attempts(p)' = Attempts(p) \cup {n} /\ n \notin Attempts(p)
           /\ said'[p][n] = [at |-> now, text |-> t, shown |-> Shown(p, t), verdict |-> Verdict(p, t)]
           /\ IsAccepted(p, n)' <=> Verdict(p, t) = "accepted"
           /\ AcceptedBefore(p, n)' = {j \in Attempts(p) : IsAccepted(p, j)}
           /\ Echoes(p, n)' <=> (last[p] # NoMessage /\ Alike(last[p].text, t))
<1>1. Len(said[p]) \in Nat /\ now \in Nat /\ TypeOK
  BY GuardsAssumption DEF IInv, TypeOK
<1>2. /\ Len(said'[p]) = n /\ settings' = settings
      /\ said'[p][n] = [at |-> now, text |-> t, shown |-> Shown(p, t), verdict |-> Verdict(p, t)]
  BY <1>1, SayEffect
<1>3. n \in Nat /\ Attempts(p)' = Attempts(p) \cup {n} /\ n \notin Attempts(p)
  BY <1>1, <1>2 DEF Attempts
<1>4. IsAccepted(p, n)' <=> Verdict(p, t) = "accepted"
  BY <1>2 DEF IsAccepted
<1>5. \A i \in Attempts(p) : said'[p][i] = said[p][i] /\ IsAccepted(p, i)' = IsAccepted(p, i)
  BY <1>1, HistoryKept
<1>6. AcceptedBefore(p, n)' = {j \in Attempts(p) : IsAccepted(p, j)}
  <2>1. 1..(n - 1) = Attempts(p)
    BY <1>1 DEF Attempts
  <2> QED
    BY <1>5, <2>1 DEF AcceptedBefore
<1>7. Echoes(p, n)' <=> (last[p] # NoMessage /\ Alike(last[p].text, t))
  <2>1. Echoes(p, n)' <=>
          \E j \in Attempts(p) :
              /\ IsAccepted(p, j) /\ \A k \in Attempts(p) : IsAccepted(p, k) => k <= j
              /\ Alike(said[p][j].shown, t)
    <3>1. \A a, b : Alike(a, b)' = Alike(a, b)
      BY <1>2 DEF Alike
    <3>2. said'[p][n].text = t
      BY <1>2
    <3>3. Echoes(p, n)' <=>
            \E j \in AcceptedBefore(p, n)' :
                /\ \A k \in AcceptedBefore(p, n)' : k <= j
                /\ Alike(said'[p][j].shown, t)
      BY <1>2, <3>2 DEF Echoes, Alike
    <3> QED
      BY <1>5, <1>6, <3>3
  <2>2. CASE last[p] = NoMessage /\ \A i \in Attempts(p) : ~IsAccepted(p, i)
    BY <2>1, <2>2
  <2>3. ASSUME NEW i \in Attempts(p),
               IsAccepted(p, i), last[p] = [at |-> said[p][i].at, text |-> said[p][i].shown],
               \A j \in Attempts(p) : IsAccepted(p, j) => j <= i
        PROVE  Echoes(p, n)' <=> (last[p] # NoMessage /\ Alike(last[p].text, t))
    <3>1. said[p][i] \in Attempt
      BY <1>1 DEF TypeOK, Attempts
    <3>2. last[p] # NoMessage
      BY <2>3, <3>1, GuardsAssumption DEF Said, Attempt
    <3>3. \A j \in Attempts(p) :
            (IsAccepted(p, j) /\ \A k \in Attempts(p) : IsAccepted(p, k) => k <= j) => j = i
      BY <2>3, <1>1 DEF Attempts
    <3>4. last[p].text = said[p][i].shown
      BY <2>3
    <3> QED
      BY <2>1, <2>3, <3>2, <3>3, <3>4
  <2>4. LastMatches(p)
    BY DEF IInv, WindowsMatch
  <2> QED
    BY <2>2, <2>3, <2>4 DEF LastMatches
<1> QED
  BY <1>2, <1>3, <1>4, <1>6, <1>7

(* Which messages are within a period of the newest one. *)
LEMMA NewestWithin ==
    ASSUME NEW p \in Players, NEW t \in Texts, IInv, Say(p, t),
           NEW n, n = Len(said[p]) + 1
    PROVE  /\ \A j : j \in Within(p, n, FrequencyPeriod)' <=>
                 (j = n \/ (j \in Attempts(p) /\ now - said[p][j].at <= FrequencyPeriod))
           /\ \A j : j \in Within(p, n, SimilarPeriod)' <=>
                 (j = n \/ (j \in Attempts(p) /\ now - said[p][j].at <= SimilarPeriod))
<1>1. Len(said[p]) \in Nat /\ now \in Nat /\ TypeOK
  BY GuardsAssumption DEF IInv, TypeOK
<1>2. \A i \in Attempts(p) : said'[p][i] = said[p][i]
  BY <1>1, HistoryKept
<1>3. 1..n = Attempts(p) \cup {n}
  BY <1>1 DEF Attempts
<1>4. said'[p][n].at = now
  <2>1. said'[p][n] = [at |-> now, text |-> t, shown |-> Shown(p, t), verdict |-> Verdict(p, t)]
    BY <1>1, SayEffect
  <2> QED
    BY <2>1
<1>5. ASSUME NEW period \in Nat
      PROVE  \A j : j \in Within(p, n, period)' <=>
                     (j = n \/ (j \in Attempts(p) /\ now - said[p][j].at <= period))
  <2>1. now - now <= period
    BY <1>1
  <2> QED
    BY <1>2, <1>3, <1>4, <2>1 DEF Within
<1>6. FrequencyPeriod \in Nat /\ SimilarPeriod \in Nat
  BY GuardsAssumption
<1> QED
  BY <1>5, <1>6

(* The numbers of the entries the frequency window keeps are those of the
   messages accepted within the period. *)
LEMMA SendsCounted ==
    ASSUME NEW p \in Players, IInv, IsCounted(p)
    PROVE  LET N == {j \in Attempts(p) : IsAccepted(p, j) /\ now - said[p][j].at <= FrequencyPeriod}
           IN  IsFiniteSet(N) /\ Cardinality(N) = Cardinality(Sends(p))
<1> DEFINE N == {j \in Attempts(p) : IsAccepted(p, j) /\ now - said[p][j].at <= FrequencyPeriod}
<1>1. /\ \A e \in sends[p] : e.n \in Attempts(p) /\ said[p][e.n].at = e.at
      /\ \A e \in sends[p] : e = [n |-> e.n, at |-> e.at]
      /\ Len(said[p]) \in Nat
  BY DEF IInv, TypeOK
<1>2. SendsMatch(p)
  BY DEF IInv, WindowsMatch
<1>3. \A e \in Sends(p) : e \in sends[p] /\ e.n \in N
  BY <1>1, <1>2 DEF Sends, Fresh, SendsMatch
<1>4. ASSUME NEW i \in N
      PROVE  \E e \in Sends(p) : e.n = i
  <2>1. [n |-> i, at |-> said[p][i].at] \in sends[p]
    BY <1>2 DEF SendsMatch
  <2> QED
    BY <2>1 DEF Sends, Fresh
<1>5. \A d, e \in Sends(p) : d.n = e.n => d = e
  BY <1>1, <1>3
<1>6. \A e \in Sends(p) : e.n \in 1..Len(said[p])
  BY <1>1, <1>3 DEF Attempts
<1> QED
  BY <1>1, <1>3, <1>4, <1>5, <1>6, Numbered

(* The same of the window of similar messages. *)
LEMMA RecentCounted ==
    ASSUME NEW p \in Players, IInv, IsCompared(p), ~settings.compareAll
    PROVE  LET N == {j \in Attempts(p) : Counts(p, j) /\ now - said[p][j].at <= SimilarPeriod}
           IN  IsFiniteSet(N) /\ Cardinality(N) = Cardinality(Recent(p))
<1> DEFINE N == {j \in Attempts(p) : Counts(p, j) /\ now - said[p][j].at <= SimilarPeriod}
<1>1. /\ \A e \in recent[p] :
             e.n \in Attempts(p) /\ said[p][e.n].at = e.at /\ said[p][e.n].text = e.text
      /\ \A e \in recent[p] : e = [n |-> e.n, at |-> e.at, text |-> e.text]
      /\ Len(said[p]) \in Nat
  BY DEF IInv, TypeOK
<1>2. /\ \A e \in recent[p] : Counts(p, e.n)
      /\ \A i \in Attempts(p) :
             Counts(p, i) /\ now - said[p][i].at <= SimilarPeriod =>
                 [n |-> i, at |-> said[p][i].at, text |-> said[p][i].text] \in recent[p]
  BY DEF IInv, WindowsMatch, RecentMatches
<1>3. \A e \in Recent(p) : e \in recent[p] /\ e.n \in N
  BY <1>1, <1>2 DEF Recent, Fresh
<1>4. ASSUME NEW i \in N
      PROVE  \E e \in Recent(p) : e.n = i
  <2>1. [n |-> i, at |-> said[p][i].at, text |-> said[p][i].text] \in recent[p]
    BY <1>2
  <2> QED
    BY <2>1 DEF Recent, Fresh
<1>5. \A d, e \in Recent(p) : d.n = e.n => d = e
  BY <1>1, <1>3
<1>6. \A e \in Recent(p) : e.n \in 1..Len(said[p])
  BY <1>1, <1>3 DEF Attempts
<1> QED
  BY <1>1, <1>3, <1>4, <1>5, <1>6, Numbered

-----------------------------------------------------------------------------
(* The windows after a message *)

(* The history stays ordered, and the last accepted message is remembered. *)
LEMMA SayLast ==
    ASSUME NEW p \in Players, NEW t \in Texts, IInv, Say(p, t)
    PROVE  Ordered(p)' /\ LastMatches(p)'
<1> DEFINE v == Verdict(p, t)
<1> SUFFICES ASSUME NEW n, n = Len(said[p]) + 1
             PROVE  Ordered(p)' /\ LastMatches(p)'
  OBVIOUS
<1>1. TypeOK /\ Ordered(p) /\ LastMatches(p)
  BY DEF IInv, WindowsMatch
<1>2. now \in Nat /\ Len(said[p]) \in Nat
  BY <1>1, GuardsAssumption DEF TypeOK
<1>3. /\ n \in Nat /\ Attempts(p)' = Attempts(p) \cup {n} /\ n \notin Attempts(p)
      /\ said'[p][n] = [at |-> now, text |-> t, shown |-> Shown(p, t), verdict |-> v]
      /\ IsAccepted(p, n)' <=> v = "accepted"
  BY Newest
<1>4. \A i \in Attempts(p) : said'[p][i] = said[p][i] /\ IsAccepted(p, i)' = IsAccepted(p, i)
  BY <1>1, HistoryKept
<1>5. now' = now /\ last'[p] = LastAfter(p, t, v)
  BY <1>1, SayEffect
<1>6. \A i \in Attempts(p) : i \in Nat /\ i < n /\ (\A j \in 1..i : j \in Attempts(p))
  BY <1>2 DEF Attempts
<1>7. Ordered(p)'
  <2>1. \A i \in Attempts(p) :
            said'[p][i].at <= now' /\ \A j \in 1..i : said'[p][j].at <= said'[p][i].at
    BY <1>1, <1>4, <1>5, <1>6 DEF Ordered
  <2>2. said'[p][n].at = now
    BY <1>3
  <2>3. 1..n = Attempts(p) \cup {n}
    BY <1>2 DEF Attempts
  <2>4. \A j \in 1..n : said'[p][j].at <= said'[p][n].at
    BY <1>2, <1>5, <2>1, <2>2, <2>3
  <2> QED
    BY <1>2, <1>3, <1>5, <2>1, <2>2, <2>4 DEF Ordered
<1>8. LastMatches(p)'
  <2>1. CASE v = "accepted"
    <3>1. last'[p] = [at |-> said'[p][n].at, text |-> said'[p][n].shown]
      BY <2>1, <1>3, <1>5 DEF LastAfter
    <3>2. \A j \in Attempts(p)' : j <= n
      BY <1>3, <1>6
    <3> QED
      BY <2>1, <1>3, <3>1, <3>2 DEF LastMatches
  <2>2. CASE v # "accepted"
    <3>1. last'[p] = last[p] /\ ~IsAccepted(p, n)'
      BY <2>2, <1>3, <1>5 DEF LastAfter
    <3>2. CASE last[p] = NoMessage /\ \A i \in Attempts(p) : ~IsAccepted(p, i)
      BY <3>1, <3>2, <1>3, <1>4 DEF LastMatches
    <3>3. ASSUME NEW i \in Attempts(p),
                 IsAccepted(p, i), last[p] = [at |-> said[p][i].at, text |-> said[p][i].shown],
                 \A j \in Attempts(p) : IsAccepted(p, j) => j <= i
          PROVE  LastMatches(p)'
      BY <3>1, <3>3, <1>3, <1>4 DEF LastMatches
    <3> QED
      BY <1>1, <3>2, <3>3 DEF LastMatches
  <2> QED
    BY <2>1, <2>2
<1> QED
  BY <1>7, <1>8

(* The frequency window goes on holding what was accepted within the period. *)
LEMMA SaySends ==
    ASSUME NEW p \in Players, NEW t \in Texts, IInv, Say(p, t)
    PROVE  SendsMatch(p)'
<1> DEFINE v == Verdict(p, t)
<1> SUFFICES ASSUME NEW n, n = Len(said[p]) + 1
             PROVE  SendsMatch(p)'
  OBVIOUS
<1>1. TypeOK /\ SendsMatch(p) /\ \A e \in sends[p] : e.n \in Attempts(p)
  BY DEF IInv, WindowsMatch, TypeOK
<1>2. /\ Attempts(p)' = Attempts(p) \cup {n}
      /\ said'[p][n].at = now
      /\ IsAccepted(p, n)' <=> v = "accepted"
  <2>1. said'[p][n] = [at |-> now, text |-> t, shown |-> Shown(p, t), verdict |-> v]
    BY Newest
  <2> QED
    BY <2>1, Newest
<1>3. \A i \in Attempts(p) : said'[p][i] = said[p][i] /\ IsAccepted(p, i)' = IsAccepted(p, i)
  BY <1>1, HistoryKept
<1>4. now' = now /\ settings' = settings /\ sends'[p] = SendsAfter(p, v)
  BY <1>1, SayEffect
<1>5. \A e \in sends'[p] : IsAccepted(p, e.n)'
  <2>1. \A e \in sends'[p] : e \in sends[p] \/ (e.n = n /\ v = "accepted")
    BY <1>1, WindowContents DEF Entry
  <2> QED
    BY <1>1, <1>2, <1>3, <2>1 DEF SendsMatch
<1>6. ASSUME IsCounted(p)', NEW i \in Attempts(p)',
             IsAccepted(p, i)', now' - said'[p][i].at <= FrequencyPeriod
      PROVE  [n |-> i, at |-> said'[p][i].at] \in sends'[p]
  <2>1. IsCounted(p)
    BY <1>4, <1>6 DEF IsCounted, IsMod, IsOp, Bypasses
  <2>2. Sends(p) \subseteq sends'[p]
    BY <1>4 DEF SendsAfter, Sends, Fresh
  <2>3. CASE i \in Attempts(p)
    <3>1. [n |-> i, at |-> said[p][i].at] \in sends[p]
      BY <1>1, <1>3, <1>4, <1>6, <2>1, <2>3 DEF SendsMatch
    <3>2. [n |-> i, at |-> said[p][i].at] \in Sends(p)
      BY <1>3, <1>4, <1>6, <2>3, <3>1 DEF Sends, Fresh
    <3> QED
      BY <1>3, <2>2, <2>3, <3>2
  <2>4. CASE i = n
    BY <1>2, <1>4, <1>6, <2>1, <2>4 DEF SendsAfter, Entry
  <2> QED
    BY <1>2, <2>3, <2>4
<1> QED
  BY <1>5, <1>6 DEF SendsMatch

(* The window of similar messages goes on holding what counts as similar. *)
LEMMA SayRecent ==
    ASSUME NEW p \in Players, NEW t \in Texts, IInv, Say(p, t)
    PROVE  RecentMatches(p)'
<1> DEFINE v == Verdict(p, t)
<1> SUFFICES ASSUME NEW n, n = Len(said[p]) + 1, IsCompared(p)', ~settings'.compareAll
             PROVE  RecentMatches(p)'
  BY DEF RecentMatches
<1>1. TypeOK /\ RecentMatches(p) /\ \A e \in recent[p] : e.n \in Attempts(p)
  BY DEF IInv, WindowsMatch, TypeOK
<1>2. now' = now /\ settings' = settings /\ recent'[p] = RecentAfter(p, t, v)
  BY <1>1, SayEffect
<1>3. IsCompared(p) /\ ~settings.compareAll
  BY <1>2 DEF IsCompared, IsMod, IsOp, Bypasses
<1>4. /\ Attempts(p)' = Attempts(p) \cup {n}
      /\ said'[p][n] = [at |-> now, text |-> t, shown |-> Shown(p, t), verdict |-> v]
      /\ Echoes(p, n)' <=> IsSimilar(p, t)
  BY <1>3, Newest DEF IsSimilar
<1>5. Counts(p, n)' <=> (IsSimilar(p, t) /\ v \notin Early /\ (IsMod => v # "too_similar"))
  <2>1. said'[p][n].verdict = v
    BY <1>4
  <2> QED
    BY <1>2, <1>4, <2>1 DEF Counts, IsMod
<1>6. \A i \in Attempts(p) : said'[p][i] = said[p][i] /\ Counts(p, i)' = Counts(p, i)
  BY <1>1, HistoryKept
<1>7. \A e \in recent'[p] : Counts(p, e.n)'
  <2>1. \A e \in recent'[p] :
          \/ e \in recent[p]
          \/ e.n = n /\ v \notin Early /\ IsSimilar(p, t) /\ (IsMod => v # "too_similar")
    BY <1>1, WindowContents
  <2> QED
    BY <1>1, <1>3, <1>5, <1>6, <2>1 DEF RecentMatches
<1>8. ASSUME NEW i \in Attempts(p)', Counts(p, i)', now' - said'[p][i].at <= SimilarPeriod
      PROVE  [n |-> i, at |-> said'[p][i].at, text |-> said'[p][i].text] \in recent'[p]
  <2>1. Recent(p) \subseteq recent'[p]
    BY <1>2 DEF RecentAfter, Recent, Fresh
  <2>2. CASE i \in Attempts(p)
    <3>1. [n |-> i, at |-> said[p][i].at, text |-> said[p][i].text] \in recent[p]
      BY <1>1, <1>2, <1>3, <1>6, <1>8, <2>2 DEF RecentMatches
    <3>2. [n |-> i, at |-> said[p][i].at, text |-> said[p][i].text] \in Recent(p)
      BY <1>2, <1>6, <1>8, <2>2, <3>1 DEF Recent, Fresh
    <3> QED
      BY <1>6, <2>1, <2>2, <3>2
  <2>3. CASE i = n
    <3>1. [n |-> n, at |-> now, text |-> t] \in recent'[p]
      BY <1>2, <1>3, <1>5, <1>8, <2>3 DEF RecentAfter, Entry
    <3> QED
      BY <1>4, <2>3, <3>1
  <2> QED
    BY <1>4, <2>2, <2>3
<1> QED
  BY <1>7, <1>8 DEF RecentMatches

(* A message keeps the inductive invariant. *)
LEMMA SayKeeps ==
    ASSUME NEW p \in Players, NEW t \in Texts, IInv, Say(p, t)
    PROVE  IInv'
<1>1. TypeOK
  BY DEF IInv
<1>2. TypeOK'
  BY <1>1, SayTypes
<1>3. ASSUME NEW q \in Players
      PROVE  (Ordered(q) /\ LastMatches(q) /\ SendsMatch(q) /\ RecentMatches(q))'
  <2>1. CASE q = p
    BY <2>1, SayLast, SaySends, SayRecent
  <2>2. CASE q # p
    <3>1. /\ said'[q] = said[q] /\ last'[q] = last[q] /\ recent'[q] = recent[q]
          /\ sends'[q] = sends[q] /\ settings' = settings /\ now' = now
      BY <1>1, <2>2, SayEffect
    <3>2. \A i \in Attempts(q) : Counts(q, i)' = Counts(q, i)
      BY <1>1, HistoryKept
    <3>3. \A e \in recent[q] : e.n \in Attempts(q)
      BY <1>1 DEF TypeOK
    <3>4. Attempts(q)' = Attempts(q)
      BY <3>1 DEF Attempts
    <3>5. Ordered(q) /\ LastMatches(q) /\ SendsMatch(q) /\ RecentMatches(q)
      BY DEF IInv, WindowsMatch
    <3>6. Ordered(q)' /\ LastMatches(q)'
      BY <3>1, <3>4, <3>5 DEF Ordered, LastMatches, IsAccepted
    <3>7. SendsMatch(q)'
      BY <3>1, <3>4, <3>5 DEF SendsMatch, IsAccepted, IsCounted, IsMod, IsOp, Bypasses
    <3>8. RecentMatches(q)'
      <4>1. IsCompared(q)' = IsCompared(q)
        BY <3>1 DEF IsCompared, IsMod, IsOp, Bypasses
      <4> QED
        BY <3>1, <3>2, <3>3, <3>4, <3>5, <4>1 DEF RecentMatches
    <3> QED
      BY <3>6, <3>7, <3>8
  <2> QED
    BY <2>1, <2>2
<1> QED
  BY <1>2, <1>3 DEF IInv, WindowsMatch

-----------------------------------------------------------------------------
(* The other steps *)

(* Steps that leave the history and the windows alone keep what is said of an attempt. *)
LEMMA SameHistory ==
    ASSUME said' = said, settings' = settings, NEW p \in Players
    PROVE  /\ Attempts(p)' = Attempts(p)
           /\ \A i : IsAccepted(p, i)' = IsAccepted(p, i) /\ AcceptedBefore(p, i)' = AcceptedBefore(p, i)
           /\ \A i : Echoes(p, i)' = Echoes(p, i) /\ Counts(p, i)' = Counts(p, i)
           /\ \A i, period : Within(p, i, period)' = Within(p, i, period)
           /\ IsCounted(p)' = IsCounted(p) /\ IsCompared(p)' = IsCompared(p)
<1>1. Attempts(p)' = Attempts(p)
  BY DEF Attempts
<1>2. \A i : IsAccepted(p, i)' = IsAccepted(p, i)
  BY DEF IsAccepted
<1>3. \A i : AcceptedBefore(p, i)' = AcceptedBefore(p, i)
  BY <1>2 DEF AcceptedBefore
<1>4. \A i : Echoes(p, i)' = Echoes(p, i)
  BY <1>3 DEF Echoes, Alike
<1>5. \A i : Counts(p, i)' = Counts(p, i)
  BY <1>4 DEF Counts, IsMod
<1>6. \A i, period : Within(p, i, period)' = Within(p, i, period)
  BY DEF Within
<1>7. IsCounted(p)' = IsCounted(p) /\ IsCompared(p)' = IsCompared(p)
  BY DEF IsCounted, IsCompared, IsMod, IsOp, Bypasses
<1> QED
  BY <1>1, <1>2, <1>3, <1>4, <1>5, <1>6, <1>7

(* Time and mutes: the clock may advance, nothing else of the windows changes. *)
LEMMA QuietKeeps ==
    ASSUME IInv, UNCHANGED <<settings, last, recent, sends, said>>,
           now' \in 0..MaxTime, now' >= now, globalMute' \in BOOLEAN, muted' \subseteq Players,
           attempts' \in 0..MaxAttempts, orders' \in 0..MaxOrders
    PROVE  IInv'
<1>1. TypeOK'
  BY SameHistory DEF IInv, TypeOK
<1>2. ASSUME NEW p \in Players
      PROVE  (Ordered(p) /\ LastMatches(p) /\ SendsMatch(p) /\ RecentMatches(p))'
  <2>1. Ordered(p) /\ LastMatches(p) /\ SendsMatch(p) /\ RecentMatches(p)
    BY DEF IInv, WindowsMatch
  <2>2. /\ Attempts(p)' = Attempts(p)
        /\ \A i : IsAccepted(p, i)' = IsAccepted(p, i) /\ Counts(p, i)' = Counts(p, i)
        /\ IsCounted(p)' = IsCounted(p) /\ IsCompared(p)' = IsCompared(p)
    BY SameHistory
  <2>3. now \in Int /\ now' \in Int /\ \A i \in Attempts(p) : said[p][i].at \in Int
    <3>1. \A i \in Attempts(p) : said[p][i] \in Attempt
      BY DEF IInv, TypeOK, Attempts
    <3> QED
      BY <3>1, GuardsAssumption DEF IInv, TypeOK, Attempt
  <2>4. Ordered(p)' /\ LastMatches(p)'
    BY <2>1, <2>2, <2>3 DEF Ordered, LastMatches
  <2>5. \A i \in Attempts(p), P \in Nat : now' - said[p][i].at <= P => now - said[p][i].at <= P
    BY <2>3
  <2>6. SendsMatch(p)'
    BY <2>1, <2>2, <2>5, GuardsAssumption DEF SendsMatch
  <2>7. RecentMatches(p)'
    BY <2>1, <2>2, <2>5, GuardsAssumption DEF RecentMatches
  <2> QED
    BY <2>4, <2>6, <2>7
<1> QED
  BY <1>1, <1>2 DEF IInv, WindowsMatch

(* A logout that is forgotten starts the history of the player anew. *)
LEMMA RejoinKeeps ==
    ASSUME NEW p \in Players, IInv, Rejoin(p)
    PROVE  IInv'
<1>1. /\ last' = Set(last, p, NoMessage) /\ recent' = Set(recent, p, {}) /\ sends' = Set(sends, p, {})
      /\ said' = Set(said, p, <<>>) /\ settings' = settings /\ now' = now
      /\ orders \in Nat /\ orders' \in 0..MaxOrders
      /\ UNCHANGED <<globalMute, muted, attempts>>
  BY GuardsAssumption DEF Rejoin, Order, IInv, TypeOK
<1>2. last'[p] = NoMessage /\ recent'[p] = {} /\ sends'[p] = {} /\ said'[p] = <<>> /\ Attempts(p)' = {}
  BY <1>1 DEF Set, Attempts
<1>3. ASSUME NEW q \in Players \ {p}
      PROVE  /\ last'[q] = last[q] /\ recent'[q] = recent[q] /\ sends'[q] = sends[q] /\ said'[q] = said[q]
             /\ Attempts(q)' = Attempts(q)
             /\ \A i : IsAccepted(q, i)' = IsAccepted(q, i) /\ Counts(q, i)' = Counts(q, i)
             /\ IsCounted(q)' = IsCounted(q) /\ IsCompared(q)' = IsCompared(q)
  <2>1. last'[q] = last[q] /\ recent'[q] = recent[q] /\ sends'[q] = sends[q] /\ said'[q] = said[q]
    BY <1>1 DEF Set
  <2>2. Attempts(q)' = Attempts(q) /\ \A i : IsAccepted(q, i)' = IsAccepted(q, i)
    BY <2>1 DEF Attempts, IsAccepted
  <2>3. \A i : AcceptedBefore(q, i)' = AcceptedBefore(q, i)
    BY <2>2 DEF AcceptedBefore
  <2>4. \A i : Echoes(q, i)' = Echoes(q, i)
    BY <1>1, <2>1, <2>3 DEF Echoes, Alike
  <2>5. \A i : Counts(q, i)' = Counts(q, i)
    BY <1>1, <2>1, <2>4 DEF Counts, IsMod
  <2>6. IsCounted(q)' = IsCounted(q) /\ IsCompared(q)' = IsCompared(q)
    BY <1>1 DEF IsCounted, IsCompared, IsMod, IsOp, Bypasses
  <2> QED
    BY <2>1, <2>2, <2>5, <2>6
<1>4. TypeOK'
  <2>1. /\ last' \in [Players -> Said \cup {NoMessage}]
        /\ recent' \in [Players -> SUBSET [n : Nat \ {0}, at : Nat, text : Texts]]
        /\ sends' \in [Players -> SUBSET [n : Nat \ {0}, at : Nat]]
        /\ said' \in [Players -> Seq(Attempt)]
    BY <1>1 DEF Set, IInv, TypeOK
  <2>2. /\ settings' \in Configurations /\ globalMute' \in BOOLEAN /\ muted' \subseteq Players
        /\ now' \in 0..MaxTime /\ attempts' \in 0..MaxAttempts
    BY <1>1 DEF IInv, TypeOK
  <2>3. \A q \in Players :
           /\ \A e \in sends'[q] : e.n \in Attempts(q)' /\ said'[q][e.n].at = e.at
           /\ \A e \in recent'[q] :
                  e.n \in Attempts(q)' /\ said'[q][e.n].at = e.at /\ said'[q][e.n].text = e.text
    BY <1>2, <1>3 DEF IInv, TypeOK
  <2> QED
    BY <1>1, <2>1, <2>2, <2>3 DEF TypeOK
<1>5. ASSUME NEW q \in Players
      PROVE  (Ordered(q) /\ LastMatches(q) /\ SendsMatch(q) /\ RecentMatches(q))'
  <2>1. CASE q = p
    BY <1>2, <2>1 DEF Ordered, LastMatches, SendsMatch, RecentMatches
  <2>2. CASE q # p
    <3>1. Ordered(q) /\ LastMatches(q) /\ SendsMatch(q) /\ RecentMatches(q)
      BY DEF IInv, WindowsMatch
    <3> QED
      BY <1>1, <1>3, <2>2, <3>1 DEF Ordered, LastMatches, SendsMatch, RecentMatches
  <2> QED
    BY <2>1, <2>2
<1> QED
  BY <1>4, <1>5 DEF IInv, WindowsMatch

(* Nothing has been said at the start. *)
LEMMA InitHolds == Init => IInv
<1> SUFFICES ASSUME Init PROVE IInv
  OBVIOUS
<1>1. \A p \in Players : Attempts(p) = {} /\ last[p] = NoMessage /\ sends[p] = {} /\ recent[p] = {}
  BY DEF Init, Attempts
<1>2. TypeOK
  <2>1. said \in [Players -> Seq(Attempt)]
    BY DEF Init
  <2>2. now \in 0..MaxTime /\ attempts \in 0..MaxAttempts /\ orders \in 0..MaxOrders
    BY GuardsAssumption DEF Init
  <2>3. /\ settings \in Configurations /\ globalMute \in BOOLEAN /\ muted \subseteq Players
        /\ last \in [Players -> Said \cup {NoMessage}]
        /\ recent \in [Players -> SUBSET [n : Nat \ {0}, at : Nat, text : Texts]]
        /\ sends \in [Players -> SUBSET [n : Nat \ {0}, at : Nat]]
    BY DEF Init
  <2> QED
    BY <1>1, <2>1, <2>2, <2>3 DEF TypeOK
<1>3. WindowsMatch
  BY <1>1 DEF WindowsMatch, Ordered, LastMatches, SendsMatch, RecentMatches
<1> QED
  BY <1>2, <1>3 DEF IInv

(* A step is a message, a forgotten session, or one that leaves all windows alone. *)
LEMMA Steps ==
    ASSUME IInv, [Next]_vars
    PROVE  \/ \E p \in Players : (\E t \in Texts : Say(p, t)) \/ Rejoin(p)
           \/ /\ UNCHANGED <<settings, last, recent, sends, said>>
              /\ now' \in 0..MaxTime /\ now' >= now /\ globalMute' \in BOOLEAN /\ muted' \subseteq Players
              /\ attempts' \in 0..MaxAttempts /\ orders' \in 0..MaxOrders
<1>1. /\ now \in 0..MaxTime /\ attempts \in 0..MaxAttempts /\ orders \in 0..MaxOrders
      /\ globalMute \in BOOLEAN /\ muted \subseteq Players
  BY DEF IInv, TypeOK
<1>2. CASE UNCHANGED vars
  BY <1>1, <1>2, GuardsAssumption DEF vars
<1>3. CASE Tick
  BY <1>1, <1>3, GuardsAssumption DEF Tick
<1>4. CASE SetGlobalMute
  BY <1>1, <1>4, GuardsAssumption DEF SetGlobalMute, Order
<1>5. ASSUME NEW p \in Players, MutePlayer(p) \/ UnmutePlayer(p)
      PROVE  /\ UNCHANGED <<settings, last, recent, sends, said>>
             /\ now' \in 0..MaxTime /\ now' >= now /\ globalMute' \in BOOLEAN /\ muted' \subseteq Players
             /\ attempts' \in 0..MaxAttempts /\ orders' \in 0..MaxOrders
  BY <1>1, <1>5, GuardsAssumption DEF MutePlayer, UnmutePlayer, Order
<1> QED
  BY <1>2, <1>3, <1>4, <1>5 DEF Next

(* Every step keeps the inductive invariant. *)
LEMMA NextKeeps == IInv /\ [Next]_vars => IInv'
<1> SUFFICES ASSUME IInv, [Next]_vars PROVE IInv'
  OBVIOUS
<1> QED
  BY Steps, SayKeeps, RejoinKeeps, QuietKeeps

(* The inductive invariant holds in every reachable state. *)
LEMMA Inductive == Spec => []IInv
BY InitHolds, NextKeeps, PTL DEF Spec

(* The variables keep their types; entries of the windows are attempts of the player. *)
THEOREM TypeCorrect == Spec => []TypeOK
<1>1. IInv => TypeOK
  BY DEF IInv
<1> QED
  BY Inductive, <1>1, PTL

(* What is remembered of a player is what happened, for any settings and periods. *)
THEOREM WindowsAreHistory == Spec => []WindowsMatch
<1>1. IInv => WindowsMatch
  BY DEF IInv
<1> QED
  BY Inductive, <1>1, PTL

-----------------------------------------------------------------------------
(* What the verdict on the newest message means *)

(* It is accepted after the cooldown. *)
LEMMA NewCooldown ==
    ASSUME NEW p \in Players, NEW t \in Texts, IInv, Say(p, t), NEW n, n = Len(said[p]) + 1,
           ~IsOp(p), IsAccepted(p, n)', NEW j \in AcceptedBefore(p, n)'
    PROVE  said'[p][n].at - said'[p][j].at >= settings.cooldown
<1>1. /\ IsAccepted(p, n)' <=> Verdict(p, t) = "accepted"
      /\ AcceptedBefore(p, n)' = {k \in Attempts(p) : IsAccepted(p, k)}
      /\ said'[p][n] = [at |-> now, text |-> t, shown |-> Shown(p, t), verdict |-> Verdict(p, t)]
  BY Newest
<1>2. TypeOK /\ Ordered(p) /\ LastMatches(p)
  BY DEF IInv, WindowsMatch
<1>3. j \in Attempts(p) /\ IsAccepted(p, j) /\ said'[p][j] = said[p][j]
  BY <1>1, <1>2, HistoryKept
<1>4. ~TooEarly(p)
  BY <1>1 DEF Verdict
<1>5. PICK i \in Attempts(p) :
          /\ last[p] = [at |-> said[p][i].at, text |-> said[p][i].shown]
          /\ j <= i
  BY <1>2, <1>3 DEF LastMatches
<1>6. said[p][i] \in Attempt /\ said[p][j] \in Attempt /\ Len(said[p]) \in Nat
  BY <1>2, <1>3 DEF TypeOK, Attempts
<1>7. last[p] # NoMessage /\ last[p].at = said[p][i].at
  BY <1>5, <1>6, GuardsAssumption DEF Attempt, Said
<1>8. settings.cooldown - (now - said[p][i].at) <= 0
  <2>1. settings.cooldown \in Nat /\ now \in Int
    BY <1>2, GuardsAssumption DEF TypeOK, Configuration
  <2>2. said[p][i].at \in Int
    BY <1>6 DEF Attempt
  <2> QED
    BY <1>4, <1>7, <2>1, <2>2 DEF TooEarly
<1>9. said[p][j].at <= said[p][i].at
  BY <1>2, <1>3, <1>5, <1>6 DEF Ordered, Attempts
<1>10. settings.cooldown \in Int /\ now \in Int /\ said[p][i].at \in Int /\ said[p][j].at \in Int
  BY <1>2, <1>6, GuardsAssumption DEF TypeOK, Configuration, Attempt
<1>11. said'[p][n].at = now
  BY <1>1
<1> QED
  BY <1>3, <1>8, <1>9, <1>10, <1>11

(* A finite set has at most one element more when a number is added. *)
LEMMA OneMore ==
    ASSUME NEW N, NEW M, NEW n, NEW m \in Nat, IsFiniteSet(N), Cardinality(N) < m, M \subseteq N \cup {n}
    PROVE  Cardinality(M) <= m
<1>1. IsFiniteSet(N \cup {n}) /\ Cardinality(N \cup {n}) <= Cardinality(N) + 1 /\ Cardinality(N) \in Nat
  BY FS_AddElement, FS_CardinalityType
<1>2. Cardinality(M) <= Cardinality(N \cup {n}) /\ IsFiniteSet(M)
  BY <1>1, FS_Subset
<1>3. Cardinality(M) \in Nat /\ Cardinality(N \cup {n}) \in Nat
  BY <1>1, <1>2, FS_CardinalityType
<1> QED
  BY <1>1, <1>2, <1>3

(* It is accepted only if the period has room for it. *)
LEMMA NewFrequent ==
    ASSUME NEW p \in Players, NEW t \in Texts, IInv, Say(p, t), NEW n, n = Len(said[p]) + 1,
           IsCounted(p), IsAccepted(p, n)'
    PROVE  Cardinality({j \in Within(p, n, FrequencyPeriod)' : IsAccepted(p, j)'}) <= settings.maxFrequent
<1>0. \A j : j \in Within(p, n, FrequencyPeriod)' <=>
             (j = n \/ (j \in Attempts(p) /\ now - said[p][j].at <= FrequencyPeriod))
  BY NewestWithin
<1>1. IsAccepted(p, n)' <=> Verdict(p, t) = "accepted"
  BY Newest
<1> DEFINE N == {j \in Attempts(p) : IsAccepted(p, j) /\ now - said[p][j].at <= FrequencyPeriod}
           M == {j \in Within(p, n, FrequencyPeriod)' : IsAccepted(p, j)'}
<1>2. TypeOK /\ settings.maxFrequent \in Nat
  BY GuardsAssumption DEF IInv, TypeOK, Configuration
<1>3. M \subseteq N \cup {n}
  BY <1>0, <1>2, HistoryKept
<1>4. IsFiniteSet(N) /\ Cardinality(N) = Cardinality(Sends(p))
  BY SendsCounted
<1>5. ~TooFrequent(p)
  BY <1>1 DEF Verdict
<1>6. Cardinality(N) < settings.maxFrequent
  <2>1. Cardinality(N) \in Nat
    BY <1>4, FS_CardinalityType
  <2> QED
    BY <1>2, <1>4, <1>5, <2>1 DEF TooFrequent
<1> QED
  BY <1>2, <1>3, <1>4, <1>6, OneMore

(* A similar one is accepted only if the period has room for it. *)
LEMMA NewRepeat ==
    ASSUME NEW p \in Players, NEW t \in Texts, IInv, Say(p, t), NEW n, n = Len(said[p]) + 1,
           IsCompared(p), ~settings.compareAll, IsAccepted(p, n)', Echoes(p, n)'
    PROVE  Cardinality({j \in Within(p, n, SimilarPeriod)' : IsAccepted(p, j)' /\ Echoes(p, j)'})
               <= settings.maxSimilar
<1>0. \A j : j \in Within(p, n, SimilarPeriod)' <=>
             (j = n \/ (j \in Attempts(p) /\ now - said[p][j].at <= SimilarPeriod))
  BY NewestWithin
<1>1. /\ IsAccepted(p, n)' <=> Verdict(p, t) = "accepted"
      /\ Echoes(p, n)' <=> (last[p] # NoMessage /\ Alike(last[p].text, t))
  BY Newest
<1> DEFINE N == {j \in Attempts(p) : Counts(p, j) /\ now - said[p][j].at <= SimilarPeriod}
           M == {j \in Within(p, n, SimilarPeriod)' : IsAccepted(p, j)' /\ Echoes(p, j)'}
<1>2. TypeOK /\ settings.maxSimilar \in Nat
  BY GuardsAssumption DEF IInv, TypeOK, Configuration
<1>3. M \subseteq N \cup {n}
  <2>1. \A j \in Attempts(p) : IsAccepted(p, j)' /\ Echoes(p, j)' => Counts(p, j)
    BY <1>2, HistoryKept DEF Counts, IsAccepted, Early
  <2> QED
    BY <1>0, <2>1
<1>4. IsFiniteSet(N) /\ Cardinality(N) = Cardinality(Recent(p))
  BY RecentCounted
<1>5. ~TooSimilar(p, t) /\ IsSimilar(p, t)
  BY <1>1 DEF Verdict, IsSimilar
<1>6. Cardinality(N) < settings.maxSimilar
  <2>1. Cardinality(N) \in Nat
    BY <1>4, FS_CardinalityType
  <2> QED
    BY <1>2, <1>4, <1>5, <2>1 DEF TooSimilar
<1> QED
  BY <1>2, <1>3, <1>4, <1>6, OneMore

(* It is refused for the cause the verdict names. *)
LEMMA NewCause ==
    ASSUME NEW p \in Players, NEW t \in Texts, IInv, Say(p, t), NEW n, n = Len(said[p]) + 1
    PROVE  HasCause(p, n)'
<1> DEFINE v == Verdict(p, t)
<1>1. /\ said'[p][n] = [at |-> now, text |-> t, shown |-> Shown(p, t), verdict |-> v]
      /\ AcceptedBefore(p, n)' = {k \in Attempts(p) : IsAccepted(p, k)}
      /\ Echoes(p, n)' <=> (last[p] # NoMessage /\ Alike(last[p].text, t))
      /\ n \notin Attempts(p)
  BY Newest
<1>2. TypeOK /\ LastMatches(p)
  BY DEF IInv, WindowsMatch
<1>3. settings' = settings
  BY <1>2, SayEffect
<1>4. \A i \in Attempts(p) :
          said'[p][i] = said[p][i] /\ IsAccepted(p, i)' = IsAccepted(p, i) /\ Counts(p, i)' = Counts(p, i)
  BY <1>2, HistoryKept
<1>5. said'[p][n].verdict = v /\ said'[p][n].at = now
  BY <1>1
<1>6. ASSUME v = "cooldown"
      PROVE  \E j \in AcceptedBefore(p, n)' : said'[p][n].at - said'[p][j].at < settings'.cooldown
  <2>1. last[p] # NoMessage /\ settings.cooldown - (now - last[p].at) > 0
    BY <1>6 DEF Verdict, TooEarly
  <2>2. PICK i \in Attempts(p) :
            IsAccepted(p, i) /\ last[p] = [at |-> said[p][i].at, text |-> said[p][i].shown]
    BY <1>2, <2>1 DEF LastMatches
  <2>3. last[p].at = said[p][i].at /\ said'[p][i] = said[p][i] /\ i \in AcceptedBefore(p, n)'
    BY <1>1, <1>4, <2>2
  <2>4. said[p][i] \in Attempt
    BY <1>2 DEF TypeOK, Attempts
  <2>5. settings.cooldown \in Int /\ now \in Int /\ said[p][i].at \in Int
    BY <1>2, <2>4, GuardsAssumption DEF TypeOK, Configuration, Attempt
  <2> QED
    BY <1>3, <1>5, <2>1, <2>3, <2>5
<1>7. ASSUME v = "too_frequent"
      PROVE  Cardinality({j \in Within(p, n, FrequencyPeriod)' \ {n} : IsAccepted(p, j)'})
                 >= settings'.maxFrequent
  <2> DEFINE N == {j \in Attempts(p) : IsAccepted(p, j) /\ now - said[p][j].at <= FrequencyPeriod}
  <2>1. TooFrequent(p)
    BY <1>7 DEF Verdict
  <2>2. Cardinality(N) = Cardinality(Sends(p))
    BY <2>1, SendsCounted DEF TooFrequent
  <2>3. {j \in Within(p, n, FrequencyPeriod)' \ {n} : IsAccepted(p, j)'} = N
    <3>1. \A j : j \in Within(p, n, FrequencyPeriod)' <=>
                  (j = n \/ (j \in Attempts(p) /\ now - said[p][j].at <= FrequencyPeriod))
      BY NewestWithin
    <3> QED
      BY <1>1, <1>4, <3>1
  <2> QED
    BY <1>3, <2>1, <2>2, <2>3 DEF TooFrequent
<1>8. ASSUME v = "too_similar", ~settings'.compareAll
      PROVE  /\ Echoes(p, n)'
             /\ Cardinality({j \in Within(p, n, SimilarPeriod)' \ {n} : Counts(p, j)'}) >= settings'.maxSimilar
  <2> DEFINE N == {j \in Attempts(p) : Counts(p, j) /\ now - said[p][j].at <= SimilarPeriod}
  <2>1. TooSimilar(p, t) /\ ~settings.compareAll
    BY <1>3, <1>8 DEF Verdict
  <2>2. Echoes(p, n)'
    BY <1>1, <2>1 DEF TooSimilar, IsSimilar
  <2>3. Cardinality(N) = Cardinality(Recent(p))
    BY <2>1, RecentCounted DEF TooSimilar
  <2>4. {j \in Within(p, n, SimilarPeriod)' \ {n} : Counts(p, j)'} = N
    <3>1. \A j : j \in Within(p, n, SimilarPeriod)' <=>
                  (j = n \/ (j \in Attempts(p) /\ now - said[p][j].at <= SimilarPeriod))
      BY NewestWithin
    <3> QED
      BY <1>1, <1>4, <3>1
  <2> QED
    BY <1>3, <2>1, <2>2, <2>3, <2>4 DEF TooSimilar
<1>9. ASSUME v = "too_similar"
      PROVE  settings'.similarity # 0 \/ EverythingIsSimilar'
  <2>1. TooSimilar(p, t)
    BY <1>9 DEF Verdict
  <2> QED
    BY <1>3, <2>1 DEF TooSimilar, IsCompared, EverythingIsSimilar, IsMod
<1> QED
  BY <1>5, <1>6, <1>7, <1>8, <1>9 DEF HasCause

-----------------------------------------------------------------------------
(* What players may count on *)

(* The attempts of a player after a step: those before it, and the newest one
   of who spoke; or none, when the session is forgotten. *)
LEMMA AttemptsAfter ==
    ASSUME IInv, [Next]_vars, NEW q \in Players
    PROVE  /\ settings' = settings
           /\ \A i \in Attempts(q)' :
                 \/ /\ i \in Attempts(q) /\ said'[q][i] = said[q][i]
                    /\ IsAccepted(q, i)' = IsAccepted(q, i)
                    /\ AcceptedBefore(q, i)' = AcceptedBefore(q, i)
                    /\ \A j \in AcceptedBefore(q, i) : said'[q][j] = said[q][j]
                    /\ \A period : Within(q, i, period)' = Within(q, i, period)
                    /\ \A period, j : j \in Within(q, i, period) =>
                          /\ IsAccepted(q, j)' = IsAccepted(q, j) /\ Echoes(q, j)' = Echoes(q, j)
                          /\ Counts(q, j)' = Counts(q, j)
                    /\ Echoes(q, i)' = Echoes(q, i)
                 \/ i = Len(said[q]) + 1 /\ \E t \in Texts : Say(q, t)
<1>1. TypeOK /\ Len(said[q]) \in Nat
  BY DEF IInv, TypeOK
<1>2. \A i \in Attempts(q) :
          /\ \A j \in AcceptedBefore(q, i) : j \in Attempts(q)
          /\ \A period, j : j \in Within(q, i, period) => j \in Attempts(q)
  BY <1>1 DEF Attempts, AcceptedBefore, Within
<1>3. ASSUME NEW p \in Players, NEW t \in Texts, Say(p, t)
      PROVE  /\ settings' = settings
             /\ \A i \in Attempts(q)' : i \in Attempts(q) \/ (p = q /\ i = Len(said[q]) + 1)
             /\ \A i \in Attempts(q) :
                   /\ said'[q][i] = said[q][i]
                   /\ IsAccepted(q, i)' = IsAccepted(q, i)
                   /\ AcceptedBefore(q, i)' = AcceptedBefore(q, i)
                   /\ \A period : Within(q, i, period)' = Within(q, i, period)
                   /\ Echoes(q, i)' = Echoes(q, i) /\ Counts(q, i)' = Counts(q, i)
  <2>1. \A i \in Attempts(q)' : i \in Attempts(q) \/ (p = q /\ i = Len(said[q]) + 1)
    <3>1. CASE p = q
      <4> SUFFICES ASSUME NEW n, n = Len(said[q]) + 1
                   PROVE  \A i \in Attempts(q)' : i \in Attempts(q) \/ i = n
        BY <3>1
      <4>1. Attempts(q)' = Attempts(q) \cup {n}
        BY <1>3, <3>1, Newest
      <4> QED
        BY <4>1
    <3>2. CASE p # q
      <4>1. said'[q] = said[q]
        BY <1>1, <1>3, <3>2, SayEffect
      <4> QED
        BY <4>1 DEF Attempts
    <3> QED
      BY <3>1, <3>2
  <2> QED
    BY <1>1, <1>3, <2>1, SayEffect, HistoryKept
<1>4. CASE UNCHANGED <<settings, last, recent, sends, said>>
  BY <1>4, SameHistory
<1>5. ASSUME NEW p \in Players, Rejoin(p), p = q
      PROVE  settings' = settings /\ Attempts(q)' = {}
  BY <1>5 DEF Rejoin, Set, Attempts
<1>6. ASSUME NEW p \in Players, Rejoin(p), p # q
      PROVE  /\ settings' = settings /\ said'[q] = said[q] /\ Attempts(q)' = Attempts(q)
             /\ \A i : IsAccepted(q, i)' = IsAccepted(q, i) /\ AcceptedBefore(q, i)' = AcceptedBefore(q, i)
             /\ \A i : Echoes(q, i)' = Echoes(q, i) /\ Counts(q, i)' = Counts(q, i)
             /\ \A i, period : Within(q, i, period)' = Within(q, i, period)
  <2>1. settings' = settings /\ said'[q] = said[q]
    BY <1>6 DEF Rejoin, Set
  <2>2. Attempts(q)' = Attempts(q) /\ \A i : IsAccepted(q, i)' = IsAccepted(q, i)
    BY <2>1 DEF Attempts, IsAccepted
  <2>3. \A i : AcceptedBefore(q, i)' = AcceptedBefore(q, i)
    BY <2>2 DEF AcceptedBefore
  <2>4. \A i : Echoes(q, i)' = Echoes(q, i)
    BY <2>1, <2>3 DEF Echoes, Alike
  <2>5. \A i : Counts(q, i)' = Counts(q, i)
    BY <2>1, <2>4 DEF Counts, IsMod
  <2>6. \A i, period : Within(q, i, period)' = Within(q, i, period)
    BY <2>1 DEF Within
  <2> QED
    BY <2>1, <2>2, <2>3, <2>4, <2>5, <2>6
<1>7. CASE \E p \in Players : \E t \in Texts : Say(p, t)
  BY <1>2, <1>3, <1>7
<1>8. CASE \E p \in Players : Rejoin(p)
  BY <1>2, <1>5, <1>6, <1>8
<1> QED
  BY <1>4, <1>7, <1>8, Steps

(* What the properties of the guards promise together. *)
Promises == CooldownKept /\ FrequencyKept /\ RepeatsKept /\ RefusedForCause

(* Every step keeps the promises. *)
LEMMA PromisesKept == IInv /\ Promises /\ [Next]_vars => Promises'
<1> SUFFICES ASSUME IInv, Promises, [Next]_vars PROVE Promises'
  OBVIOUS
<1>1. ASSUME NEW p \in Players
      PROVE  (IsCounted(p)' <=> IsCounted(p)) /\ (IsCompared(p)' <=> IsCompared(p))
  BY AttemptsAfter DEF IsCounted, IsCompared, IsMod, IsOp, Bypasses
<1>2. CooldownKept'
  <2>1. ASSUME NEW p \in Players \ settings'.ops, NEW i \in Attempts(p)', IsAccepted(p, i)',
               NEW j \in AcceptedBefore(p, i)'
        PROVE  said'[p][i].at - said'[p][j].at >= settings'.cooldown
    <3>1. settings' = settings /\ p \in Players \ settings.ops
      BY AttemptsAfter
    <3>2. CASE /\ i \in Attempts(p) /\ said'[p][i] = said[p][i] /\ IsAccepted(p, i)' = IsAccepted(p, i)
               /\ AcceptedBefore(p, i)' = AcceptedBefore(p, i)
               /\ \A k \in AcceptedBefore(p, i) : said'[p][k] = said[p][k]
      BY <2>1, <3>1, <3>2 DEF Promises, CooldownKept
    <3>3. ASSUME NEW t \in Texts, Say(p, t), i = Len(said[p]) + 1
          PROVE  said'[p][i].at - said'[p][j].at >= settings'.cooldown
      BY <2>1, <3>1, <3>3, NewCooldown DEF IsOp
    <3> QED
      BY <3>2, <3>3, AttemptsAfter
  <2> QED
    BY <2>1 DEF CooldownKept
<1>3. FrequencyKept'
  <2>1. ASSUME NEW p \in Players, IsCounted(p)', NEW i \in Attempts(p)', IsAccepted(p, i)'
        PROVE  Cardinality({j \in Within(p, i, FrequencyPeriod)' : IsAccepted(p, j)'}) <= settings'.maxFrequent
    <3>1. settings' = settings /\ IsCounted(p)
      BY <1>1, <2>1, AttemptsAfter
    <3>2. CASE /\ i \in Attempts(p) /\ IsAccepted(p, i)' = IsAccepted(p, i)
               /\ \A period : Within(p, i, period)' = Within(p, i, period)
               /\ \A period, j : j \in Within(p, i, period) => IsAccepted(p, j)' = IsAccepted(p, j)
      <4>1. {j \in Within(p, i, FrequencyPeriod)' : IsAccepted(p, j)'}
              = {j \in Within(p, i, FrequencyPeriod) : IsAccepted(p, j)}
        BY <3>2
      <4>2. Cardinality({j \in Within(p, i, FrequencyPeriod) : IsAccepted(p, j)}) <= settings.maxFrequent
        BY <2>1, <3>1, <3>2 DEF Promises, FrequencyKept
      <4> QED
        BY <3>1, <4>1, <4>2
    <3>3. ASSUME NEW t \in Texts, Say(p, t), i = Len(said[p]) + 1
          PROVE  Cardinality({j \in Within(p, i, FrequencyPeriod)' : IsAccepted(p, j)'}) <= settings'.maxFrequent
      BY <2>1, <3>1, <3>3, NewFrequent
    <3> QED
      BY <3>2, <3>3, AttemptsAfter
  <2> QED
    BY <2>1 DEF FrequencyKept
<1>4. RepeatsKept'
  <2>1. ASSUME NEW p \in Players, IsCompared(p)', ~settings'.compareAll,
               NEW i \in Attempts(p)', IsAccepted(p, i)', Echoes(p, i)'
        PROVE  Cardinality({j \in Within(p, i, SimilarPeriod)' : IsAccepted(p, j)' /\ Echoes(p, j)'})
                   <= settings'.maxSimilar
    <3>1. settings' = settings /\ IsCompared(p) /\ ~settings.compareAll
      BY <1>1, <2>1, AttemptsAfter
    <3>2. CASE /\ i \in Attempts(p) /\ IsAccepted(p, i)' = IsAccepted(p, i) /\ Echoes(p, i)' = Echoes(p, i)
               /\ \A period : Within(p, i, period)' = Within(p, i, period)
               /\ \A period, j : j \in Within(p, i, period) =>
                     IsAccepted(p, j)' = IsAccepted(p, j) /\ Echoes(p, j)' = Echoes(p, j)
      <4>1. {j \in Within(p, i, SimilarPeriod)' : IsAccepted(p, j)' /\ Echoes(p, j)'}
              = {j \in Within(p, i, SimilarPeriod) : IsAccepted(p, j) /\ Echoes(p, j)}
        BY <3>2
      <4>2. Cardinality({j \in Within(p, i, SimilarPeriod) : IsAccepted(p, j) /\ Echoes(p, j)})
              <= settings.maxSimilar
        BY <2>1, <3>1, <3>2 DEF Promises, RepeatsKept
      <4> QED
        BY <3>1, <4>1, <4>2
    <3>3. ASSUME NEW t \in Texts, Say(p, t), i = Len(said[p]) + 1
          PROVE  Cardinality({j \in Within(p, i, SimilarPeriod)' : IsAccepted(p, j)' /\ Echoes(p, j)'})
                     <= settings'.maxSimilar
      BY <2>1, <3>1, <3>3, NewRepeat
    <3> QED
      BY <3>2, <3>3, AttemptsAfter
  <2> QED
    BY <2>1 DEF RepeatsKept
<1>5. RefusedForCause'
  <2>1. ASSUME NEW p \in Players, NEW i \in Attempts(p)'
        PROVE  HasCause(p, i)'
    <3>1. settings' = settings
      BY AttemptsAfter
    <3>2. CASE /\ i \in Attempts(p) /\ said'[p][i] = said[p][i] /\ Echoes(p, i)' = Echoes(p, i)
               /\ AcceptedBefore(p, i)' = AcceptedBefore(p, i)
               /\ \A j \in AcceptedBefore(p, i) : said'[p][j] = said[p][j]
               /\ \A period : Within(p, i, period)' = Within(p, i, period)
               /\ \A period, j : j \in Within(p, i, period) =>
                     IsAccepted(p, j)' = IsAccepted(p, j) /\ Counts(p, j)' = Counts(p, j)
      <4>1. {j \in Within(p, i, FrequencyPeriod)' \ {i} : IsAccepted(p, j)'}
              = {j \in Within(p, i, FrequencyPeriod) \ {i} : IsAccepted(p, j)}
        BY <3>2
      <4>2. {j \in Within(p, i, SimilarPeriod)' \ {i} : Counts(p, j)'}
              = {j \in Within(p, i, SimilarPeriod) \ {i} : Counts(p, j)}
        BY <3>2
      <4>3. HasCause(p, i)
        BY <3>2 DEF Promises, RefusedForCause
      <4> QED
        BY <3>1, <3>2, <4>1, <4>2, <4>3 DEF HasCause, EverythingIsSimilar, IsMod
    <3>3. ASSUME NEW t \in Texts, Say(p, t), i = Len(said[p]) + 1
          PROVE  HasCause(p, i)'
      BY <3>3, NewCause
    <3> QED
      BY <3>2, <3>3, AttemptsAfter
  <2> QED
    BY <2>1 DEF RefusedForCause
<1> QED
  BY <1>2, <1>3, <1>4, <1>5 DEF Promises

(* The promises hold in every reachable state. *)
LEMMA PromisesHold == Spec => []Promises
<1>1. Init => Promises
  <2> SUFFICES ASSUME Init PROVE Promises
    OBVIOUS
  <2>1. \A p \in Players : Attempts(p) = {}
    BY DEF Init, Attempts
  <2> QED
    BY <2>1 DEF Promises, CooldownKept, FrequencyKept, RepeatsKept, RefusedForCause
<1> QED
  BY Inductive, <1>1, PromisesKept, PTL DEF Spec

(* The cooldown lies between any two accepted messages of a player who is no operator. *)
THEOREM CooldownHolds == Spec => []CooldownKept
<1>1. Promises => CooldownKept
  BY DEF Promises
<1> QED
  BY PromisesHold, <1>1, PTL

(* No period holds more accepted messages than its limit. *)
THEOREM FrequencyHolds == Spec => []FrequencyKept
<1>1. Promises => FrequencyKept
  BY DEF Promises
<1> QED
  BY PromisesHold, <1>1, PTL

(* No period holds more similar messages than its limit. *)
THEOREM RepeatsAreLimited == Spec => []RepeatsKept
<1>1. Promises => RepeatsKept
  BY DEF Promises
<1> QED
  BY PromisesHold, <1>1, PTL

(* Nobody is refused without the cause the hint names. *)
THEOREM RefusalsHaveCause == Spec => []RefusedForCause
<1>1. Promises => RefusedForCause
  BY DEF Promises
<1> QED
  BY PromisesHold, <1>1, PTL

(* The cooldown and both counts of a period hold, in any order of accepted and refused messages. *)
THEOREM LimitsHold == Spec => []LimitsKept
<1>1. CooldownKept /\ FrequencyKept /\ RepeatsKept => LimitsKept
  BY DEF LimitsKept
<1> QED BY <1>1, CooldownHolds, FrequencyHolds, RepeatsAreLimited, PTL

-----------------------------------------------------------------------------
(* Numbers, loops and sequences, for what follows                           *)

\* A set of numbers has a least one: induction over the numbers, as a fact of sets.
LEMMA Least ==
    ASSUME NEW T \in SUBSET Nat, T # {}
    PROVE  \E x \in T : \A y \in T : x <= y
<1> DEFINE R == {ss \in Nat \X Nat : ss[1] < ss[2]}
<1>1. IsWellFoundedOn(R, Nat)
  BY NatLessThanWellFounded DEF OpToRel
<1>2. \A x, y \in Nat : y < x => <<y, x>> \in R
  OBVIOUS
<1>3. \E x \in T : \A y \in T : ~(<<y, x>> \in R)
  <2> HIDE DEF R
  <2> QED BY <1>1, WFMin
<1> HIDE DEF R
<1>4. PICK x \in T : \A y \in T : ~(<<y, x>> \in R)
  BY <1>3
<1>5. \A y \in T : x <= y
  <2> SUFFICES ASSUME NEW y \in T PROVE x <= y
    OBVIOUS
  <2>1. x \in Nat /\ y \in Nat
    OBVIOUS
  <2>2. ~(y < x)
    BY <1>2, <1>4, <2>1
  <2> QED BY <2>1, <2>2
<1> QED BY <1>5

\* The remainder and the quotient of a number.
LEMMA Remainder ==
    ASSUME NEW n \in Nat, NEW m \in Nat \ {0}
    PROVE  n % m \in 0..(m - 1) /\ n \div m \in Nat /\ n = m * (n \div m) + (n % m)
  OBVIOUS

\* The greatest of some positions.
LEMMA MaxIs ==
    ASSUME NEW n \in Nat, NEW S \in SUBSET (1..n), S # {}
    PROVE  Max(S) \in S /\ \A y \in S : Max(S) >= y
<1> DEFINE T == {n - y : y \in S}
<1>1. T \in SUBSET Nat /\ T # {}
  <2>1. \A y \in S : y \in Int /\ n - y \in Nat
    OBVIOUS
  <2> QED BY <2>1
<1> HIDE DEF T
<1>2. PICK t \in T : \A u \in T : t <= u
  BY <1>1, Least
<1> USE DEF T
<1>3. PICK x \in S : t = n - x
  OBVIOUS
<1>4. ASSUME NEW y \in S PROVE n - y \in T /\ y \in Nat
  <2>1. y \in 1..n
    OBVIOUS
  <2> QED BY <2>1 DEF T
<1>5. \A y \in S : x >= y
  BY <1>2, <1>3, <1>4
<1> QED BY <1>5 DEF Max

\* A fold from the left is defined: the table f says what an element makes of a value.
IsFold(g, f, q, base, n) ==
    g = [S \in SUBSET (1..n) |-> IF S = {} THEN base ELSE f[<<g[S \ {Max(S)}], q[Max(S)]>>]]

\* The recursion of FoldLeft has a solution, whatever the table.
LEMMA FoldIsDefined ==
    ASSUME NEW D, NEW E, NEW f \in [D \X E -> D], NEW base \in D, NEW n \in Nat, NEW q \in [1..n -> E]
    PROVE  \E g \in [SUBSET (1..n) -> D] : IsFold(g, f, q, base, n)
<1> DEFINE Step(g, S) == IF S = {} THEN base ELSE f[<<g[S \ {Max(S)}], q[Max(S)]>>]
           Is(k) == k <= n => \E g \in [SUBSET (1..k) -> D] : IsFold(g, f, q, base, k)
           Wrong == {k \in Nat : ~Is(k)}
<1>1. SUFFICES ASSUME Wrong # {} PROVE FALSE
  <2>1. n \notin Wrong => Is(n)
    OBVIOUS
  <2>2. n <= n
    OBVIOUS
  <2> HIDE DEF Wrong
  <2> QED BY <2>1, <2>2
<1>2. PICK k \in Wrong : \A j \in Wrong : k <= j
  <2>1. Wrong \in SUBSET Nat
    OBVIOUS
  <2> HIDE DEF Wrong
  <2> QED BY <1>1, <2>1, Least
<1>0. k \in Nat /\ k <= n
  OBVIOUS
<1>3. CASE k = 0
  <2> DEFINE g == [S \in SUBSET (1..0) |-> base]
  <2>1. \A S \in SUBSET (1..0) : S = {}
    OBVIOUS
  <2>2. g = [S \in SUBSET (1..0) |-> Step(g, S)]
    BY <2>1
  <2>3. IsFold(g, f, q, base, 0) /\ g \in [SUBSET (1..0) -> D]
    BY <2>2 DEF IsFold
  <2> HIDE DEF g, Step
  <2> QED BY <1>3, <2>3
<1>4. CASE k # 0
  <2> DEFINE j == k - 1
  <2>1. j \in Nat /\ k = j + 1 /\ k \in Nat /\ j \notin Wrong /\ j <= n
    <3>1. k \in Nat
      OBVIOUS
    <3>2. j \in Nat /\ j < k
      BY <1>4, <3>1
    <3>3. j \notin Wrong
      <4> HIDE DEF Wrong, j
      <4> QED BY <1>2, <3>1, <3>2
    <3> HIDE DEF Wrong
    <3> QED BY <1>0, <3>1, <3>2, <3>3
  <2> HIDE DEF j
  <2>2. \E g \in [SUBSET (1..j) -> D] : IsFold(g, f, q, base, j)
    BY <2>1
  <2> HIDE DEF Step
  <2>3. PICK g \in [SUBSET (1..j) -> D] : IsFold(g, f, q, base, j)
    BY <2>2
  <2> DEFINE h == [S \in SUBSET (1..k) |-> IF k \in S THEN f[<<g[S \ {k}], q[k]>>] ELSE g[S]]
  <2>7. h \in [SUBSET (1..k) -> D]
    <3> SUFFICES ASSUME NEW S \in SUBSET (1..k) PROVE (IF k \in S THEN f[<<g[S \ {k}], q[k]>>] ELSE g[S]) \in D
      OBVIOUS
    <3>1. CASE k \in S
      <4>1. S \ {k} \in SUBSET (1..j) /\ k \in 1..n
        BY <1>0, <1>4, <2>1
      <4>2. <<g[S \ {k}], q[k]>> \in D \X E
        BY <4>1
      <4> QED BY <3>1, <4>2
    <3>2. CASE k \notin S
      <4>1. S \in SUBSET (1..j)
        BY <2>1, <3>2
      <4> QED BY <3>2, <4>1
    <3> QED BY <3>1, <3>2
  <2>4. ASSUME NEW S \in SUBSET (1..k) PROVE h[S] = Step(h, S)
    <3>1. CASE S = {}
      <4>1. S \in SUBSET (1..j) /\ k \notin S
        BY <3>1
      <4>2. g[S] = Step(g, S)
        BY <2>3, <4>1 DEF IsFold, Step
      <4> QED BY <3>1, <4>1, <4>2 DEF Step
    <3>2. CASE k \in S
      <4>1. S \ {k} \in SUBSET (1..j) /\ S \ {k} \in SUBSET (1..k) /\ k \notin S \ {k}
        BY <2>1
      <4>2. Max(S) = k
        <5>1. Max(S) \in S /\ Max(S) >= k
          BY <2>1, <3>2, MaxIs
        <5>2. Max(S) \in 1..k
          BY <5>1
        <5> QED BY <5>1, <5>2, <2>1
      <4>3. h[S \ {k}] = g[S \ {k}]
        BY <4>1
      <4> QED BY <3>2, <4>2, <4>3 DEF Step
    <3>3. CASE k \notin S /\ S # {}
      <4>1. S \in SUBSET (1..j)
        BY <2>1, <3>3
      <4>2. Max(S) \in S
        BY <2>1, <3>3, MaxIs
      <4>3. h[S] = g[S] /\ h[S \ {Max(S)}] = g[S \ {Max(S)}]
        BY <3>3
      <4>4. g[S] = Step(g, S)
        BY <2>3, <4>1 DEF IsFold, Step
      <4> QED BY <3>3, <4>3, <4>4 DEF Step
    <3> QED BY <3>1, <3>2, <3>3
  <2>5. h = [S \in SUBSET (1..k) |-> Step(h, S)]
    BY <2>4
  <2> HIDE DEF h
  <2>6. IsFold(h, f, q, base, k)
    BY <2>5 DEF IsFold, Step
  <2> QED BY <2>6, <2>7
<1> QED BY <1>3, <1>4

\* The positions up to a position.
LEMMA Beginnings ==
    ASSUME NEW n \in Nat, NEW k \in 0..(n - 1)
    PROVE  /\ 1..(k + 1) \in SUBSET (1..n) /\ 1..(k + 1) # {}
           /\ Max(1..(k + 1)) = k + 1 /\ (1..(k + 1)) \ {k + 1} = 1..k
<1> DEFINE S == 1..(k + 1)
<1>1. S \in SUBSET (1..n) /\ S # {} /\ k + 1 \in S
  <2>1. k \in Nat /\ k + 1 <= n /\ k + 1 \in S
    OBVIOUS
  <2>2. \A i \in S : i \in 1..n
    BY <2>1
  <2> QED BY <2>1, <2>2
<1>2. Max(S) = k + 1
  <2>1. Max(S) \in S /\ Max(S) >= k + 1
    BY <1>1, MaxIs
  <2> QED BY <2>1
<1>3. S \ {k + 1} = 1..k
  OBVIOUS
<1> QED BY <1>1, <1>2, <1>3

\* What holds of the beginning and of each next, holds of all.
LEMMA Throughout ==
    ASSUME NEW n \in Nat, NEW P \in SUBSET (0..n), 0 \in P, \A k \in 0..(n - 1) : k \in P => k + 1 \in P
    PROVE  P = 0..n
<1> DEFINE Wrong == (0..n) \ P
<1>1. SUFFICES ASSUME Wrong # {} PROVE FALSE
  OBVIOUS
<1>2. PICK k \in Wrong : \A j \in Wrong : k <= j
  <2>1. Wrong \in SUBSET Nat
    OBVIOUS
  <2> HIDE DEF Wrong
  <2> QED BY <1>1, <2>1, Least
<1>3. k \in Nat /\ k # 0 /\ k <= n /\ k \notin P
  OBVIOUS
<1>4. k - 1 \in 0..(n - 1) /\ k - 1 \in 0..n /\ (k - 1) + 1 = k /\ k - 1 < k
  BY <1>3
<1>5. k - 1 \notin Wrong
  <2> HIDE DEF Wrong
  <2> QED BY <1>2, <1>3, <1>4
<1> QED BY <1>3, <1>4, <1>5

\* A part of a stream, and its symbols.
LEMMA PartIs ==
    ASSUME NEW S, NEW b \in Seq(S), NEW m \in Nat \ {0}, NEW n \in Int, n <= Len(b)
    PROVE  /\ SubSeq(b, m, n) \in Seq(S) /\ Len(SubSeq(b, m, n)) = IF m <= n THEN n - m + 1 ELSE 0
           /\ \A i \in 1..(n - m + 1) : SubSeq(b, m, n)[i] = b[m + i - 1]
<1>1. Len(b) \in Nat
  BY LenProperties
<1>2. \A i \in m..n : b[i] \in S
  <2>1. \A i \in m..n : i \in 1..Len(b)
    BY <1>1
  <2> QED BY <2>1, ElementOfSeq
<1> QED BY <1>2, SubSeqProperties

-----------------------------------------------------------------------------
(* MessageScores: loops that go on from what they have                     *)

\* v holds what a loop has after each of its rounds.
Iterates(v, f, base, n) == v[0] = base /\ \A k \in 0..(n - 1) : v[k + 1] = f[<<v[k], k + 1>>]

\* A loop of n rounds is defined, whatever the table of its rounds.
LEMMA Iterated ==
    ASSUME NEW D, NEW n \in Nat, NEW f \in [D \X (1..n) -> D], NEW base \in D
    PROVE  \E v \in [0..n -> D] : Iterates(v, f, base, n)
<1> DEFINE q == [i \in 1..n |-> i]
<1>1. PICK g \in [SUBSET (1..n) -> D] : IsFold(g, f, q, base, n)
  <2>1. q \in [1..n -> 1..n]
    OBVIOUS
  <2> HIDE DEF q
  <2> QED BY <2>1, FoldIsDefined
<1> DEFINE v == [k \in 0..n |-> g[1..k]]
<1>2. v \in [0..n -> D]
  <2> SUFFICES ASSUME NEW k \in 0..n PROVE g[1..k] \in D
    OBVIOUS
  <2>1. 1..k \in SUBSET (1..n)
    OBVIOUS
  <2> QED BY <2>1
<1>3. v[0] = base
  <2>1. 1..0 = {} /\ {} \in SUBSET (1..n) /\ 0 \in 0..n
    OBVIOUS
  <2>2. g[{}] = base
    BY <1>1, <2>1 DEF IsFold
  <2> QED BY <2>1, <2>2
<1>4. ASSUME NEW k \in 0..(n - 1) PROVE v[k + 1] = f[<<v[k], k + 1>>]
  <2>0. k \in 0..n /\ k + 1 \in 0..n /\ k + 1 \in 1..n
    OBVIOUS
  <2>1. /\ 1..(k + 1) \in SUBSET (1..n) /\ 1..(k + 1) # {}
        /\ Max(1..(k + 1)) = k + 1 /\ (1..(k + 1)) \ {k + 1} = 1..k
    BY Beginnings
  <2>2. g[1..(k + 1)] = f[<<g[1..k], q[k + 1]>>]
    BY <1>1, <2>1 DEF IsFold
  <2>3. q[k + 1] = k + 1
    BY <2>0
  <2> QED BY <2>0, <2>2, <2>3
<1> HIDE DEF v
<1> QED BY <1>2, <1>3, <1>4 DEF Iterates

\* The beginnings of a flattened sequence, as it is put together.
IsFlat(h, ps, n) == h = [i \in 1..n |-> IF i = 1 THEN ps[i] ELSE h[i - 1] \o ps[i]]

\* A flattened sequence is one, and has every element of each.
FlatHasAll(T, n, ps) ==
  /\ FlattenSeq(ps) \in Seq(T)
  /\ \A i \in 1..n : \A j \in 1..Len(ps[i]) : \E p \in 1..Len(FlattenSeq(ps)) : FlattenSeq(ps)[p] = ps[i][j]

\* Every sequence of sequences is flattened so.
LEMMA Flattened ==
    ASSUME NEW T, NEW n \in Nat \ {0}, NEW ps \in [1..n -> Seq(T)]
    PROVE  FlatHasAll(T, n, ps)
<1> DEFINE D == Seq(T)
           f == [di \in D \X (1..n) |-> di[1] \o ps[di[2]]]
           iter == CHOOSE h : IsFlat(h, ps, n)
<1>1. f \in [D \X (1..n) -> D] /\ <<>> \in D
  <2>1. ASSUME NEW di \in D \X (1..n) PROVE di[1] \o ps[di[2]] \in D
    <3>1. di[1] \in Seq(T) /\ ps[di[2]] \in Seq(T)
      OBVIOUS
    <3> QED BY <3>1, ConcatProperties
  <2> QED BY <2>1, EmptySeq
<1>2. PICK v \in [0..n -> D] : Iterates(v, f, <<>>, n)
  <2> HIDE DEF D, f
  <2> QED BY <1>1, Iterated
<1>3. v[0] = <<>> /\ \A k \in 0..(n - 1) : v[k + 1] = v[k] \o ps[k + 1]
  <2> SUFFICES ASSUME NEW k \in 0..(n - 1) PROVE v[k + 1] = v[k] \o ps[k + 1]
    BY <1>2 DEF Iterates
  <2>1. v[k + 1] = f[<<v[k], k + 1>>]
    BY <1>2 DEF Iterates
  <2>2. v[k] \in D /\ k + 1 \in 1..n
    OBVIOUS
  <2> HIDE DEF D
  <2> QED BY <2>1, <2>2
<1> HIDE DEF f
<1>4. IsFlat([i \in 1..n |-> v[i]], ps, n)
  <2> DEFINE h == [i \in 1..n |-> v[i]]
  <2>1. ASSUME NEW i \in 1..n PROVE h[i] = IF i = 1 THEN ps[i] ELSE h[i - 1] \o ps[i]
    <3>1. i - 1 \in 0..(n - 1) /\ (i - 1) + 1 = i /\ (i # 1 => i - 1 \in 1..n)
      OBVIOUS
    <3>2. v[i] = v[i - 1] \o ps[i]
      BY <1>3, <3>1
    <3>3. i = 1 => v[i - 1] \o ps[i] = ps[i]
      <4>1. i = 1 => v[i - 1] = <<>>
        BY <1>3
      <4> QED BY <4>1, ConcatEmptySeq
    <3> QED BY <3>1, <3>2, <3>3
  <2>2. h = [i \in 1..n |-> IF i = 1 THEN ps[i] ELSE h[i - 1] \o ps[i]]
    BY <2>1
  <2> HIDE DEF h
  <2>3. IsFlat(h, ps, n)
    BY <2>2 DEF IsFlat
  <2> QED BY <2>3 DEF h
<1>5. IsFlat(iter, ps, n)
  BY <1>4
<1>6. Len(ps) = n /\ DOMAIN ps = 1..n
  BY LenProperties
<1>7. FlattenSeq(ps) = iter[n]
  BY <1>6 DEF FlattenSeq, IsFlat
<1> HIDE DEF iter
<1>8. \A i \in 1..n : iter[i] = v[i]
  <2> DEFINE P == {k \in 0..n : k # 0 => iter[k] = v[k]}
  <2>1. ASSUME NEW k \in 0..(n - 1), k \in P PROVE k + 1 \in P
    <3>1. k + 1 \in 1..n /\ (k + 1) - 1 = k /\ k + 1 \in 0..n
      OBVIOUS
    <3>2. iter[k + 1] = IF k + 1 = 1 THEN ps[k + 1] ELSE iter[k] \o ps[k + 1]
      BY <1>5, <3>1 DEF IsFlat
    <3>3. v[k + 1] = v[k] \o ps[k + 1]
      BY <1>3
    <3>4. k = 0 => v[k] \o ps[k + 1] = ps[k + 1]
      BY <1>3, <3>1, ConcatEmptySeq
    <3>5. k # 0 => iter[k] = v[k]
      BY <2>1
    <3>6. iter[k + 1] = v[k + 1]
      <4>1. CASE k = 0
        <5>1. k + 1 = 1
          BY <4>1
        <5> QED BY <3>2, <3>3, <3>4, <4>1, <5>1
      <4>2. CASE k # 0
        <5>1. k + 1 # 1
          BY <4>2
        <5> QED BY <3>2, <3>3, <3>5, <4>2, <5>1
      <4> QED BY <4>1, <4>2
    <3> QED BY <3>1, <3>6
  <2>2. P = 0..n
    <3>1. 0 \in P /\ P \in SUBSET (0..n) /\ n \in Nat
      OBVIOUS
    <3> HIDE DEF P
    <3> QED BY <2>1, <3>1, Throughout
  <2>3. ASSUME NEW i \in 1..n PROVE iter[i] = v[i]
    <3>1. i \in 0..n /\ i # 0
      OBVIOUS
    <3>2. i \in P
      <4> HIDE DEF P
      <4> QED BY <2>2, <3>1
    <3> QED BY <3>1, <3>2
  <2> QED BY <2>3
<1>9. FlattenSeq(ps) = v[n]
  BY <1>7, <1>8
<1> DEFINE Has(k) == \A i \in 1..k : \A j \in 1..Len(ps[i]) : \E p \in 1..Len(v[k]) : v[k][p] = ps[i][j]
           P == {k \in 0..n : Has(k)}
<1>10. ASSUME NEW k \in 0..(n - 1), Has(k) PROVE Has(k + 1)
  <2> HIDE DEF Has
  <2>0. k \in 0..n /\ k + 1 \in 1..n
    OBVIOUS
  <2> DEFINE a == v[k]
             b == ps[k + 1]
             c == v[k + 1]
             x == Len(a)
             y == Len(b)
  <2>1. c = a \o b /\ a \in Seq(T) /\ b \in Seq(T)
    BY <1>3, <2>0
  <2>4. \A i \in 1..k : \A j \in 1..Len(ps[i]) : \E p \in 1..x : a[p] = ps[i][j]
    BY <1>10 DEF Has
  <2> HIDE DEF a, b, c
  <2>2. x \in Nat /\ y \in Nat /\ Len(c) = x + y
    BY <2>1, ConcatProperties, LenProperties
  <2> HIDE DEF x, y
  <2>3. \A p \in 1..(x + y) : c[p] = IF p <= x THEN a[p] ELSE b[p - x]
    BY <2>1, ConcatProperties DEF x, y
  <2>5. \A p \in 1..x : p \in 1..Len(c) /\ c[p] = a[p]
    <3>1. \A p \in 1..x : p \in 1..(x + y) /\ p <= x
      BY <2>2
    <3> QED BY <2>2, <2>3, <3>1
  <2>6. \A p \in 1..y : x + p \in 1..Len(c) /\ c[x + p] = b[p]
    <3>1. \A p \in 1..y : x + p \in 1..(x + y) /\ ~(x + p <= x) /\ (x + p) - x = p
      BY <2>2
    <3> QED BY <2>2, <2>3, <3>1
  <2>7. ASSUME NEW i \in 1..(k + 1), NEW j \in 1..Len(ps[i]) PROVE \E p \in 1..Len(c) : c[p] = ps[i][j]
    <3>1. CASE i = k + 1
      <4>1. j \in 1..y /\ b[j] = ps[i][j]
        BY <3>1 DEF b, y
      <4> QED BY <2>6, <4>1
    <3>2. CASE i # k + 1
      <4>1. i \in 1..k
        BY <3>2
      <4> QED BY <2>4, <2>5, <4>1
    <3> QED BY <3>1, <3>2
  <2> QED BY <2>7 DEF Has, c
<1>11. Has(n)
  <2>1. Has(0)
    OBVIOUS
  <2> HIDE DEF Has
  <2>2. 0 \in P /\ P \in SUBSET (0..n) /\ n \in Nat
    BY <2>1
  <2>3. \A k \in 0..(n - 1) : k \in P => k + 1 \in P
    <3>1. \A k \in 0..(n - 1) : k + 1 \in 0..n
      OBVIOUS
    <3> QED BY <1>10, <3>1
  <2>4. P = 0..n
    <3> HIDE DEF P
    <3> QED BY <2>2, <2>3, Throughout
  <2>5. n \in 0..n
    OBVIOUS
  <2> QED BY <2>4, <2>5
<1>12. v[n] \in Seq(T)
  OBVIOUS
<1> QED BY <1>9, <1>11, <1>12 DEF FlatHasAll

-----------------------------------------------------------------------------
(* MessageScores: every repetition is counted                              *)

\* So many units fit as the quotient says.
LEMMA FitsIs ==
    ASSUME NEW n \in Nat, NEW m \in Nat \ {0}, NEW k \in Nat
    PROVE  m * k <= n <=> k <= n \div m
<1> DEFINE q == n \div m
           r == n % m
<1>1. r \in 0..(m - 1) /\ q \in Nat /\ n = m * q + r
  BY Remainder
<1> HIDE DEF q, r
<1>2. CASE k <= q
  <2>1. m * (q - k) >= 0 /\ m * (q - k) = m * q - m * k
    BY <1>1, <1>2
  <2> QED BY <1>1, <1>2, <2>1 DEF q
<1>3. CASE k > q
  <2>1. m * (k - (q + 1)) >= 0 /\ m * (k - (q + 1)) = m * k - m * q - m
    BY <1>1, <1>3
  <2>2. m * k > n
    BY <1>1, <2>1
  <2> QED BY <1>1, <1>3, <2>2 DEF q
<1> QED BY <1>1, <1>2, <1>3

\* The places of a text of n letters where a unit may begin that fits twice.
PlacesOf(n) == {<<i, len>> : i \in 1..n, len \in 1..n} \cap {p \in Nat \X Nat : 2 * p[2] <= n - p[1] + 1}

\* The search tries exactly these.
LEMMA PlacesAre ==
    ASSUME NEW n \in Nat, n >= 2
    PROVE  /\ Places(n) \in Seq(PlacesOf(n))
           /\ \A p \in PlacesOf(n) : \E k \in 1..Len(Places(n)) : Places(n)[k] = p
<1> DEFINE T == PlacesOf(n)
           Row(i) == [len \in 1..((n - i + 1) \div 2) |-> <<i, len>>]
           ps == [i \in 1..n |-> Row(i)]
<1>1. ASSUME NEW i \in 1..n
      PROVE  /\ (n - i + 1) \div 2 \in Nat /\ ps[i] = Row(i) /\ ps[i] \in Seq(T) /\ Len(ps[i]) = (n - i + 1) \div 2
             /\ \A len \in 1..((n - i + 1) \div 2) : ps[i][len] = <<i, len>>
             /\ \A len \in Nat : 2 * len <= n - i + 1 <=> len <= (n - i + 1) \div 2
  <2> DEFINE m == (n - i + 1) \div 2
  <2>1. n - i + 1 \in Nat /\ i \in Nat
    OBVIOUS
  <2>2. m \in Nat
    BY <2>1, Remainder
  <2>3. \A len \in Nat : 2 * len <= n - i + 1 <=> len <= m
    <3> HIDE DEF m
    <3> QED BY <2>1, FitsIs DEF m
  <2> HIDE DEF m
  <2>4. ASSUME NEW len \in 1..m PROVE <<i, len>> \in T
    <3>1. len \in Nat /\ len <= m
      BY <2>2
    <3>2. 2 * len <= n - i + 1
      BY <2>3, <3>1
    <3>3. len \in 1..n
      BY <2>1, <2>2, <3>1, <3>2
    <3> QED BY <2>1, <3>1, <3>2, <3>3 DEF PlacesOf
  <2> DEFINE row == [len \in 1..m |-> <<i, len>>]
  <2>5. row = Row(i) /\ ps[i] = Row(i)
    BY DEF m
  <2>6. row \in Seq(T) /\ Len(row) = m
    <3>1. row \in [1..m -> T]
      BY <2>4
    <3> HIDE DEF row
    <3> QED BY <2>2, <3>1, SeqDef, LenProperties
  <2>7. \A len \in 1..m : row[len] = <<i, len>>
    OBVIOUS
  <2> HIDE DEF row, ps, Row
  <2> QED BY <2>2, <2>3, <2>5, <2>6, <2>7 DEF m
<1>2. Places(n) = FlattenSeq(ps)
  BY DEF Places
<1>3. ps \in [1..n -> Seq(T)]
  <2> HIDE DEF T
  <2>1. DOMAIN ps = 1..n
    OBVIOUS
  <2>2. ps = [i \in 1..n |-> ps[i]]
    OBVIOUS
  <2> HIDE DEF ps
  <2> QED BY <1>1, <2>1, <2>2
<1> HIDE DEF ps, Row
<1>4. /\ FlattenSeq(ps) \in Seq(T)
      /\ \A i \in 1..n : \A j \in 1..Len(ps[i]) : \E p \in 1..Len(FlattenSeq(ps)) : FlattenSeq(ps)[p] = ps[i][j]
  <2>1. n \in Nat \ {0}
    OBVIOUS
  <2> HIDE DEF T
  <2>2. FlatHasAll(T, n, ps)
    BY <1>3, <2>1, Flattened
  <2> QED BY <2>2 DEF FlatHasAll
<1>5. ASSUME NEW p \in T PROVE \E k \in 1..Len(Places(n)) : Places(n)[k] = p
  <2>1. PICK i \in 1..n, len \in 1..n : p = <<i, len>> /\ 2 * len <= n - i + 1
    BY DEF PlacesOf
  <2>2. len \in 1..Len(ps[i]) /\ ps[i][len] = p
    <3>1. len \in Nat /\ 1 <= len
      OBVIOUS
    <3>2. len <= (n - i + 1) \div 2
      BY <1>1, <2>1, <3>1
    <3>3. (n - i + 1) \div 2 \in Nat
      BY <1>1
    <3>4. len \in 1..((n - i + 1) \div 2)
      BY <3>1, <3>2, <3>3
    <3> QED BY <1>1, <2>1, <3>4
  <2> QED BY <1>2, <1>4, <2>2
<1> QED BY <1>2, <1>4, <1>5

\* So often a unit stands at a place in a row.
StandsInARow(message, i, len, k) ==
    \A m \in 1..(k - 1) : Unit(message, i + m * len, len) = Unit(message, i, len)

\* Repetitions is the greatest number of times the unit stands there.
LEMMA RepetitionsAre ==
    ASSUME NEW L, NEW message \in Seq(L), NEW p \in PlacesOf(Len(message))
    PROVE  /\ Repetitions(message, p[1], p[2]) \in Nat /\ Repetitions(message, p[1], p[2]) >= 1
           /\ p[2] * Repetitions(message, p[1], p[2]) <= Len(message) - p[1] + 1
           /\ StandsInARow(message, p[1], p[2], Repetitions(message, p[1], p[2]))
           /\ \A k \in Nat : p[2] * k <= Len(message) - p[1] + 1 /\ StandsInARow(message, p[1], p[2], k)
                => k <= Repetitions(message, p[1], p[2])
<1> DEFINE n == Len(message)
           i == p[1]
           len == p[2]
           left == n - i + 1
           top == left \div len
           S == {k \in 1..top : StandsInARow(message, i, len, k)}
<1>1. n \in Nat /\ i \in 1..n /\ len \in 1..n /\ 2 * len <= left
  BY LenProperties DEF PlacesOf
<1> HIDE DEF i, len, n
<1>2. left \in Nat /\ len \in Nat \ {0}
  BY <1>1
<1> HIDE DEF left
<1>3. top \in Nat /\ (\A k \in Nat : len * k <= left <=> k <= top)
  BY <1>2, Remainder, FitsIs
<1> HIDE DEF top
<1>4. 1 \in S
  <2>1. len * 2 <= left
    BY <1>1, <1>2
  <2>2. 2 <= top
    BY <1>3, <2>1
  <2>3. 1 \in 1..top /\ 1..(1 - 1) = {}
    BY <1>3, <2>2
  <2> QED BY <2>3 DEF StandsInARow
<1>5. Repetitions(message, i, len) = Max(S)
  BY DEF Repetitions, StandsInARow, top, left, n
<1>6. Max(S) \in S /\ \A k \in S : Max(S) >= k
  <2>1. S \in SUBSET (1..top) /\ S # {}
    BY <1>4
  <2> HIDE DEF S
  <2> QED BY <1>3, <2>1, MaxIs
<1> DEFINE r == Max(S)
<1>7. r \in 1..top /\ StandsInARow(message, i, len, r)
  BY <1>6
<1>8. ASSUME NEW k \in Nat, len * k <= left, StandsInARow(message, i, len, k) PROVE k <= r
  <2>1. k <= top /\ r \in Nat /\ r >= 1
    BY <1>3, <1>7, <1>8
  <2>2. CASE k = 0
    BY <2>1, <2>2
  <2>3. CASE k # 0
    <3>1. k \in S
      BY <1>3, <1>8, <2>1, <2>3
    <3> HIDE DEF S
    <3> QED BY <1>6, <2>1, <3>1
  <2> QED BY <2>2, <2>3
<1> HIDE DEF S, r
<1>9. r \in Nat /\ r >= 1 /\ r <= top
  BY <1>3, <1>7
<1>10. len * r <= left
  BY <1>3, <1>9
<1> QED BY <1>5, <1>7, <1>8, <1>9, <1>10 DEF r, left, n, i, len

\* What the search has after each place.
IsSearch(g, message, phrases, q, n) ==
    g = [S \in SUBSET (1..n) |-> IF S = {} THEN 1 ELSE Tried(message, phrases, g[S \ {Max(S)}], q[Max(S)])]

\* The best only grows, and a unit that stands at a place and is not excused does not beat it afterwards.
Improves(message, phrases, best, place, next) ==
    /\ next \in Nat /\ next >= best
    /\ next # best => /\ StandsInARow(message, place[1], place[2], next)
                      /\ place[2] * next <= Len(message) - place[1] + 1
                      /\ ~IsWhitelistedUnit(Unit(message, place[1], place[2]), phrases)
    /\ \A k \in Nat : /\ ~IsWhitelistedUnit(Unit(message, place[1], place[2]), phrases)
                      /\ place[2] * k <= Len(message) - place[1] + 1
                      /\ StandsInARow(message, place[1], place[2], k)
                      => k <= next

\* One place is tried.
LEMMA TriedImproves ==
    ASSUME NEW L, NEW message \in Seq(L), NEW phrases, NEW best \in Nat, NEW p \in PlacesOf(Len(message))
    PROVE  Improves(message, phrases, best, p, Tried(message, phrases, best, p))
<1> DEFINE i == p[1]
           len == p[2]
           left == Len(message) - i + 1
           excused_ == IsWhitelistedUnit(Unit(message, i, len), phrases)
           r == Repetitions(message, i, len)
           next == Tried(message, phrases, best, p)
<1>1. /\ r \in Nat /\ r >= 1 /\ len * r <= left /\ StandsInARow(message, i, len, r)
      /\ \A k \in Nat : len * k <= left /\ StandsInARow(message, i, len, k) => k <= r
  BY RepetitionsAre
<1>2. left \in Nat /\ len \in Nat \ {0}
  BY LenProperties DEF PlacesOf
<1>3. next = IF left <= best \/ left \div len <= best \/ excused_ THEN best ELSE Max({best, r})
  BY DEF Tried
<1>4. Max({best, r}) = IF best >= r THEN best ELSE r
  BY <1>1 DEF Max
<1> HIDE DEF r, next, left, len, i, excused_
<1>5. \A k \in Nat : len * k <= left => k <= left \div len /\ k <= left
  <2> SUFFICES ASSUME NEW k \in Nat, len * k <= left PROVE k <= left \div len /\ k <= left
    OBVIOUS
  <2>1. k <= left \div len
    BY <1>2, FitsIs
  <2>2. (len - 1) * k >= 0 /\ (len - 1) * k = len * k - k
    BY <1>2
  <2> QED BY <1>2, <2>1, <2>2
<1>6. left \div len \in Nat
  BY <1>2, Remainder
<1>7. CASE left <= best \/ left \div len <= best \/ excused_
  <2>1. next = best
    BY <1>3, <1>7
  <2>2. ASSUME NEW k \in Nat, ~excused_, len * k <= left, StandsInARow(message, i, len, k) PROVE k <= next
    <3>1. left <= best \/ left \div len <= best
      BY <1>7, <2>2
    <3> QED BY <1>2, <1>5, <1>6, <2>1, <2>2, <3>1
  <2> QED BY <2>1, <2>2 DEF Improves, next, i, len, left, excused_
<1>8. CASE ~(left <= best \/ left \div len <= best \/ excused_)
  <2>1. next = IF best >= r THEN best ELSE r
    BY <1>3, <1>4, <1>8
  <2>2. next \in Nat /\ next >= best /\ next >= r /\ (next # best => next = r)
    BY <1>1, <2>1
  <2>3. ASSUME NEW k \in Nat, len * k <= left, StandsInARow(message, i, len, k) PROVE k <= next
    <3>1. k <= r
      BY <1>1, <2>3
    <3> QED BY <1>1, <2>2, <3>1
  <2>4. next # best => StandsInARow(message, i, len, next) /\ len * next <= left /\ ~excused_
    BY <1>1, <1>8, <2>2
  <2> QED BY <2>2, <2>3, <2>4 DEF Improves, next, i, len, left, excused_
<1> QED BY <1>7, <1>8

\* v holds the best after each place.
Searched(v, message, phrases, q, n) ==
    v[0] = 1 /\ \A k \in 0..(n - 1) : v[k + 1] = Tried(message, phrases, v[k], q[k + 1])

\* The search goes from place to place.
LEMMA SearchIsStepwise ==
    ASSUME NEW L, NEW message \in Seq(L), NEW phrases, Len(message) >= 2,
           NEW q, q = Places(Len(message)), NEW n, n = Len(q)
    PROVE  \E v \in [0..n -> Nat] : Searched(v, message, phrases, q, n) /\ MaxConsecutiveRepeat(message, phrases) = v[n]
<1> DEFINE D == Nat
           E == PlacesOf(Len(message))
           f == [se \in D \X E |-> Tried(message, phrases, se[1], se[2])]
           iter == CHOOSE g : IsSearch(g, message, phrases, q, n)
<1>0. q \in Seq(E) /\ n \in Nat /\ DOMAIN q = 1..n /\ q \in [1..n -> E]
  <2>1. Len(message) \in Nat
    BY LenProperties
  <2>2. q \in Seq(E)
    BY <2>1, PlacesAre
  <2> HIDE DEF E
  <2> QED BY <2>2, LenProperties
<1>6. MaxConsecutiveRepeat(message, phrases) = iter[1..n]
  <2>1. ~(Len(message) < 2)
    BY LenProperties
  <2>2. MaxConsecutiveRepeat(message, phrases) = FoldLeft(LAMBDA best, place : Tried(message, phrases, best, place), 1, q)
    BY <2>1 DEF MaxConsecutiveRepeat
  <2> QED BY <1>0, <2>2 DEF FoldLeft, MapThenFoldSet, IsSearch
<1>1. f \in [D \X E -> D] /\ 1 \in D
  <2>1. ASSUME NEW se \in D \X E PROVE Tried(message, phrases, se[1], se[2]) \in D
    <3>1. se[1] \in Nat /\ se[2] \in E
      OBVIOUS
    <3> QED BY <3>1, TriedImproves DEF Improves
  <2> HIDE DEF E
  <2> QED BY <2>1
<1>3. PICK g \in [SUBSET (1..n) -> D] : IsFold(g, f, q, 1, n)
  <2> HIDE DEF D, f, E
  <2> QED BY <1>0, <1>1, FoldIsDefined
<1>4. IsSearch(g, message, phrases, q, n)
  <2>1. ASSUME NEW S \in SUBSET (1..n), S # {}
        PROVE  f[<<g[S \ {Max(S)}], q[Max(S)]>>] = Tried(message, phrases, g[S \ {Max(S)}], q[Max(S)])
    <3>1. Max(S) \in 1..n
      BY <1>0, <2>1, MaxIs
    <3>2. q[Max(S)] \in E
      BY <1>0, <3>1
    <3>3. g[S \ {Max(S)}] \in D
      BY <1>3
    <3> HIDE DEF D, E
    <3> QED BY <3>2, <3>3
  <2>2. g = [S \in SUBSET (1..n) |-> IF S = {} THEN 1 ELSE f[<<g[S \ {Max(S)}], q[Max(S)]>>]]
    BY <1>3 DEF IsFold
  <2> HIDE DEF f, D
  <2>3. g = [S \in SUBSET (1..n) |-> IF S = {} THEN 1 ELSE Tried(message, phrases, g[S \ {Max(S)}], q[Max(S)])]
    BY <2>1, <2>2, Zenon
  <2> QED BY <2>3 DEF IsSearch
<1>5. IsSearch(iter, message, phrases, q, n)
  BY <1>4
<1> HIDE DEF iter
<1> DEFINE v == [k \in 0..n |-> iter[1..k]]
<1>7. v[0] = 1
  <2>1. 1..0 = {} /\ {} \in SUBSET (1..n) /\ 0 \in 0..n
    BY <1>0
  <2> QED BY <1>5, <2>1 DEF IsSearch
<1>8. ASSUME NEW k \in 0..(n - 1) PROVE v[k + 1] = Tried(message, phrases, v[k], q[k + 1])
  <2>0. k \in 0..n /\ k + 1 \in 0..n
    BY <1>0
  <2>1. /\ 1..(k + 1) \in SUBSET (1..n) /\ 1..(k + 1) # {}
        /\ Max(1..(k + 1)) = k + 1 /\ (1..(k + 1)) \ {k + 1} = 1..k
    BY <1>0, Beginnings
  <2>2. iter[1..(k + 1)] = Tried(message, phrases, iter[1..k], q[k + 1])
    BY <1>5, <2>1 DEF IsSearch
  <2> QED BY <2>0, <2>2
<1>9. v[n] = iter[1..n]
  BY <1>0
<1>10. v \in [0..n -> Nat]
  <2> DEFINE P == {k \in 0..n : v[k] \in Nat}
  <2> HIDE DEF v
  <2>1. 0 \in P
    BY <1>0, <1>7
  <2>2. ASSUME NEW k \in 0..(n - 1), k \in P PROVE k + 1 \in P
    <3>1. k + 1 \in 1..n /\ k + 1 \in 0..n
      BY <1>0
    <3>2. q[k + 1] \in E
      BY <1>0, <3>1
    <3>3. Tried(message, phrases, v[k], q[k + 1]) \in Nat
      BY <2>2, <3>2, TriedImproves DEF Improves
    <3> QED BY <1>8, <3>1, <3>3
  <2>3. P = 0..n
    <3>1. P \in SUBSET (0..n)
      OBVIOUS
    <3> HIDE DEF P
    <3> QED BY <1>0, <2>1, <2>2, <3>1, Throughout
  <2>4. \A k \in 0..n : v[k] \in Nat
    BY <2>3
  <2> QED BY <2>4 DEF v
<1> HIDE DEF v
<1> QED BY <1>6, <1>7, <1>8, <1>9, <1>10 DEF Searched

\* A unit that is not excused and stands k times in a row.
RepeatedIn(message, phrases, k) ==
    \E i \in DOMAIN message : \E n \in 1..Len(message) :
       /\ i + k * n - 1 <= Len(message) /\ ~IsWhitelistedUnit(Unit(message, i, n), phrases)
       /\ StandsInARow(message, i, n, k)

\* The search counts the unit that is repeated most, in any text.
LEMMA SearchFinds ==
    ASSUME NEW L, NEW message \in Seq(L), NEW phrases
    PROVE  LET counted == MaxConsecutiveRepeat(message, phrases)
           IN  /\ counted \in Nat /\ counted >= 1
               /\ counted > 1 => RepeatedIn(message, phrases, counted)
               /\ \A k \in (counted + 1)..Len(message) : ~RepeatedIn(message, phrases, k)
<1> DEFINE size == Len(message)
           q == Places(size)
           n == Len(q)
           counted == MaxConsecutiveRepeat(message, phrases)
<1>1. size \in Nat /\ DOMAIN message = 1..size
  BY LenProperties
<1>2. CASE size < 2
  <2>1. counted = 1
    BY <1>2 DEF MaxConsecutiveRepeat
  <2>2. (counted + 1)..Len(message) = {}
    BY <1>1, <1>2, <2>1
  <2> QED BY <2>1, <2>2
<1>3. CASE size >= 2
  <2>1. /\ q \in Seq(PlacesOf(size)) /\ n \in Nat /\ DOMAIN q = 1..n
        /\ \A p \in PlacesOf(size) : \E k \in 1..n : q[k] = p
    <3>1. q \in Seq(PlacesOf(size)) /\ \A p \in PlacesOf(size) : \E k \in 1..n : q[k] = p
      BY <1>1, <1>3, PlacesAre
    <3> HIDE DEF q
    <3> QED BY <3>1, LenProperties
  <2>2. PICK v \in [0..n -> Nat] : Searched(v, message, phrases, q, n) /\ counted = v[n]
    <3> HIDE DEF counted
    <3> QED BY <1>3, SearchIsStepwise DEF counted
  <2> HIDE DEF q, counted, size, n
  <2>3. ASSUME NEW k \in 0..(n - 1)
        PROVE  q[k + 1] \in PlacesOf(size) /\ Improves(message, phrases, v[k], q[k + 1], v[k + 1])
    <3>1. k + 1 \in 1..n /\ k \in 0..n
      BY <2>1
    <3>2. q[k + 1] \in PlacesOf(size)
      BY <2>1, <3>1, ElementOfSeq DEF n
    <3>3. v[k + 1] = Tried(message, phrases, v[k], q[k + 1])
      BY <2>2 DEF Searched
    <3>4. v[k] \in Nat
      BY <3>1
    <3> QED BY <3>2, <3>3, <3>4, TriedImproves DEF size
  <2>4. ASSUME NEW p \in PlacesOf(size)
        PROVE  /\ p[1] \in DOMAIN message /\ p[2] \in 1..size /\ p[1] \in Nat /\ p[2] \in Nat
               /\ \A k \in Nat : p[2] * k <= size - p[1] + 1 <=> p[1] + k * p[2] - 1 <= size
    <3>1. p[1] \in 1..size /\ p[2] \in 1..size
      BY DEF PlacesOf
    <3>2. ASSUME NEW k \in Nat PROVE p[2] * k <= size - p[1] + 1 <=> p[1] + k * p[2] - 1 <= size
      <4> DEFINE x == p[1]
                 y == p[2]
      <4>1. x \in Nat /\ y \in Nat
        BY <3>1
      <4> HIDE DEF x, y
      <4>2. y * k <= size - x + 1 <=> x + k * y - 1 <= size
        BY <1>1, <4>1
      <4> QED BY <4>2, Zenon DEF x, y
    <3>3. p[1] \in DOMAIN message /\ p[1] \in Nat /\ p[2] \in Nat
      BY <1>1, <3>1
    <3> QED BY <3>1, <3>2, <3>3, Zenon
  \* What is counted is there, and what was tried is counted.
  <2> DEFINE Fine(k) == /\ v[k] \in Nat /\ v[k] >= 1
                        /\ v[k] > 1 => RepeatedIn(message, phrases, v[k])
                        /\ \A j \in 1..k : \A m \in Nat :
                             /\ ~IsWhitelistedUnit(Unit(message, q[j][1], q[j][2]), phrases)
                             /\ q[j][2] * m <= size - q[j][1] + 1
                             /\ StandsInARow(message, q[j][1], q[j][2], m)
                             => m <= v[k]
             P == {k \in 0..n : Fine(k)}
  <2>5. Fine(0)
    BY <2>2 DEF Searched
  <2>6. ASSUME NEW k \in 0..(n - 1), Fine(k) PROVE Fine(k + 1)
    <3> DEFINE next == v[k + 1]
               best == v[k]
               p == q[k + 1]
    <3>1. p \in PlacesOf(size) /\ Improves(message, phrases, best, p, next)
      BY <2>3
    <3>2. best \in Nat /\ best >= 1 /\ (best > 1 => RepeatedIn(message, phrases, best))
      BY <2>6
    <3>3. \A j \in 1..k : \A m \in Nat :
            /\ ~IsWhitelistedUnit(Unit(message, q[j][1], q[j][2]), phrases)
            /\ q[j][2] * m <= size - q[j][1] + 1
            /\ StandsInARow(message, q[j][1], q[j][2], m)
            => m <= best
      BY <2>6
    <3> HIDE DEF next, best, p
    <3>4. next \in Nat /\ next >= best
      BY <3>1 DEF Improves
    <3>5. next > 1 => RepeatedIn(message, phrases, next)
      <4>1. CASE next = best
        BY <3>2, <4>1
      <4>2. CASE next # best
        <5>1. /\ StandsInARow(message, p[1], p[2], next) /\ p[2] * next <= size - p[1] + 1
              /\ ~IsWhitelistedUnit(Unit(message, p[1], p[2]), phrases)
          BY <3>1, <4>2 DEF Improves, size
        <5>2. /\ p[1] \in DOMAIN message /\ p[2] \in 1..size
              /\ p[1] + next * p[2] - 1 <= size
          BY <2>4, <3>1, <3>4, <5>1
        <5> QED BY <5>1, <5>2 DEF RepeatedIn, size
      <4> QED BY <4>1, <4>2
    <3>6. ASSUME NEW j \in 1..(k + 1), NEW m \in Nat,
                 ~IsWhitelistedUnit(Unit(message, q[j][1], q[j][2]), phrases),
                 q[j][2] * m <= size - q[j][1] + 1,
                 StandsInARow(message, q[j][1], q[j][2], m)
          PROVE  m <= next
      <4>1. CASE j = k + 1
        <5>1. q[j] = p
          BY <4>1 DEF p
        <5> QED BY <3>1, <3>6, <5>1 DEF Improves, size
      <4>2. CASE j # k + 1
        <5>1. j \in 1..k
          BY <2>1, <4>2
        <5>2. m <= best
          BY <3>3, <3>6, <5>1
        <5> QED BY <3>2, <3>4, <5>2
      <4> QED BY <4>1, <4>2
    <3>7. next >= 1
      BY <3>2, <3>4
    <3> QED BY <3>4, <3>5, <3>6, <3>7 DEF next
  <2>7. Fine(n)
    <3> HIDE DEF Fine
    <3>1. 0 \in P /\ P \in SUBSET (0..n) /\ n \in 0..n
      BY <2>1, <2>5
    <3>2. \A k \in 0..(n - 1) : k \in P => k + 1 \in P
      <4>1. \A k \in 0..(n - 1) : k + 1 \in 0..n
        BY <2>1
      <4> QED BY <2>6, <4>1
    <3>3. P = 0..n
      <4> HIDE DEF P
      <4> QED BY <2>1, <3>1, <3>2, Throughout
    <3> QED BY <3>1, <3>3
  <2>8. ASSUME NEW k \in (counted + 1)..size, RepeatedIn(message, phrases, k) PROVE FALSE
    <3>1. counted \in Nat /\ counted >= 1 /\ k \in Nat /\ k > counted /\ k >= 2
      BY <1>1, <2>2, <2>7
    <3>2. PICK i \in DOMAIN message, len \in 1..Len(message) :
             /\ i + k * len - 1 <= Len(message) /\ ~IsWhitelistedUnit(Unit(message, i, len), phrases)
             /\ StandsInARow(message, i, len, k)
      BY <2>8 DEF RepeatedIn
    <3>3. i \in 1..size /\ len \in 1..size /\ i \in Nat /\ len \in Nat /\ i + k * len - 1 <= size
      BY <1>1, <3>2 DEF size
    <3>4. 2 * len <= size - i + 1
      <4>1. len * (k - 2) >= 0 /\ len * (k - 2) = k * len - 2 * len
        BY <3>1, <3>3
      <4> QED BY <1>1, <3>3, <4>1
    <3> DEFINE p == <<i, len>>
    <3>5. p \in PlacesOf(size) /\ p[1] = i /\ p[2] = len
      BY <3>3, <3>4 DEF PlacesOf
    <3>6. len * k <= size - i + 1
      BY <2>4, <3>1, <3>3, <3>5
    <3> HIDE DEF p
    <3>7. PICK j \in 1..n : q[j] = p
      BY <2>1, <3>5
    <3>8. k <= v[n]
      BY <2>7, <3>1, <3>2, <3>5, <3>6, <3>7
    <3> QED BY <2>2, <3>1, <3>8
  <2>9. counted \in Nat /\ counted >= 1 /\ (counted > 1 => RepeatedIn(message, phrases, counted))
    BY <2>2, <2>7
  <2> QED BY <2>8, <2>9 DEF counted, size
<1> QED BY <1>1, <1>2, <1>3

\* What the first message and the one typed are, however it is changed.
ScoresInv == /\ first \in Seq(Letters) /\ typed \in Seq(Letters)
             /\ changes \in Nat /\ excused \in Excused

\* A change makes a message of a message.
LEMMA ChangedIsText ==
    ASSUME NEW message \in Seq(Letters), NEW next \in Changed(message)
    PROVE  next \in Seq(Letters)
<1>0. Len(message) \in Nat /\ DOMAIN message = 1..Len(message) /\ (\A i \in 1..Len(message) : message[i] \in Letters)
  BY LenProperties, ElementOfSeq
<1>1. ASSUME NEW i \in 1..(Len(message) + 1)
      PROVE  SubSeq(message, 1, i - 1) \in Seq(Letters) /\ SubSeq(message, i, Len(message)) \in Seq(Letters)
  <2>1. i - 1 \in Int /\ i - 1 <= Len(message) /\ i \in Nat \ {0} /\ Len(message) \in Int /\ 1 \in Nat \ {0}
    BY <1>0
  <2> QED BY <2>1, PartIs
<1>2. CASE \E i \in 1..(Len(message) + 1), c \in Letters : next = InsertAt(message, i, c)
  <2>1. PICK i \in 1..(Len(message) + 1), c \in Letters : next = InsertAt(message, i, c)
    BY <1>2
  <2>2. <<c>> \in Seq(Letters)
    OBVIOUS
  <2> QED BY <1>1, <2>1, <2>2, ConcatProperties DEF InsertAt
<1>3. CASE \E i \in DOMAIN message : next = RemoveAt(message, i)
  <2>1. PICK i \in 1..Len(message) : next = RemoveAt(message, i)
    BY <1>0, <1>3
  <2>2. i \in 1..(Len(message) + 1) /\ i + 1 \in 1..(Len(message) + 1)
    BY <1>0
  <2> QED BY <1>1, <2>1, <2>2, ConcatProperties DEF RemoveAt
<1>4. CASE \E i \in DOMAIN message, c \in Letters : next = [message EXCEPT ![i] = c]
  <2>1. PICK i \in 1..Len(message), c \in Letters : next = [message EXCEPT ![i] = c]
    BY <1>0, <1>4
  <2> QED BY <2>1, ExceptSeq
<1> QED BY <1>2, <1>3, <1>4 DEF Changed

\* The messages stay messages.
LEMMA ScoresInvariant == ScoresSpec => []ScoresInv
<1>1. ScoresInit => ScoresInv
  BY ScoresAssumption DEF ScoresInit, ScoresInv
<1>2. ScoresInv /\ [ScoresNext]_scoreVars => ScoresInv'
  <2> SUFFICES ASSUME ScoresInv, [ScoresNext]_scoreVars PROVE ScoresInv'
    OBVIOUS
  <2>1. CASE ScoresNext
    <3>1. PICK message \in Changed(typed) : Change(message)
      BY <2>1 DEF ScoresNext
    <3>2. message \in Seq(Letters)
      BY <3>1, ChangedIsText DEF ScoresInv
    <3> QED BY <3>1, <3>2 DEF Change, ScoresInv
  <2>2. CASE UNCHANGED scoreVars
    BY <2>2 DEF scoreVars, ScoresInv
  <2> QED BY <2>1, <2>2
<1> QED BY <1>1, <1>2, PTL DEF ScoresSpec

\* The guard against repetitions counts the unit repeated most that is not excused, in
\* whatever is typed: no short cut of its search loses one.
THEOREM EveryRepetitionFound == ScoresSpec => []RepeatsFound
<1>1. ScoresInv => RepeatsFound
  <2> SUFFICES ASSUME ScoresInv PROVE RepeatsFound
    OBVIOUS
  <2>1. typed \in Seq(Letters)
    BY DEF ScoresInv
  <2> DEFINE counted == MaxConsecutiveRepeat(typed, excused)
  <2>2. /\ counted > 1 => RepeatedIn(typed, excused, counted)
        /\ \A k \in (counted + 1)..Len(typed) : ~RepeatedIn(typed, excused, k)
    BY <2>1, SearchFinds
  <2> QED BY <2>2 DEF RepeatsFound, RepeatedIn, StandsInARow
<1> QED BY <1>1, ScoresInvariant, PTL

-----------------------------------------------------------------------------
(* MessageScores: the distance of two messages                             *)

\* The least of three numbers.
LEMMA SmallestIs ==
    ASSUME NEW a \in Nat, NEW b \in Nat, NEW c \in Nat
    PROVE  /\ Smallest(a, b, c) \in Nat /\ Smallest(a, b, c) \in {a, b, c}
           /\ Smallest(a, b, c) <= a /\ Smallest(a, b, c) <= b /\ Smallest(a, b, c) <= c
<1>1. \E x \in {a, b, c} : \A y \in {a, b, c} : x <= y
  <2>1. {a, b, c} \in SUBSET Nat /\ {a, b, c} # {}
    OBVIOUS
  <2> QED BY <2>1, Least
<1>2. Smallest(a, b, c) = CHOOSE x \in {a, b, c} : \A y \in {a, b, c} : x <= y
  BY DEF Smallest, Min
<1>3. Smallest(a, b, c) \in {a, b, c} /\ \A y \in {a, b, c} : Smallest(a, b, c) <= y
  BY <1>1, <1>2, Zenon
<1> QED BY <1>3

\* What it costs to put one letter for the other.
Cost(x, y) == IF x = y THEN 0 ELSE 1

\* One cell of a row is filled.
Filled(a, b, prev, i, cur, j) == [cur EXCEPT ![j] = Smallest(prev[j - 1] + Cost(a[i], b[j]), prev[j] + 1, cur[j - 1] + 1)]

RowStart(i, n) == [j \in 0..n |-> IF j = 0 THEN i ELSE 0]
IsRowFold(g, a, b, prev, i, n) ==
    g = [S \in SUBSET (1..n) |-> IF S = {} THEN RowStart(i, n)
                                 ELSE Filled(a, b, prev, i, g[S \ {Max(S)}], [j \in 1..n |-> j][Max(S)])]

\* What a row has after each of its cells.
Filling(v, a, b, prev, i, n) ==
    /\ v[0] = RowStart(i, n)
    /\ \A k \in 0..(n - 1) : v[k + 1] = Filled(a, b, prev, i, v[k], k + 1)

\* A row is filled cell by cell.
LEMMA RowIsStepwise ==
    ASSUME NEW L, NEW a, NEW b \in Seq(L), NEW n, n = Len(b), NEW prev \in [0..n -> Nat], NEW i \in Nat
    PROVE  \E v \in [0..n -> [0..n -> Nat]] : Filling(v, a, b, prev, i, n) /\ NextRow(a, b, prev, i) = v[n]
<1> DEFINE D == [0..n -> Nat]
           E == 1..n
           q == [j \in 1..n |-> j]
           base == RowStart(i, n)
           f == [se \in D \X E |-> Filled(a, b, prev, i, se[1], se[2])]
           iter == CHOOSE g : IsRowFold(g, a, b, prev, i, n)
<1>0. n \in Nat /\ DOMAIN b = 1..n
  BY LenProperties
<1>6. NextRow(a, b, prev, i) = iter[1..n]
  BY <1>0 DEF NextRow, FoldLeft, MapThenFoldSet, IsRowFold, Filled, Cost, RowStart
<1>1. ASSUME NEW cur \in D, NEW j \in E PROVE Filled(a, b, prev, i, cur, j) \in D
  <2>1. j \in 0..n /\ j - 1 \in 0..n
    BY <1>0
  <2>2. prev[j - 1] + Cost(a[i], b[j]) \in Nat /\ prev[j] + 1 \in Nat /\ cur[j - 1] + 1 \in Nat
    <3>1. prev[j - 1] \in Nat /\ prev[j] \in Nat /\ cur[j - 1] \in Nat
      BY <2>1
    <3>2. Cost(a[i], b[j]) \in Nat
      BY DEF Cost
    <3> QED BY <3>1, <3>2
  <2>3. Smallest(prev[j - 1] + Cost(a[i], b[j]), prev[j] + 1, cur[j - 1] + 1) \in Nat
    BY <2>2, SmallestIs
  <2> QED BY <2>1, <2>3 DEF Filled
<1>2. f \in [D \X E -> D] /\ base \in D /\ q \in [1..n -> E]
  <2>1. \A se \in D \X E : Filled(a, b, prev, i, se[1], se[2]) \in D
    <3> SUFFICES ASSUME NEW se \in D \X E PROVE Filled(a, b, prev, i, se[1], se[2]) \in D
      OBVIOUS
    <3>1. se[1] \in D /\ se[2] \in E
      OBVIOUS
    <3> HIDE DEF D, E
    <3> QED BY <1>1, <3>1
  <2>2. base \in D
    BY DEF RowStart
  <2>3. q \in [1..n -> E]
    OBVIOUS
  <2> HIDE DEF D, E, q, base
  <2> QED BY <2>1, <2>2, <2>3
<1>3. PICK g \in [SUBSET (1..n) -> D] : IsFold(g, f, q, base, n)
  <2> HIDE DEF D, f, E, q, base
  <2> QED BY <1>0, <1>2, FoldIsDefined
<1>4. IsRowFold(g, a, b, prev, i, n)
  <2>1. ASSUME NEW S \in SUBSET (1..n), S # {}
        PROVE  f[<<g[S \ {Max(S)}], q[Max(S)]>>] = Filled(a, b, prev, i, g[S \ {Max(S)}], q[Max(S)])
    <3>1. Max(S) \in 1..n
      BY <1>0, <2>1, MaxIs
    <3>2. q[Max(S)] \in E
      BY <1>2, <3>1
    <3>3. g[S \ {Max(S)}] \in D
      BY <1>3
    <3> HIDE DEF D, E, q
    <3> QED BY <3>2, <3>3
  <2>2. g = [S \in SUBSET (1..n) |-> IF S = {} THEN base ELSE f[<<g[S \ {Max(S)}], q[Max(S)]>>]]
    BY <1>3 DEF IsFold
  <2> HIDE DEF f, D, q, base
  <2>3. g = [S \in SUBSET (1..n) |-> IF S = {} THEN base ELSE Filled(a, b, prev, i, g[S \ {Max(S)}], q[Max(S)])]
    BY <2>1, <2>2, Zenon
  <2> QED BY <2>3 DEF IsRowFold, q, base
<1>5. IsRowFold(iter, a, b, prev, i, n)
  BY <1>4
<1> HIDE DEF iter
<1> DEFINE v == [k \in 0..n |-> iter[1..k]]
<1>7. v[0] = RowStart(i, n)
  <2>1. 1..0 = {} /\ {} \in SUBSET (1..n) /\ 0 \in 0..n
    BY <1>0
  <2> QED BY <1>5, <2>1 DEF IsRowFold
<1>8. ASSUME NEW k \in 0..(n - 1) PROVE v[k + 1] = Filled(a, b, prev, i, v[k], k + 1)
  <2>0. k \in 0..n /\ k + 1 \in 0..n /\ k + 1 \in 1..n
    BY <1>0
  <2>1. /\ 1..(k + 1) \in SUBSET (1..n) /\ 1..(k + 1) # {}
        /\ Max(1..(k + 1)) = k + 1 /\ (1..(k + 1)) \ {k + 1} = 1..k
    BY <1>0, Beginnings
  <2>2. iter[1..(k + 1)] = Filled(a, b, prev, i, iter[1..k], q[k + 1])
    BY <1>5, <2>1 DEF IsRowFold
  <2>3. q[k + 1] = k + 1
    BY <2>0
  <2> QED BY <2>0, <2>2, <2>3
<1>9. v[n] = iter[1..n]
  BY <1>0
<1>10. v \in [0..n -> D]
  <2> DEFINE P == {k \in 0..n : v[k] \in D}
  <2>3. base \in D
    BY <1>2
  <2> HIDE DEF v, D
  <2>1. 0 \in P
    BY <1>0, <1>7, <2>3
  <2>2. ASSUME NEW k \in 0..(n - 1), k \in P PROVE k + 1 \in P
    <3>1. k + 1 \in E /\ k + 1 \in 0..n
      BY <1>0
    <3>2. Filled(a, b, prev, i, v[k], k + 1) \in D
      BY <1>1, <2>2, <3>1
    <3> QED BY <1>8, <3>1, <3>2
  <2>4. P = 0..n
    <3>1. P \in SUBSET (0..n)
      OBVIOUS
    <3> HIDE DEF P
    <3> QED BY <1>0, <2>1, <2>2, <3>1, Throughout
  <2>5. \A k \in 0..n : v[k] \in D
    BY <2>4
  <2> QED BY <2>5 DEF v
<1> HIDE DEF v
<1> QED BY <1>6, <1>7, <1>8, <1>9, <1>10 DEF Filling

\* Each cell is the least of three neighbours and a step.
IsNextRow(r, a, b, prev, i, n) ==
    /\ r[0] = i
    /\ \A j \in 1..n : r[j] = Smallest(prev[j - 1] + Cost(a[i], b[j]), prev[j] + 1, r[j - 1] + 1)

\* So is each of the row that NextRow makes.
LEMMA RowIs ==
    ASSUME NEW L, NEW a, NEW b \in Seq(L), NEW n, n = Len(b), NEW prev \in [0..n -> Nat], NEW i \in Nat
    PROVE  NextRow(a, b, prev, i) \in [0..n -> Nat] /\ IsNextRow(NextRow(a, b, prev, i), a, b, prev, i, n)
<1>0. n \in Nat
  BY LenProperties
<1>1. PICK v \in [0..n -> [0..n -> Nat]] : Filling(v, a, b, prev, i, n) /\ NextRow(a, b, prev, i) = v[n]
  BY RowIsStepwise
<1> DEFINE P == {k \in 0..n : IsNextRow(v[k], a, b, prev, i, k)}
<1>2. 0 \in P
  <2>1. v[0] = RowStart(i, n) /\ 0 \in 0..n /\ 1..0 = {}
    BY <1>0, <1>1 DEF Filling
  <2> QED BY <2>1 DEF RowStart, IsNextRow
<1>3. ASSUME NEW k \in 0..(n - 1), k \in P PROVE k + 1 \in P
  <2> DEFINE cur == v[k]
             next == v[k + 1]
             new == Smallest(prev[(k + 1) - 1] + Cost(a[i], b[k + 1]), prev[k + 1] + 1, cur[(k + 1) - 1] + 1)
  <2>0. k \in 0..n /\ k + 1 \in 0..n
    BY <1>0
  <2>1. cur \in [0..n -> Nat] /\ IsNextRow(cur, a, b, prev, i, k)
    BY <1>3, <2>0
  <2>2. next = [cur EXCEPT ![k + 1] = new]
    BY <1>1 DEF Filling, Filled
  <2> HIDE DEF cur, next, new, P
  <2>3. next[k + 1] = new /\ \A j \in 0..k : next[j] = cur[j]
    <3>1. \A j \in 0..k : j \in 0..n /\ j # k + 1
      BY <2>0
    <3> QED BY <2>0, <2>1, <2>2, <3>1
  <2>4. next[0] = i
    <3>1. 0 \in 0..k
      BY <2>0
    <3> QED BY <2>1, <2>3, <3>1 DEF IsNextRow
  <2>5. ASSUME NEW j \in 1..(k + 1) PROVE next[j] = Smallest(prev[j - 1] + Cost(a[i], b[j]), prev[j] + 1, next[j - 1] + 1)
    <3>1. CASE j = k + 1
      <4>1. (k + 1) - 1 \in 0..k
        BY <2>0
      <4>2. next[(k + 1) - 1] = cur[(k + 1) - 1]
        BY <2>3, <4>1
      <4> QED BY <2>3, <3>1, <4>2 DEF new
    <3>2. CASE j # k + 1
      <4>1. j \in 1..k /\ j \in 0..k /\ j - 1 \in 0..k
        BY <2>0, <3>2
      <4>2. next[j] = cur[j] /\ next[j - 1] = cur[j - 1]
        BY <2>3, <4>1
      <4>3. cur[j] = Smallest(prev[j - 1] + Cost(a[i], b[j]), prev[j] + 1, cur[j - 1] + 1)
        BY <2>1, <4>1 DEF IsNextRow
      <4> QED BY <4>2, <4>3
    <3> QED BY <3>1, <3>2
  <2>6. IsNextRow(next, a, b, prev, i, k + 1)
    BY <2>4, <2>5 DEF IsNextRow
  <2> QED BY <2>0, <2>6 DEF P, next
<1>4. P = 0..n
  <2>1. P \in SUBSET (0..n)
    OBVIOUS
  <2> HIDE DEF P
  <2> QED BY <1>0, <1>2, <1>3, <2>1, Throughout
<1>5. n \in 0..n
  BY <1>0
<1>6. IsNextRow(v[n], a, b, prev, i, n)
  BY <1>4, <1>5
<1> QED BY <1>1, <1>5, <1>6

\* The table of two messages: how far the first i letters of a are from the first j of b.
IsTable(d, a, b) ==
    /\ d \in [0..Len(a) -> [0..Len(b) -> Nat]]
    /\ \A j \in 0..Len(b) : d[0][j] = j
    /\ \A i \in 1..Len(a) : IsNextRow(d[i], a, b, d[i - 1], i, Len(b))

IsTableFold(g, a, b, m) ==
    g = [S \in SUBSET (1..m) |-> IF S = {} THEN [j \in 0..Len(b) |-> j]
                                 ELSE NextRow(a, b, g[S \ {Max(S)}], [i \in 1..m |-> i][Max(S)])]

\* Levenshtein is the last entry of the table.
LEMMA TableIs ==
    ASSUME NEW L, NEW a \in Seq(L), NEW b \in Seq(L)
    PROVE  \E d : IsTable(d, a, b) /\ Levenshtein(a, b) = d[Len(a)][Len(b)]
<1> DEFINE m == Len(a)
           n == Len(b)
<1>0. m \in Nat /\ n \in Nat /\ DOMAIN a = 1..m /\ (a = <<>> <=> m = 0) /\ (b = <<>> <=> n = 0)
  BY LenProperties, EmptySeq
<1>1. CASE m = 0 \/ n = 0
  <2> DEFINE d == [i \in 0..m |-> [j \in 0..n |-> i + j]]
  <2>1. d \in [0..m -> [0..n -> Nat]]
    BY <1>0
  <2>2. \A i \in 0..m : \A j \in 0..n : d[i][j] = i + j
    OBVIOUS
  <2> HIDE DEF d
  <2>3. 0 \in 0..m /\ 0 \in 0..n /\ m \in 0..m /\ n \in 0..n
    BY <1>0
  <2>4. \A j \in 0..n : d[0][j] = j
    BY <2>2, <2>3
  <2>5. \A i \in 1..m : IsNextRow(d[i], a, b, d[i - 1], i, n)
    <3> SUFFICES ASSUME NEW i \in 1..m PROVE IsNextRow(d[i], a, b, d[i - 1], i, n)
      OBVIOUS
    <3>1. i \in 0..m /\ n = 0
      BY <1>0, <1>1
    <3>2. d[i][0] = i
      BY <2>2, <2>3, <3>1
    <3>3. 1..n = {}
      BY <3>1
    <3> QED BY <3>2, <3>3 DEF IsNextRow
  <2>6. IsTable(d, a, b)
    BY <2>1, <2>4, <2>5 DEF IsTable
  <2>7. Levenshtein(a, b) = m + n
    <3>1. CASE a = <<>>
      <4>1. Levenshtein(a, b) = n
        BY <3>1 DEF Levenshtein
      <4> QED BY <1>0, <3>1, <4>1
    <3>2. CASE a # <<>>
      <4>1. b = <<>>
        BY <1>0, <1>1, <3>2
      <4>2. Levenshtein(a, b) = m
        BY <3>2, <4>1 DEF Levenshtein
      <4> QED BY <1>0, <4>1, <4>2
    <3> QED BY <3>1, <3>2
  <2>8. d[m][n] = m + n
    BY <2>2, <2>3
  <2> QED BY <2>6, <2>7, <2>8
<1>2. CASE m # 0 /\ n # 0
  <2> DEFINE D == [0..n -> Nat]
             E == 1..m
             q == [i \in 1..m |-> i]
             base == [j \in 0..n |-> j]
             f == [se \in D \X E |-> NextRow(a, b, se[1], se[2])]
             iter == CHOOSE g : IsTableFold(g, a, b, m)
  <2>6. Levenshtein(a, b) = iter[1..m][n]
    <3>1. Levenshtein(a, b) = FoldLeft(LAMBDA prev, i : NextRow(a, b, prev, i), [j \in 0..n |-> j], q)[n]
      BY <1>0, <1>2 DEF Levenshtein
    <3>2. DOMAIN q = 1..m
      OBVIOUS
    <3> QED BY <3>1, <3>2 DEF FoldLeft, MapThenFoldSet, IsTableFold
  <2>1. ASSUME NEW prev \in D, NEW i \in E
        PROVE  NextRow(a, b, prev, i) \in D /\ IsNextRow(NextRow(a, b, prev, i), a, b, prev, i, n)
    <3>1. i \in Nat
      BY <1>0
    <3> QED BY <3>1, RowIs
  <2>2. f \in [D \X E -> D] /\ base \in D /\ q \in [1..m -> E]
    <3>1. \A se \in D \X E : NextRow(a, b, se[1], se[2]) \in D
      <4> SUFFICES ASSUME NEW se \in D \X E PROVE NextRow(a, b, se[1], se[2]) \in D
        OBVIOUS
      <4>1. se[1] \in D /\ se[2] \in E
        OBVIOUS
      <4> HIDE DEF D, E
      <4> QED BY <2>1, <4>1
    <3>2. base \in D
      BY <1>0
    <3>3. q \in [1..m -> E]
      OBVIOUS
    <3> HIDE DEF D, E, q, base
    <3> QED BY <3>1, <3>2, <3>3
  <2>3. PICK g \in [SUBSET (1..m) -> D] : IsFold(g, f, q, base, m)
    <3> HIDE DEF D, f, E, q, base
    <3> QED BY <1>0, <2>2, FoldIsDefined
  <2>4. IsTableFold(g, a, b, m)
    <3>1. ASSUME NEW S \in SUBSET (1..m), S # {}
          PROVE  f[<<g[S \ {Max(S)}], q[Max(S)]>>] = NextRow(a, b, g[S \ {Max(S)}], q[Max(S)])
      <4>1. Max(S) \in 1..m
        BY <1>0, <3>1, MaxIs
      <4>2. q[Max(S)] \in E
        BY <2>2, <4>1
      <4>3. g[S \ {Max(S)}] \in D
        BY <2>3
      <4> HIDE DEF D, E, q
      <4> QED BY <4>2, <4>3
    <3>2. g = [S \in SUBSET (1..m) |-> IF S = {} THEN base ELSE f[<<g[S \ {Max(S)}], q[Max(S)]>>]]
      BY <2>3 DEF IsFold
    <3> HIDE DEF f, D, q, base
    <3>3. g = [S \in SUBSET (1..m) |-> IF S = {} THEN base ELSE NextRow(a, b, g[S \ {Max(S)}], q[Max(S)])]
      BY <3>1, <3>2, Zenon
    <3> QED BY <3>3 DEF IsTableFold, q, base
  <2>5. IsTableFold(iter, a, b, m)
    BY <2>4
  <2> HIDE DEF iter
  <2> DEFINE d == [i \in 0..m |-> iter[1..i]]
  <2>7. d[0] = base
    <3>1. 1..0 = {} /\ {} \in SUBSET (1..m) /\ 0 \in 0..m
      BY <1>0
    <3> QED BY <2>5, <3>1 DEF IsTableFold
  <2>8. ASSUME NEW i \in 0..(m - 1) PROVE d[i + 1] = NextRow(a, b, d[i], i + 1)
    <3>0. i \in 0..m /\ i + 1 \in 0..m /\ i + 1 \in 1..m
      BY <1>0
    <3>1. /\ 1..(i + 1) \in SUBSET (1..m) /\ 1..(i + 1) # {}
          /\ Max(1..(i + 1)) = i + 1 /\ (1..(i + 1)) \ {i + 1} = 1..i
      BY <1>0, Beginnings
    <3>2. iter[1..(i + 1)] = NextRow(a, b, iter[1..i], q[i + 1])
      BY <2>5, <3>1 DEF IsTableFold
    <3>3. q[i + 1] = i + 1
      BY <3>0
    <3> QED BY <3>0, <3>2, <3>3
  <2>9. d[m] = iter[1..m]
    BY <1>0
  <2>10. \A i \in 0..m : d[i] \in D
    <3> DEFINE P == {i \in 0..m : d[i] \in D}
    <3>3. base \in D
      BY <2>2
    <3> HIDE DEF d, D, base
    <3>1. 0 \in P
      BY <1>0, <2>7, <3>3
    <3>2. ASSUME NEW i \in 0..(m - 1), i \in P PROVE i + 1 \in P
      <4>1. i + 1 \in E /\ i + 1 \in 0..m
        BY <1>0
      <4>2. NextRow(a, b, d[i], i + 1) \in D
        BY <2>1, <3>2, <4>1
      <4> QED BY <2>8, <4>1, <4>2
    <3>4. P = 0..m
      <4>1. P \in SUBSET (0..m)
        OBVIOUS
      <4> HIDE DEF P
      <4> QED BY <1>0, <3>1, <3>2, <4>1, Throughout
    <3> QED BY <3>4
  <2>11. d \in [0..m -> D]
    BY <2>10
  <2>12. \A j \in 0..n : d[0][j] = j
    BY <2>7
  <2> HIDE DEF d, base
  <2>13. \A i \in 1..m : IsNextRow(d[i], a, b, d[i - 1], i, n)
    <3> SUFFICES ASSUME NEW i \in 1..m PROVE IsNextRow(d[i], a, b, d[i - 1], i, n)
      OBVIOUS
    <3>1. i - 1 \in 0..(m - 1) /\ (i - 1) + 1 = i /\ i - 1 \in 0..m
      BY <1>0
    <3>2. d[i] = NextRow(a, b, d[i - 1], i)
      BY <2>8, <3>1
    <3> HIDE DEF D
    <3> QED BY <2>1, <2>10, <3>1, <3>2
  <2>14. IsTable(d, a, b)
    BY <2>11, <2>12, <2>13 DEF IsTable
  <2> HIDE DEF E
  <2> QED BY <2>6, <2>9, <2>14
<1> QED BY <1>0, <1>1, <1>2

\* A message begins like another.
StartsLike(a, c) == Len(a) <= Len(c) /\ \A i \in 1..Len(a) : a[i] = c[i]

\* A table is the beginning of another.
TableBegins(d, h, m, n) == \A i \in 0..m : \A j \in 0..n : d[i][j] = h[i][j]

\* The table of the beginnings of two messages is the beginning of theirs.
LEMMA TablesAgree ==
    ASSUME NEW L, NEW a \in Seq(L), NEW b \in Seq(L), NEW c \in Seq(L), NEW e \in Seq(L), NEW d, NEW h,
           IsTable(d, a, b), IsTable(h, c, e), StartsLike(a, c), StartsLike(b, e)
    PROVE  TableBegins(d, h, Len(a), Len(b))
<1> DEFINE m == Len(a)
           n == Len(b)
<1>4. /\ Len(a) <= Len(c) /\ Len(b) <= Len(e)
      /\ (\A i \in 1..Len(a) : a[i] = c[i]) /\ (\A j \in 1..Len(b) : b[j] = e[j])
  BY DEF StartsLike
<1>0. m \in Nat /\ n \in Nat /\ Len(c) \in Nat /\ Len(e) \in Nat
  BY LenProperties
<1> DEFINE P == {i \in 0..m : \A j \in 0..n : d[i][j] = h[i][j]}
<1>1. 0 \in P
  <2>1. \A j \in 0..n : j \in 0..Len(e)
    BY <1>0, <1>4
  <2>2. \A j \in 0..n : d[0][j] = j /\ h[0][j] = j
    BY <2>1 DEF IsTable
  <2>3. 0 \in 0..m
    BY <1>0
  <2> QED BY <2>2, <2>3
<1>2. ASSUME NEW i \in 0..(m - 1), i \in P PROVE i + 1 \in P
  <2>0. i + 1 \in 1..m /\ i + 1 \in 1..Len(c) /\ (i + 1) - 1 = i /\ i + 1 \in 0..m /\ \A j \in 0..n : d[i][j] = h[i][j]
    BY <1>0, <1>2, <1>4
  <2> DEFINE r == d[i + 1]
             s == h[i + 1]
             u == d[i]
             w == h[i]
  <2>1. IsNextRow(r, a, b, u, i + 1, n) /\ IsNextRow(s, c, e, w, i + 1, Len(e)) /\ a[i + 1] = c[i + 1]
    BY <1>4, <2>0 DEF IsTable
  <2>4. \A j \in 0..n : u[j] = w[j]
    BY <2>0
  <2> HIDE DEF r, s, u, w
  <2> DEFINE Q == {j \in 0..n : r[j] = s[j]}
  <2>2. 0 \in Q
    BY <1>0, <2>1 DEF IsNextRow
  <2>3. ASSUME NEW j \in 0..(n - 1), j \in Q PROVE j + 1 \in Q
    <3>1. j + 1 \in 1..n /\ j + 1 \in 1..Len(e) /\ j + 1 \in 0..n /\ (j + 1) - 1 = j /\ j \in 0..n
      BY <1>0, <1>4
    <3>2. b[j + 1] = e[j + 1] /\ u[j] = w[j] /\ u[j + 1] = w[j + 1] /\ r[j] = s[j]
      BY <1>4, <2>3, <2>4, <3>1
    <3>3. r[j + 1] = Smallest(u[j] + Cost(a[i + 1], b[j + 1]), u[j + 1] + 1, r[j] + 1)
      BY <2>1, <3>1 DEF IsNextRow
    <3>4. s[j + 1] = Smallest(w[j] + Cost(c[i + 1], e[j + 1]), w[j + 1] + 1, s[j] + 1)
      BY <2>1, <3>1 DEF IsNextRow
    <3> QED BY <2>1, <3>1, <3>2, <3>3, <3>4
  <2>5. Q = 0..n
    <3>1. Q \in SUBSET (0..n)
      OBVIOUS
    <3> HIDE DEF Q
    <3> QED BY <1>0, <2>2, <2>3, <3>1, Throughout
  <2>6. \A j \in 0..n : d[i + 1][j] = h[i + 1][j]
    BY <2>5 DEF r, s
  <2> QED BY <2>0, <2>6
<1>3. P = 0..m
  <2>1. P \in SUBSET (0..m)
    OBVIOUS
  <2> HIDE DEF P
  <2> QED BY <1>0, <1>1, <1>2, <2>1, Throughout
<1> QED BY <1>3 DEF TableBegins

\* The distance, by the last letters: whichever of three is least.
LEMMA DistanceIs ==
    ASSUME NEW L, NEW a \in Seq(L), NEW b \in Seq(L)
    PROVE  /\ Levenshtein(a, b) \in Nat
           /\ Levenshtein(<<>>, b) = Len(b) /\ Levenshtein(a, <<>>) = Len(a)
           /\ \A x, y \in L : Levenshtein(Append(a, x), Append(b, y)) =
                 Smallest(Levenshtein(a, b) + Cost(x, y), Levenshtein(a, Append(b, y)) + 1, Levenshtein(Append(a, x), b) + 1)
<1> DEFINE m == Len(a)
           n == Len(b)
<1>0. m \in Nat /\ n \in Nat
  BY LenProperties
<1>1. PICK d : IsTable(d, a, b) /\ Levenshtein(a, b) = d[m][n]
  BY TableIs
<1>2. d[m][n] \in Nat
  <2>1. m \in 0..m /\ n \in 0..n
    BY <1>0
  <2>2. d \in [0..m -> [0..n -> Nat]]
    BY <1>1 DEF IsTable
  <2> QED BY <2>1, <2>2
<1>3. Levenshtein(<<>>, b) = n /\ Levenshtein(a, <<>>) = m
  <2>1. Len(<<>>) = 0 /\ (a = <<>> => m = 0)
    BY EmptySeq
  <2> QED BY <2>1 DEF Levenshtein
<1>4. ASSUME NEW x \in L, NEW y \in L
      PROVE  Levenshtein(Append(a, x), Append(b, y)) =
                 Smallest(Levenshtein(a, b) + Cost(x, y), Levenshtein(a, Append(b, y)) + 1, Levenshtein(Append(a, x), b) + 1)
  <2> DEFINE c == Append(a, x)
             e == Append(b, y)
  <2>1. /\ c \in Seq(L) /\ Len(c) = m + 1 /\ c[m + 1] = x /\ (\A i \in 1..m : c[i] = a[i])
        /\ e \in Seq(L) /\ Len(e) = n + 1 /\ e[n + 1] = y /\ (\A j \in 1..n : e[j] = b[j])
    BY AppendProperties
  <2> HIDE DEF c, e, m, n
  <2>2. PICK h : IsTable(h, c, e) /\ Levenshtein(c, e) = h[Len(c)][Len(e)]
    BY <2>1, TableIs
  <2>3. Levenshtein(a, b) = h[m][n]
    <3>1. m \in 0..m /\ n \in 0..n /\ m <= Len(c) /\ n <= Len(e)
      BY <1>0, <2>1
    <3>3. StartsLike(a, c) /\ StartsLike(b, e)
      BY <2>1, <3>1 DEF StartsLike, m, n
    <3>4. IsTable(d, a, b) /\ IsTable(h, c, e) /\ c \in Seq(L) /\ e \in Seq(L)
      BY <1>1, <2>1, <2>2
    <3>2. TableBegins(d, h, Len(a), Len(b))
      BY <3>3, <3>4, TablesAgree
    <3> QED BY <1>1, <3>1, <3>2 DEF TableBegins, m, n
  <2>4. Levenshtein(a, e) = h[m][n + 1]
    <3>1. PICK k : IsTable(k, a, e) /\ Levenshtein(a, e) = k[Len(a)][Len(e)]
      BY <2>1, TableIs
    <3>2. m \in 0..m /\ n + 1 \in 0..Len(e) /\ m <= Len(c) /\ Len(e) <= Len(e)
      BY <1>0, <2>1
    <3>4. StartsLike(a, c) /\ StartsLike(e, e)
      BY <2>1, <3>2 DEF StartsLike, m, n
    <3>5. IsTable(k, a, e) /\ IsTable(h, c, e) /\ c \in Seq(L) /\ e \in Seq(L)
      BY <2>1, <2>2, <3>1
    <3>3. TableBegins(k, h, Len(a), Len(e))
      BY <3>4, <3>5, TablesAgree
    <3> QED BY <2>1, <3>1, <3>2, <3>3 DEF TableBegins, m
  <2>5. Levenshtein(c, b) = h[m + 1][n]
    <3>1. PICK k : IsTable(k, c, b) /\ Levenshtein(c, b) = k[Len(c)][Len(b)]
      BY <2>1, TableIs
    <3>2. n \in 0..n /\ m + 1 \in 0..Len(c) /\ n <= Len(e) /\ Len(c) <= Len(c)
      BY <1>0, <2>1
    <3>4. StartsLike(c, c) /\ StartsLike(b, e)
      BY <2>1, <3>2 DEF StartsLike, m, n
    <3>5. IsTable(k, c, b) /\ IsTable(h, c, e) /\ c \in Seq(L) /\ e \in Seq(L)
      BY <2>1, <2>2, <3>1
    <3>3. TableBegins(k, h, Len(c), Len(b))
      BY <3>4, <3>5, TablesAgree
    <3> QED BY <2>1, <3>1, <3>2, <3>3 DEF TableBegins, n
  <2>6. h[m + 1][n + 1] = Smallest(h[m][n] + Cost(c[m + 1], e[n + 1]), h[m][n + 1] + 1, h[m + 1][n] + 1)
    <3>1. m + 1 \in 1..Len(c) /\ (m + 1) - 1 = m /\ n + 1 \in 1..Len(e) /\ (n + 1) - 1 = n
      BY <1>0, <2>1
    <3>2. IsNextRow(h[m + 1], c, e, h[m], m + 1, Len(e))
      BY <2>2, <3>1 DEF IsTable
    <3> QED BY <3>1, <3>2 DEF IsNextRow
  <2>7. Levenshtein(c, e) = h[m + 1][n + 1]
    BY <2>1, <2>2
  <2>8. Levenshtein(c, e) = Smallest(Levenshtein(a, b) + Cost(x, y), Levenshtein(a, e) + 1, Levenshtein(c, b) + 1)
    BY <2>1, <2>3, <2>4, <2>5, <2>6, <2>7
  <2> QED BY <2>8 DEF c, e
<1> QED BY <1>1, <1>2, <1>3, <1>4

\* A message is empty, or ends with a letter.
LEMMA EndsSomehow ==
    ASSUME NEW L, NEW s \in Seq(L), s # <<>>
    PROVE  \E f \in Seq(L), x \in L : s = Append(f, x) /\ Len(s) = Len(f) + 1
<1>1. PICK f \in Seq(L), x \in L : s = Append(f, x)
  BY SequenceEmptyOrAppend
<1> QED BY <1>1, AppendProperties

\* What holds of the empty message, and with one letter more, holds of every message.
LEMMA EveryMessage ==
    ASSUME NEW L, NEW P \in SUBSET Seq(L), <<>> \in P, \A s \in P : \A x \in L : Append(s, x) \in P
    PROVE  \A s \in Seq(L) : s \in P
<1> DEFINE Wrong == {k \in Nat : \E s \in Seq(L) : Len(s) = k /\ s \notin P}
<1>1. SUFFICES ASSUME Wrong # {} PROVE FALSE
  <2> SUFFICES ASSUME NEW s \in Seq(L), s \notin P PROVE Wrong # {}
    OBVIOUS
  <2>1. Len(s) \in Nat
    BY LenProperties
  <2> QED BY <2>1
<1>2. PICK k \in Wrong : \A j \in Wrong : k <= j
  <2>1. Wrong \in SUBSET Nat
    OBVIOUS
  <2> HIDE DEF Wrong
  <2> QED BY <1>1, <2>1, Least
<1>3. PICK s \in Seq(L) : Len(s) = k /\ s \notin P
  OBVIOUS
<1>4. PICK f \in Seq(L), x \in L : s = Append(f, x) /\ Len(s) = Len(f) + 1
  BY <1>3, EndsSomehow
<1>5. f \notin P
  BY <1>3, <1>4
<1>6. Len(f) \in Nat /\ Len(f) \in Wrong
  BY <1>5, LenProperties
<1>7. k <= Len(f)
  <2> HIDE DEF Wrong
  <2> QED BY <1>2, <1>6
<1> QED BY <1>3, <1>4, <1>6, <1>7

\* The same for two messages.
LEMMA EveryPair ==
    ASSUME NEW L, NEW P,
           \A b \in Seq(L) : <<<<>>, b>> \in P, \A a \in Seq(L) : <<a, <<>>>> \in P,
           \A a, b \in Seq(L) : \A x, y \in L :
              <<a, b>> \in P /\ <<a, Append(b, y)>> \in P /\ <<Append(a, x), b>> \in P => <<Append(a, x), Append(b, y)>> \in P
    PROVE  \A a, b \in Seq(L) : <<a, b>> \in P
<1> DEFINE Q == {a \in Seq(L) : \A b \in Seq(L) : <<a, b>> \in P}
<1>1. <<>> \in Q
  BY EmptySeq
<1>2. ASSUME NEW a \in Q, NEW x \in L PROVE Append(a, x) \in Q
  <2> DEFINE R == {b \in Seq(L) : <<Append(a, x), b>> \in P}
  <2>1. a \in Seq(L) /\ Append(a, x) \in Seq(L) /\ \A b \in Seq(L) : <<a, b>> \in P
    BY AppendProperties
  <2>2. <<>> \in R
    BY <2>1, EmptySeq
  <2>3. ASSUME NEW b \in R, NEW y \in L PROVE Append(b, y) \in R
    <3>1. b \in Seq(L) /\ Append(b, y) \in Seq(L) /\ <<Append(a, x), b>> \in P
      BY AppendProperties
    <3>2. <<a, b>> \in P /\ <<a, Append(b, y)>> \in P
      BY <2>1, <3>1
    <3> QED BY <2>1, <3>1, <3>2
  <2>4. \A b \in Seq(L) : b \in R
    <3>1. R \in SUBSET Seq(L)
      OBVIOUS
    <3> HIDE DEF R
    <3> QED BY <2>2, <2>3, <3>1, EveryMessage
  <2> QED BY <2>1, <2>4
<1>3. \A a \in Seq(L) : a \in Q
  <2>1. Q \in SUBSET Seq(L)
    OBVIOUS
  <2> HIDE DEF Q
  <2> QED BY <1>1, <1>2, <2>1, EveryMessage
<1> QED BY <1>3

\* The distance of two messages whose last letters are x and y.
LEMMA DistanceStep ==
    ASSUME NEW L, NEW a \in Seq(L), NEW b \in Seq(L), NEW x \in L, NEW y \in L
    PROVE  /\ Levenshtein(a, b) \in Nat /\ Levenshtein(a, Append(b, y)) \in Nat /\ Levenshtein(Append(a, x), b) \in Nat
           /\ LET d == Levenshtein(Append(a, x), Append(b, y))
                  p == Levenshtein(a, b) + Cost(x, y)
                  q == Levenshtein(a, Append(b, y)) + 1
                  r == Levenshtein(Append(a, x), b) + 1
              IN  d \in Nat /\ d <= p /\ d <= q /\ d <= r /\ (d = p \/ d = q \/ d = r)
<1>1. Append(a, x) \in Seq(L) /\ Append(b, y) \in Seq(L)
  BY AppendProperties
<1>2. Levenshtein(a, b) \in Nat /\ Levenshtein(a, Append(b, y)) \in Nat /\ Levenshtein(Append(a, x), b) \in Nat
  BY <1>1, DistanceIs
<1> DEFINE d == Levenshtein(Append(a, x), Append(b, y))
           p == Levenshtein(a, b) + Cost(x, y)
           q == Levenshtein(a, Append(b, y)) + 1
           r == Levenshtein(Append(a, x), b) + 1
<1>3. p \in Nat /\ q \in Nat /\ r \in Nat
  BY <1>2 DEF Cost
<1>4. d = Smallest(p, q, r)
  BY DistanceIs
<1> HIDE DEF d, p, q, r
<1>5. d \in Nat /\ d <= p /\ d <= q /\ d <= r /\ (d = p \/ d = q \/ d = r)
  BY <1>3, <1>4, SmallestIs
<1> QED BY <1>2, <1>5 DEF d, p, q, r

\* One letter more is at most one further, at either message.
LEMMA OneFurther ==
    ASSUME NEW L, NEW a \in Seq(L), NEW b \in Seq(L), NEW x \in L
    PROVE  /\ Levenshtein(Append(a, x), b) <= Levenshtein(a, b) + 1
           /\ Levenshtein(a, Append(b, x)) <= Levenshtein(a, b) + 1
<1>0. Append(a, x) \in Seq(L) /\ Len(Append(a, x)) = Len(a) + 1 /\ Append(b, x) \in Seq(L) /\ Len(Append(b, x)) = Len(b) + 1
      /\ Len(a) \in Nat /\ Len(b) \in Nat
  BY AppendProperties, LenProperties
<1>1. Levenshtein(Append(a, x), b) <= Levenshtein(a, b) + 1
  <2>1. CASE b = <<>>
    <3>1. Levenshtein(Append(a, x), b) = Len(a) + 1 /\ Levenshtein(a, b) = Len(a)
      BY <1>0, <2>1, DistanceIs
    <3> QED BY <1>0, <3>1
  <2>2. CASE b # <<>>
    <3>1. PICK f \in Seq(L), y \in L : b = Append(f, y)
      BY <2>2, EndsSomehow
    <3>2. Levenshtein(Append(a, x), Append(f, y)) <= Levenshtein(a, Append(f, y)) + 1
      BY DistanceStep
    <3> QED BY <3>1, <3>2
  <2> QED BY <2>1, <2>2
<1>2. Levenshtein(a, Append(b, x)) <= Levenshtein(a, b) + 1
  <2>1. CASE a = <<>>
    <3>1. Levenshtein(a, Append(b, x)) = Len(b) + 1 /\ Levenshtein(a, b) = Len(b)
      BY <1>0, <2>1, DistanceIs
    <3> QED BY <1>0, <3>1
  <2>2. CASE a # <<>>
    <3>1. PICK f \in Seq(L), y \in L : a = Append(f, y)
      BY <2>2, EndsSomehow
    <3>2. Levenshtein(Append(f, y), Append(b, x)) <= Levenshtein(Append(f, y), b) + 1
      BY DistanceStep
    <3> QED BY <3>1, <3>2
  <2> QED BY <2>1, <2>2
<1> QED BY <1>1, <1>2

\* The distance is the same both ways.
LEMMA SameBothWays ==
    ASSUME NEW L, NEW a \in Seq(L), NEW b \in Seq(L)
    PROVE  Levenshtein(a, b) = Levenshtein(b, a)
<1> DEFINE P == {ab \in Seq(L) \X Seq(L) : Levenshtein(ab[1], ab[2]) = Levenshtein(ab[2], ab[1])}
<1>1. \A s \in Seq(L) : <<<<>>, s>> \in P /\ <<s, <<>>>> \in P
  <2> SUFFICES ASSUME NEW s \in Seq(L) PROVE <<<<>>, s>> \in P /\ <<s, <<>>>> \in P
    OBVIOUS
  <2>1. Levenshtein(<<>>, s) = Levenshtein(s, <<>>) /\ <<>> \in Seq(L)
    BY DistanceIs, EmptySeq
  <2> QED BY <2>1
<1>2. ASSUME NEW s \in Seq(L), NEW t \in Seq(L), NEW x \in L, NEW y \in L,
             <<s, t>> \in P, <<s, Append(t, y)>> \in P, <<Append(s, x), t>> \in P
      PROVE  <<Append(s, x), Append(t, y)>> \in P
  <2>1. /\ Levenshtein(s, t) = Levenshtein(t, s) /\ Levenshtein(s, Append(t, y)) = Levenshtein(Append(t, y), s)
        /\ Levenshtein(Append(s, x), t) = Levenshtein(t, Append(s, x))
    BY <1>2
  <2> DEFINE u == Append(s, x)
             w == Append(t, y)
  <2>2. u \in Seq(L) /\ w \in Seq(L)
    BY AppendProperties
  <2>3. /\ Levenshtein(s, t) \in Nat /\ Levenshtein(s, w) \in Nat /\ Levenshtein(u, t) \in Nat /\ Levenshtein(u, w) \in Nat
        /\ Levenshtein(u, w) <= Levenshtein(s, t) + Cost(x, y) /\ Levenshtein(u, w) <= Levenshtein(s, w) + 1
        /\ Levenshtein(u, w) <= Levenshtein(u, t) + 1
        /\ \/ Levenshtein(u, w) = Levenshtein(s, t) + Cost(x, y) \/ Levenshtein(u, w) = Levenshtein(s, w) + 1
           \/ Levenshtein(u, w) = Levenshtein(u, t) + 1
    BY DistanceStep
  <2>4. /\ Levenshtein(w, u) \in Nat
        /\ Levenshtein(w, u) <= Levenshtein(t, s) + Cost(y, x) /\ Levenshtein(w, u) <= Levenshtein(t, u) + 1
        /\ Levenshtein(w, u) <= Levenshtein(w, s) + 1
        /\ \/ Levenshtein(w, u) = Levenshtein(t, s) + Cost(y, x) \/ Levenshtein(w, u) = Levenshtein(t, u) + 1
           \/ Levenshtein(w, u) = Levenshtein(w, s) + 1
    BY DistanceStep
  <2>5. Cost(x, y) = Cost(y, x) /\ Cost(x, y) \in Nat
    BY DEF Cost
  <2> HIDE DEF u, w
  <2>6. Levenshtein(u, w) = Levenshtein(w, u)
    BY <2>1, <2>3, <2>4, <2>5 DEF u, w
  <2> QED BY <2>2, <2>6 DEF u, w
<1>3. \A s, t \in Seq(L) : <<s, t>> \in P
  <2> HIDE DEF P
  <2> QED BY <1>1, <1>2, EveryPair
<1>4. <<a, b>> \in P
  BY <1>3
<1> QED BY <1>4

\* The distance is 0 for the same letters only, and never more than the longer message.
LEMMA ZeroIsSame ==
    ASSUME NEW L, NEW a \in Seq(L), NEW b \in Seq(L)
    PROVE  /\ Levenshtein(a, b) = 0 <=> a = b
           /\ Levenshtein(a, b) <= Len(a) \/ Levenshtein(a, b) <= Len(b)
<1> DEFINE Fine(s, t) == /\ Levenshtein(s, t) = 0 <=> s = t
                         /\ Levenshtein(s, t) <= Len(s) \/ Levenshtein(s, t) <= Len(t)
           P == {ab \in Seq(L) \X Seq(L) : Fine(ab[1], ab[2])}
<1>1. ASSUME NEW s \in Seq(L) PROVE <<<<>>, s>> \in P /\ <<s, <<>>>> \in P
  <2>1. Levenshtein(<<>>, s) = Len(s) /\ Levenshtein(s, <<>>) = Len(s) /\ <<>> \in Seq(L)
    BY DistanceIs, EmptySeq
  <2>2. Len(s) \in Nat /\ Len(<<>>) = 0 /\ (Len(s) = 0 <=> s = <<>>)
    BY LenProperties, EmptySeq
  <2>3. Fine(<<>>, s) /\ Fine(s, <<>>)
    BY <2>1, <2>2
  <2> HIDE DEF Fine
  <2> QED BY <2>1, <2>3
<1>2. ASSUME NEW s \in Seq(L), NEW t \in Seq(L), NEW x \in L, NEW y \in L,
             <<s, t>> \in P, <<s, Append(t, y)>> \in P, <<Append(s, x), t>> \in P
      PROVE  <<Append(s, x), Append(t, y)>> \in P
  <2> DEFINE u == Append(s, x)
             w == Append(t, y)
  <2>1. Fine(s, t)
    BY <1>2
  <2>2. /\ u \in Seq(L) /\ w \in Seq(L) /\ Len(u) = Len(s) + 1 /\ Len(w) = Len(t) + 1
        /\ Len(s) \in Nat /\ Len(t) \in Nat
    BY AppendProperties, LenProperties
  <2>3. /\ Levenshtein(s, t) \in Nat /\ Levenshtein(s, w) \in Nat /\ Levenshtein(u, t) \in Nat /\ Levenshtein(u, w) \in Nat
        /\ Levenshtein(u, w) <= Levenshtein(s, t) + Cost(x, y)
        /\ \/ Levenshtein(u, w) = Levenshtein(s, t) + Cost(x, y) \/ Levenshtein(u, w) = Levenshtein(s, w) + 1
           \/ Levenshtein(u, w) = Levenshtein(u, t) + 1
    BY DistanceStep
  <2>4. u = w <=> s = t /\ x = y
    BY AppendInjective
  <2>5. Cost(x, y) \in {0, 1} /\ (Cost(x, y) = 0 <=> x = y)
    BY DEF Cost
  <2> HIDE DEF u, w
  <2>6. Levenshtein(u, w) = 0 <=> u = w
    BY <2>1, <2>3, <2>4, <2>5
  <2>7. Levenshtein(u, w) <= Len(u) \/ Levenshtein(u, w) <= Len(w)
    BY <2>1, <2>2, <2>3, <2>5
  <2>8. Fine(u, w)
    BY <2>6, <2>7
  <2> HIDE DEF Fine
  <2> QED BY <2>2, <2>8 DEF u, w
<1>3. \A s, t \in Seq(L) : <<s, t>> \in P
  <2> HIDE DEF P
  <2> QED BY <1>1, <1>2, EveryPair
<1>4. <<a, b>> \in P
  BY <1>3
<1> QED BY <1>4

\* To take the last letter away is at most one further.
LEMMA OneBack ==
    ASSUME NEW L, NEW a \in Seq(L), NEW b \in Seq(L), NEW y \in L
    PROVE  Levenshtein(a, b) <= Levenshtein(a, Append(b, y)) + 1
<1> DEFINE Fine(s) == \A t \in Seq(L) : Levenshtein(s, t) <= Levenshtein(s, Append(t, y)) + 1
           P == {s \in Seq(L) : Fine(s)}
<1>1. Fine(<<>>)
  <2> SUFFICES ASSUME NEW t \in Seq(L) PROVE Levenshtein(<<>>, t) <= Levenshtein(<<>>, Append(t, y)) + 1
    OBVIOUS
  <2>1. Append(t, y) \in Seq(L) /\ Len(Append(t, y)) = Len(t) + 1 /\ Len(t) \in Nat
    BY AppendProperties, LenProperties
  <2>2. Levenshtein(<<>>, t) = Len(t) /\ Levenshtein(<<>>, Append(t, y)) = Len(t) + 1
    BY <2>1, DistanceIs
  <2> QED BY <2>1, <2>2
<1>2. ASSUME NEW s \in Seq(L), NEW x \in L, Fine(s) PROVE Fine(Append(s, x))
  <2> SUFFICES ASSUME NEW t \in Seq(L) PROVE Levenshtein(Append(s, x), t) <= Levenshtein(Append(s, x), Append(t, y)) + 1
    OBVIOUS
  <2> DEFINE u == Append(s, x)
             w == Append(t, y)
  <2>1. Levenshtein(s, t) <= Levenshtein(s, w) + 1
    BY <1>2
  <2>2. /\ Levenshtein(s, t) \in Nat /\ Levenshtein(s, w) \in Nat /\ Levenshtein(u, t) \in Nat /\ Levenshtein(u, w) \in Nat
        /\ \/ Levenshtein(u, w) = Levenshtein(s, t) + Cost(x, y) \/ Levenshtein(u, w) = Levenshtein(s, w) + 1
           \/ Levenshtein(u, w) = Levenshtein(u, t) + 1
    BY DistanceStep
  <2>3. Levenshtein(u, t) <= Levenshtein(s, t) + 1
    BY OneFurther
  <2>4. Cost(x, y) \in Nat
    BY DEF Cost
  <2> HIDE DEF u, w
  <2>5. Levenshtein(u, t) <= Levenshtein(u, w) + 1
    BY <2>1, <2>2, <2>3, <2>4
  <2> QED BY <2>5 DEF u, w
<1>3. \A s \in Seq(L) : s \in P
  <2> HIDE DEF Fine
  <2>1. <<>> \in P
    BY <1>1, EmptySeq
  <2>2. \A s \in P : \A x \in L : Append(s, x) \in P
    BY <1>2, AppendProperties
  <2>3. P \in SUBSET Seq(L)
    OBVIOUS
  <2> HIDE DEF P
  <2> QED BY <2>1, <2>2, <2>3, EveryMessage
<1> QED BY <1>3

\* To replace the last letter is at most one further.
LEMMA OneAside ==
    ASSUME NEW L, NEW a \in Seq(L), NEW b \in Seq(L), NEW y \in L, NEW z \in L
    PROVE  Levenshtein(a, Append(b, z)) <= Levenshtein(a, Append(b, y)) + 1
<1> DEFINE w == Append(b, y)
           v == Append(b, z)
           Fine(s) == Levenshtein(s, v) <= Levenshtein(s, w) + 1
           P == {s \in Seq(L) : Fine(s)}
<1>0. w \in Seq(L) /\ v \in Seq(L) /\ Len(w) = Len(b) + 1 /\ Len(v) = Len(b) + 1 /\ Len(b) \in Nat
  BY AppendProperties, LenProperties
<1>1. Fine(<<>>)
  <2>1. Levenshtein(<<>>, v) = Len(b) + 1 /\ Levenshtein(<<>>, w) = Len(b) + 1
    BY <1>0, DistanceIs
  <2> QED BY <1>0, <2>1
<1>2. ASSUME NEW s \in Seq(L), NEW x \in L, Fine(s) PROVE Fine(Append(s, x))
  <2> DEFINE u == Append(s, x)
  <2>1. Levenshtein(s, v) <= Levenshtein(s, w) + 1
    BY <1>2
  <2>2. /\ Levenshtein(s, b) \in Nat /\ Levenshtein(s, w) \in Nat /\ Levenshtein(u, b) \in Nat /\ Levenshtein(u, w) \in Nat
        /\ \/ Levenshtein(u, w) = Levenshtein(s, b) + Cost(x, y) \/ Levenshtein(u, w) = Levenshtein(s, w) + 1
           \/ Levenshtein(u, w) = Levenshtein(u, b) + 1
    BY DistanceStep
  <2>3. /\ Levenshtein(s, v) \in Nat /\ Levenshtein(u, v) \in Nat
        /\ Levenshtein(u, v) <= Levenshtein(s, b) + Cost(x, z) /\ Levenshtein(u, v) <= Levenshtein(s, v) + 1
        /\ Levenshtein(u, v) <= Levenshtein(u, b) + 1
    BY DistanceStep
  <2>4. Cost(x, y) \in Nat /\ Cost(x, z) \in Nat /\ Cost(x, z) <= 1
    BY DEF Cost
  <2> HIDE DEF u, w, v
  <2>5. Levenshtein(u, v) <= Levenshtein(u, w) + 1
    BY <2>1, <2>2, <2>3, <2>4
  <2> QED BY <2>5 DEF u
<1>3. \A s \in Seq(L) : s \in P
  <2> HIDE DEF Fine
  <2>1. <<>> \in P
    BY <1>1, EmptySeq
  <2>2. \A s \in P : \A x \in L : Append(s, x) \in P
    BY <1>2, AppendProperties
  <2>3. P \in SUBSET Seq(L)
    OBVIOUS
  <2> HIDE DEF P
  <2> QED BY <2>1, <2>2, <2>3, EveryMessage
<1> QED BY <1>3

\* b is at most one further than c, from whatever message.
Beside(L, b, c) == \A a \in Seq(L) : Levenshtein(a, b) <= Levenshtein(a, c) + 1

\* Then it is with anything behind both.
LEMMA BesideOnward ==
    ASSUME NEW L, NEW b \in Seq(L), NEW c \in Seq(L), NEW s \in Seq(L), Beside(L, b, c)
    PROVE  Beside(L, b \o s, c \o s)
<1> DEFINE Fine(a, t) == Levenshtein(a, b \o t) <= Levenshtein(a, c \o t) + 1
           P == {at \in Seq(L) \X Seq(L) : Fine(at[1], at[2])}
<1>0. Len(b) \in Nat /\ Len(c) \in Nat /\ Len(b) <= Len(c) + 1
  <2>1. <<>> \in Seq(L) /\ Levenshtein(<<>>, b) = Len(b) /\ Levenshtein(<<>>, c) = Len(c)
    BY EmptySeq, DistanceIs
  <2> QED BY <2>1, LenProperties DEF Beside
<1>1. ASSUME NEW t \in Seq(L) PROVE <<<<>>, t>> \in P
  <2>1. /\ b \o t \in Seq(L) /\ Len(b \o t) = Len(b) + Len(t)
        /\ c \o t \in Seq(L) /\ Len(c \o t) = Len(c) + Len(t) /\ Len(t) \in Nat
    BY ConcatProperties, LenProperties
  <2>2. Levenshtein(<<>>, b \o t) = Len(b \o t) /\ Levenshtein(<<>>, c \o t) = Len(c \o t)
    BY <2>1, DistanceIs
  <2>3. Fine(<<>>, t)
    BY <1>0, <2>1, <2>2
  <2> HIDE DEF Fine
  <2> QED BY <2>3, EmptySeq
<1>2. ASSUME NEW a \in Seq(L) PROVE <<a, <<>>>> \in P
  <2>1. b \o <<>> = b /\ c \o <<>> = c
    BY ConcatEmptySeq
  <2>2. Fine(a, <<>>)
    BY <2>1 DEF Beside
  <2> HIDE DEF Fine
  <2> QED BY <2>2, EmptySeq
<1>3. ASSUME NEW a \in Seq(L), NEW t \in Seq(L), NEW x \in L, NEW y \in L,
             <<a, t>> \in P, <<a, Append(t, y)>> \in P, <<Append(a, x), t>> \in P
      PROVE  <<Append(a, x), Append(t, y)>> \in P
  <2> DEFINE u == Append(a, x)
             p == b \o t
             q == c \o t
             py == Append(p, y)
             qy == Append(q, y)
  <2>1. p \in Seq(L) /\ q \in Seq(L)
    BY ConcatProperties
  <2>2. b \o Append(t, y) = py /\ c \o Append(t, y) = qy
    <3>1. <<y>> \in Seq(L) /\ Append(t, y) = t \o <<y>>
      BY AppendIsConcat
    <3> HIDE DEF p, q
    <3>2. py = p \o <<y>> /\ qy = q \o <<y>>
      BY <2>1, AppendIsConcat
    <3>3. (b \o t) \o <<y>> = b \o (t \o <<y>>)
      BY <3>1, ConcatAssociative, SMTT(60)
    <3>4. (c \o t) \o <<y>> = c \o (t \o <<y>>)
      BY <3>1, ConcatAssociative, SMTT(60)
    <3> QED BY <3>1, <3>2, <3>3, <3>4 DEF p, q
  <2>3. /\ Levenshtein(a, p) <= Levenshtein(a, q) + 1 /\ Levenshtein(u, p) <= Levenshtein(u, q) + 1
        /\ Levenshtein(a, py) <= Levenshtein(a, qy) + 1
    <3>1. Fine(a, t) /\ Fine(u, t) /\ Fine(a, Append(t, y))
      BY <1>3
    <3> QED BY <2>2, <3>1
  <2> HIDE DEF p, q
  <2>4. /\ Levenshtein(a, q) \in Nat /\ Levenshtein(a, qy) \in Nat /\ Levenshtein(u, q) \in Nat /\ Levenshtein(u, qy) \in Nat
        /\ \/ Levenshtein(u, qy) = Levenshtein(a, q) + Cost(x, y) \/ Levenshtein(u, qy) = Levenshtein(a, qy) + 1
           \/ Levenshtein(u, qy) = Levenshtein(u, q) + 1
    BY <2>1, DistanceStep
  <2>5. /\ Levenshtein(a, p) \in Nat /\ Levenshtein(a, py) \in Nat /\ Levenshtein(u, p) \in Nat /\ Levenshtein(u, py) \in Nat
        /\ Levenshtein(u, py) <= Levenshtein(a, p) + Cost(x, y) /\ Levenshtein(u, py) <= Levenshtein(a, py) + 1
        /\ Levenshtein(u, py) <= Levenshtein(u, p) + 1
    BY <2>1, DistanceStep
  <2>6. Cost(x, y) \in Nat
    BY DEF Cost
  <2> HIDE DEF u, py, qy
  <2> HIDE DEF Fine, P
  <2>7. Levenshtein(u, py) <= Levenshtein(u, qy) + 1
    <3>1. CASE Levenshtein(u, qy) = Levenshtein(a, q) + Cost(x, y)
      <4> DEFINE k == Cost(x, y)
                 e == Levenshtein(a, p)
                 f == Levenshtein(a, q)
      <4>1. e \in Nat /\ f \in Nat /\ k \in Nat /\ e <= f + 1
        BY <2>3, <2>4, <2>5, <2>6
      <4>2. Levenshtein(u, py) <= e + k /\ Levenshtein(u, qy) = f + k /\ Levenshtein(u, py) \in Nat
        BY <2>5, <3>1
      <4> HIDE DEF k, e, f
      <4> QED BY <4>1, <4>2
    <3>2. CASE Levenshtein(u, qy) = Levenshtein(a, qy) + 1
      BY <2>3, <2>4, <2>5, <3>2
    <3>3. CASE Levenshtein(u, qy) = Levenshtein(u, q) + 1
      BY <2>3, <2>4, <2>5, <3>3
    <3> QED BY <2>4, <3>1, <3>2, <3>3
  <2>8. Fine(u, Append(t, y))
    BY <2>2, <2>7 DEF Fine, p, q
  <2>9. u \in Seq(L) /\ Append(t, y) \in Seq(L)
    BY AppendProperties DEF u
  <2>10. <<u, Append(t, y)>> \in P
    BY <2>8, <2>9 DEF P
  <2> QED BY <2>10 DEF u
<1>4. \A a, t \in Seq(L) : <<a, t>> \in P
  <2> HIDE DEF P
  <2> QED BY <1>1, <1>2, <1>3, EveryPair
<1>5. \A a \in Seq(L) : Fine(a, s)
  <2> HIDE DEF Fine
  <2> QED BY <1>4
<1> QED BY <1>5 DEF Beside

\* Wherever a letter or none stands for a letter or none, a message is at most one further.
LEMMA SwappedIsBeside ==
    ASSUME NEW L, NEW p \in Seq(L), NEW u \in Seq(L), NEW w \in Seq(L), NEW s \in Seq(L), Len(u) <= 1, Len(w) <= 1
    PROVE  Beside(L, (p \o u) \o s, (p \o w) \o s)
<1>1. ASSUME NEW v \in Seq(L), Len(v) <= 1 PROVE p \o v = p \/ \E y \in L : p \o v = Append(p, y)
  <2>1. CASE v = <<>>
    BY <2>1, ConcatEmptySeq
  <2>2. CASE v # <<>>
    <3>1. PICK f \in Seq(L), y \in L : v = Append(f, y) /\ Len(v) = Len(f) + 1
      BY <2>2, EndsSomehow
    <3>2. f = <<>>
      BY <1>1, <3>1, LenProperties, EmptySeq
    <3>3. v = <<y>>
      BY <3>1, <3>2
    <3>4. p \o v = Append(p, y)
      BY <3>3, AppendIsConcat
    <3> QED BY <3>4
  <2> QED BY <2>1, <2>2
<1>2. Beside(L, p \o u, p \o w)
  <2> DEFINE c == p \o u
             b == p \o w
  <2>1. c = p \/ \E y \in L : c = Append(p, y)
    BY <1>1
  <2>2. b = p \/ \E y \in L : b = Append(p, y)
    BY <1>1
  <2> HIDE DEF c, b
  <2>3. ASSUME NEW a \in Seq(L) PROVE Levenshtein(a, c) <= Levenshtein(a, b) + 1
    <3>1. Levenshtein(a, p) \in Nat
      BY DistanceIs
    <3>2. CASE c = p /\ b = p
      BY <3>1, <3>2
    <3>3. CASE c = p /\ b # p
      <4>1. PICK y \in L : b = Append(p, y)
        BY <2>2, <3>3
      <4> QED BY <3>3, <4>1, OneBack
    <3>4. CASE c # p /\ b = p
      <4>1. PICK y \in L : c = Append(p, y)
        BY <2>1, <3>4
      <4> QED BY <3>4, <4>1, OneFurther
    <3>5. CASE c # p /\ b # p
      <4>1. PICK y \in L : c = Append(p, y)
        BY <2>1, <3>5
      <4>2. PICK z \in L : b = Append(p, z)
        BY <2>2, <3>5
      <4> QED BY <4>1, <4>2, OneAside
    <3> QED BY <3>2, <3>3, <3>4, <3>5
  <2>4. Beside(L, c, b)
    BY <2>3 DEF Beside
  <2> QED BY <2>4 DEF c, b
<1>3. p \o u \in Seq(L) /\ p \o w \in Seq(L)
  BY ConcatProperties
<1> QED BY <1>2, <1>3, BesideOnward

-----------------------------------------------------------------------------
(* MessageScores: the letters that are compared                            *)

\* A letter is kept, in lower case, unless it is a blank.
KeptLetter(kept, c) == IF c = " " THEN kept ELSE Append(kept, LowerCase[c])

IsNormalFold(g, message, n) ==
    g = [S \in SUBSET (1..n) |-> IF S = {} THEN <<>> ELSE KeptLetter(g[S \ {Max(S)}], message[Max(S)])]

\* What is kept of the first letters of a message.
Keeping(v, message, n) == v[0] = <<>> /\ \A k \in 0..(n - 1) : v[k + 1] = KeptLetter(v[k], message[k + 1])

\* A letter kept or not leaves letters.
LEMMA KeptIsText ==
    ASSUME NEW s \in Seq(Letters), NEW c \in Letters
    PROVE  KeptLetter(s, c) \in Seq(Letters)
<1>1. LowerCase[c] \in Letters
  BY ScoresAssumption
<1> QED BY <1>1, AppendProperties DEF KeptLetter

\* A message is normalized letter by letter.
LEMMA NormalizedIsStepwise ==
    ASSUME NEW s \in Seq(Letters), NEW n, n = Len(s)
    PROVE  \E v \in [0..n -> Seq(Letters)] : Keeping(v, s, n) /\ Normalized(s) = v[n]
<1> DEFINE D == Seq(Letters)
           f == [se \in D \X Letters |-> KeptLetter(se[1], se[2])]
           iter == CHOOSE g : IsNormalFold(g, s, n)
<1>0. n \in Nat /\ DOMAIN s = 1..n /\ s \in [1..n -> Letters]
  BY LenProperties
<1>6. Normalized(s) = iter[1..n]
  BY <1>0 DEF Normalized, FoldLeft, MapThenFoldSet, IsNormalFold, KeptLetter
<1>2. f \in [D \X Letters -> D] /\ <<>> \in D
  <2>1. \A se \in D \X Letters : KeptLetter(se[1], se[2]) \in D
    BY KeptIsText
  <2>2. <<>> \in D
    BY EmptySeq
  <2> HIDE DEF D
  <2> QED BY <2>1, <2>2
<1>3. PICK g \in [SUBSET (1..n) -> D] : IsFold(g, f, s, <<>>, n)
  <2> HIDE DEF D, f
  <2> QED BY <1>0, <1>2, FoldIsDefined
<1>4. IsNormalFold(g, s, n)
  <2>1. ASSUME NEW S \in SUBSET (1..n), S # {}
        PROVE  f[<<g[S \ {Max(S)}], s[Max(S)]>>] = KeptLetter(g[S \ {Max(S)}], s[Max(S)])
    <3>1. Max(S) \in 1..n
      BY <1>0, <2>1, MaxIs
    <3>2. s[Max(S)] \in Letters
      BY <1>0, <3>1
    <3>3. g[S \ {Max(S)}] \in D
      BY <1>3
    <3> HIDE DEF D
    <3> QED BY <3>2, <3>3
  <2>2. g = [S \in SUBSET (1..n) |-> IF S = {} THEN <<>> ELSE f[<<g[S \ {Max(S)}], s[Max(S)]>>]]
    BY <1>3 DEF IsFold
  <2> HIDE DEF f, D
  <2>3. g = [S \in SUBSET (1..n) |-> IF S = {} THEN <<>> ELSE KeptLetter(g[S \ {Max(S)}], s[Max(S)])]
    BY <2>1, <2>2, Zenon
  <2> QED BY <2>3 DEF IsNormalFold
<1>5. IsNormalFold(iter, s, n)
  BY <1>4
<1> HIDE DEF iter
<1> DEFINE v == [k \in 0..n |-> iter[1..k]]
<1>7. v[0] = <<>>
  <2>1. 1..0 = {} /\ {} \in SUBSET (1..n) /\ 0 \in 0..n
    BY <1>0
  <2> QED BY <1>5, <2>1 DEF IsNormalFold
<1>8. ASSUME NEW k \in 0..(n - 1) PROVE v[k + 1] = KeptLetter(v[k], s[k + 1])
  <2>0. k \in 0..n /\ k + 1 \in 0..n /\ k + 1 \in 1..n
    BY <1>0
  <2>1. /\ 1..(k + 1) \in SUBSET (1..n) /\ 1..(k + 1) # {}
        /\ Max(1..(k + 1)) = k + 1 /\ (1..(k + 1)) \ {k + 1} = 1..k
    BY <1>0, Beginnings
  <2>2. iter[1..(k + 1)] = KeptLetter(iter[1..k], s[k + 1])
    BY <1>5, <2>1 DEF IsNormalFold
  <2> QED BY <2>0, <2>2
<1>9. v[n] = iter[1..n]
  BY <1>0
<1>10. v \in [0..n -> D]
  <2> DEFINE P == {k \in 0..n : v[k] \in D}
  <2>3. <<>> \in D
    BY <1>2
  <2> HIDE DEF v
  <2>1. 0 \in P
    <3> HIDE DEF D
    <3> QED BY <1>0, <1>7, <2>3
  <2>2. ASSUME NEW k \in 0..(n - 1), k \in P PROVE k + 1 \in P
    <3>1. s[k + 1] \in Letters /\ k + 1 \in 0..n
      BY <1>0
    <3>2. KeptLetter(v[k], s[k + 1]) \in D
      BY <2>2, <3>1, KeptIsText
    <3> QED BY <1>8, <3>1, <3>2
  <2>4. P = 0..n
    <3>1. P \in SUBSET (0..n)
      OBVIOUS
    <3> HIDE DEF P
    <3> QED BY <1>0, <2>1, <2>2, <3>1, Throughout
  <2>5. \A k \in 0..n : v[k] \in D
    BY <2>4
  <2> QED BY <2>5 DEF v
<1> HIDE DEF v
<1> QED BY <1>6, <1>7, <1>8, <1>9, <1>10 DEF Keeping

\* By the last letter of a message.
LEMMA NormalizedIs ==
    ASSUME NEW s \in Seq(Letters)
    PROVE  /\ Normalized(<<>>) = <<>> /\ Normalized(s) \in Seq(Letters)
           /\ \A c \in Letters : Normalized(Append(s, c)) = KeptLetter(Normalized(s), c)
<1> DEFINE n == Len(s)
<1>0. n \in Nat
  BY LenProperties
<1>1. PICK v \in [0..n -> Seq(Letters)] : Keeping(v, s, n) /\ Normalized(s) = v[n]
  BY NormalizedIsStepwise
<1>2. Normalized(s) \in Seq(Letters)
  BY <1>0, <1>1
<1>3. Normalized(<<>>) = <<>>
  <2>1. <<>> \in Seq(Letters) /\ Len(<<>>) = 0
    BY EmptySeq
  <2>2. PICK w \in [0..0 -> Seq(Letters)] : Keeping(w, <<>>, 0) /\ Normalized(<<>>) = w[0]
    BY <2>1, NormalizedIsStepwise
  <2> QED BY <2>2 DEF Keeping
<1>4. ASSUME NEW c \in Letters PROVE Normalized(Append(s, c)) = KeptLetter(Normalized(s), c)
  <2> DEFINE t == Append(s, c)
  <2>1. t \in Seq(Letters) /\ Len(t) = n + 1 /\ t[n + 1] = c /\ \A i \in 1..n : t[i] = s[i]
    BY AppendProperties
  <2> HIDE DEF t, n
  <2>2. PICK w \in [0..(n + 1) -> Seq(Letters)] : Keeping(w, t, n + 1) /\ Normalized(t) = w[n + 1]
    BY <2>1, NormalizedIsStepwise
  <2> DEFINE P == {k \in 0..n : v[k] = w[k]}
  <2>3. 0 \in P
    BY <1>0, <1>1, <2>2 DEF Keeping
  <2>4. ASSUME NEW k \in 0..(n - 1), k \in P PROVE k + 1 \in P
    <3>1. k + 1 \in 0..n /\ k + 1 \in 1..n /\ k \in 0..((n + 1) - 1)
      BY <1>0
    <3>2. v[k + 1] = KeptLetter(v[k], s[k + 1]) /\ w[k + 1] = KeptLetter(w[k], t[k + 1])
      BY <1>1, <2>2, <3>1 DEF Keeping
    <3> QED BY <2>1, <2>4, <3>1, <3>2
  <2>5. P = 0..n
    <3>1. P \in SUBSET (0..n)
      OBVIOUS
    <3> HIDE DEF P
    <3> QED BY <1>0, <2>3, <2>4, <3>1, Throughout
  <2>6. v[n] = w[n] /\ n \in 0..((n + 1) - 1)
    <3>1. n \in 0..n /\ n \in 0..((n + 1) - 1)
      BY <1>0
    <3>2. n \in P
      BY <2>5, <3>1
    <3> QED BY <3>1, <3>2
  <2>7. w[n + 1] = KeptLetter(w[n], t[n + 1])
    BY <2>2, <2>6 DEF Keeping
  <2> QED BY <1>1, <2>1, <2>2, <2>6, <2>7 DEF t
<1> QED BY <1>2, <1>3, <1>4

\* Part by part.
LEMMA NormalizedConcat ==
    ASSUME NEW p \in Seq(Letters), NEW s \in Seq(Letters)
    PROVE  Normalized(p \o s) = Normalized(p) \o Normalized(s)
<1> DEFINE Fine(t) == Normalized(p \o t) = Normalized(p) \o Normalized(t)
           P == {t \in Seq(Letters) : Fine(t)}
<1>0. Normalized(p) \in Seq(Letters) /\ Normalized(<<>>) = <<>>
  BY NormalizedIs
<1>1. Fine(<<>>)
  BY <1>0, ConcatEmptySeq
<1>2. ASSUME NEW t \in Seq(Letters), NEW c \in Letters, Fine(t) PROVE Fine(Append(t, c))
  <2> DEFINE np == Normalized(p)
             nt == Normalized(t)
             l == LowerCase[c]
  <2>1. /\ Normalized(Append(t, c)) = KeptLetter(nt, c) /\ nt \in Seq(Letters) /\ l \in Letters
    BY NormalizedIs, ScoresAssumption
  <2>2. p \o Append(t, c) = Append(p \o t, c) /\ p \o t \in Seq(Letters)
    <3>1. p \o t \in Seq(Letters) /\ <<c>> \in Seq(Letters)
      BY ConcatProperties
    <3>2. Append(t, c) = t \o <<c>> /\ Append(p \o t, c) = (p \o t) \o <<c>>
      BY <3>1, AppendIsConcat
    <3> QED BY <3>1, <3>2, ConcatAssociative
  <2>3. Normalized(p \o Append(t, c)) = KeptLetter(np \o nt, c)
    BY <1>2, <2>2, NormalizedIs
  <2> HIDE DEF np, nt, l
  <2>4. np \o Append(nt, l) = Append(np \o nt, l)
    <3>0. np \in Seq(Letters)
      BY <1>0 DEF np
    <3>1. np \o nt \in Seq(Letters) /\ <<l>> \in Seq(Letters)
      BY <2>1, <3>0, ConcatProperties
    <3>2. Append(nt, l) = nt \o <<l>> /\ Append(np \o nt, l) = (np \o nt) \o <<l>>
      BY <2>1, <3>1, AppendIsConcat
    <3> QED BY <2>1, <3>0, <3>1, <3>2, ConcatAssociative
  <2>5. KeptLetter(np \o nt, c) = np \o KeptLetter(nt, c)
    BY <2>4 DEF KeptLetter, l
  <2> QED BY <2>1, <2>3, <2>5 DEF np
<1>3. \A t \in Seq(Letters) : t \in P
  <2> HIDE DEF Fine
  <2>1. <<>> \in P
    BY <1>1, EmptySeq
  <2>2. \A t \in P : \A c \in Letters : Append(t, c) \in P
    BY <1>2, AppendProperties
  <2>3. P \in SUBSET Seq(Letters)
    OBVIOUS
  <2> HIDE DEF P
  <2> QED BY <2>1, <2>2, <2>3, EveryMessage
<1> QED BY <1>3

\* At most one letter stays at most one.
LEMMA NormalizedIsShort ==
    ASSUME NEW u \in Seq(Letters), Len(u) <= 1
    PROVE  Normalized(u) \in Seq(Letters) /\ Len(Normalized(u)) <= 1
<1>0. Normalized(u) \in Seq(Letters) /\ Normalized(<<>>) = <<>> /\ Len(<<>>) = 0 /\ <<>> \in Seq(Letters)
  BY NormalizedIs, EmptySeq
<1>1. CASE u = <<>>
  BY <1>0, <1>1
<1>2. CASE u # <<>>
  <2>1. PICK f \in Seq(Letters), c \in Letters : u = Append(f, c) /\ Len(u) = Len(f) + 1
    BY <1>2, EndsSomehow
  <2>2. f = <<>>
    BY <2>1, LenProperties, EmptySeq
  <2>3. Normalized(u) = KeptLetter(<<>>, c)
    BY <1>0, <2>1, <2>2, NormalizedIs
  <2>4. LowerCase[c] \in Letters
    BY ScoresAssumption
  <2>5. Len(Append(<<>>, LowerCase[c])) = 1
    BY <1>0, <2>4, AppendProperties
  <2>6. Normalized(u) = <<>> \/ Normalized(u) = Append(<<>>, LowerCase[c])
    BY <2>3 DEF KeptLetter
  <2> QED BY <1>0, <2>5, <2>6
<1> QED BY <1>1, <1>2

-----------------------------------------------------------------------------
(* MessageScores: one change                                               *)

\* A letter or none stands for a letter or none, not none for none.
Swap(b, c, p, u, w, s) ==
    /\ b = (p \o w) \o s /\ c = (p \o u) \o s
    /\ Len(u) <= 1 /\ Len(w) <= 1 /\ Len(u) + Len(w) >= 1

\* The two parts of a message.
LEMMA BothParts ==
    ASSUME NEW L, NEW p \in Seq(L), NEW s \in Seq(L)
    PROVE  /\ p \o s \in Seq(L) /\ Len(p \o s) = Len(p) + Len(s) /\ Len(p) \in Nat /\ Len(s) \in Nat
           /\ SubSeq(p \o s, 1, Len(p)) = p
           /\ SubSeq(p \o s, Len(p) + 1, Len(p \o s)) = s
<1> DEFINE m == p \o s
           a == SubSeq(m, 1, Len(p))
           b == SubSeq(m, Len(p) + 1, Len(m))
<1>1. Len(p) \in Nat /\ Len(s) \in Nat
  BY LenProperties
<1>2. /\ m \in Seq(L) /\ Len(m) = Len(p) + Len(s)
      /\ \A i \in 1..(Len(p) + Len(s)) : m[i] = IF i <= Len(p) THEN p[i] ELSE s[i - Len(p)]
  BY ConcatProperties
<1> HIDE DEF m
<1>3. /\ a \in Seq(L) /\ Len(a) = (IF 1 <= Len(p) THEN Len(p) - 1 + 1 ELSE 0)
      /\ \A i \in 1..(Len(p) - 1 + 1) : a[i] = m[1 + i - 1]
  <2>1. 1 \in Nat \ {0} /\ Len(p) \in Int /\ Len(p) <= Len(m)
    BY <1>1, <1>2
  <2> QED BY <1>2, <2>1, PartIs
<1>4. /\ b \in Seq(L) /\ Len(b) = (IF Len(p) + 1 <= Len(m) THEN Len(m) - (Len(p) + 1) + 1 ELSE 0)
      /\ \A i \in 1..(Len(m) - (Len(p) + 1) + 1) : b[i] = m[(Len(p) + 1) + i - 1]
  <2>1. Len(p) + 1 \in Nat \ {0} /\ Len(m) \in Int /\ Len(m) <= Len(m)
    BY <1>1, <1>2
  <2> QED BY <1>2, <2>1, PartIs
<1> HIDE DEF a, b
<1>5. a = p
  <2>1. Len(a) = Len(p)
    BY <1>1, <1>3
  <2>2. ASSUME NEW i \in 1..Len(a) PROVE a[i] = p[i]
    <3>1. i \in 1..(Len(p) - 1 + 1) /\ 1 + i - 1 = i /\ i \in 1..(Len(p) + Len(s)) /\ i <= Len(p)
      BY <1>1, <2>1
    <3> QED BY <1>2, <1>3, <3>1
  <2> QED BY <1>3, <2>1, <2>2, SeqEqual
<1>6. b = s
  <2>1. Len(b) = Len(s)
    BY <1>1, <1>2, <1>4
  <2>2. ASSUME NEW i \in 1..Len(b) PROVE b[i] = s[i]
    <3>1. /\ i \in 1..(Len(m) - (Len(p) + 1) + 1) /\ (Len(p) + 1) + i - 1 = Len(p) + i
          /\ Len(p) + i \in 1..(Len(p) + Len(s)) /\ ~(Len(p) + i <= Len(p)) /\ (Len(p) + i) - Len(p) = i
      BY <1>1, <1>2, <2>1
    <3>2. m[Len(p) + i] = s[(Len(p) + i) - Len(p)]
      BY <1>2, <3>1
    <3> QED BY <1>4, <3>1, <3>2
  <2> QED BY <1>4, <2>1, <2>2, SeqEqual
<1> QED BY <1>1, <1>2, <1>5, <1>6 DEF a, b, m

\* A message of one letter or none.
LEMMA AtMostOne ==
    ASSUME NEW L, NEW u \in Seq(L), Len(u) <= 1
    PROVE  u = <<>> \/ \E x \in L : u = <<x>>
<1>1. CASE u = <<>>
  BY <1>1
<1>2. CASE u # <<>>
  <2>1. PICK f \in Seq(L), x \in L : u = Append(f, x) /\ Len(u) = Len(f) + 1
    BY <1>2, EndsSomehow
  <2>2. f = <<>>
    BY <2>1, LenProperties, EmptySeq
  <2> QED BY <2>1, <2>2
<1> QED BY <1>1, <1>2

\* A message with another letter in one place.
PutAt(b, i, x) == [b EXCEPT ![i] = x]

\* To put a letter in the place of another.
LEMMA ReplacedIs ==
    ASSUME NEW L, NEW p \in Seq(L), NEW s \in Seq(L), NEW x \in L, NEW y \in L
    PROVE  PutAt((p \o <<y>>) \o s, Len(p) + 1, x) = (p \o <<x>>) \o s
<1> DEFINE b == (p \o <<y>>) \o s
           c == (p \o <<x>>) \o s
           e == [b EXCEPT ![Len(p) + 1] = x]
           n == Len(p)
           m == Len(s)
<1>1. n \in Nat /\ m \in Nat
  BY LenProperties
<1>2. /\ p \o <<y>> = Append(p, y) /\ p \o <<x>> = Append(p, x)
      /\ Append(p, y) \in Seq(L) /\ Len(Append(p, y)) = n + 1 /\ Append(p, x) \in Seq(L) /\ Len(Append(p, x)) = n + 1
      /\ (\A i \in 1..n : Append(p, y)[i] = p[i] /\ Append(p, x)[i] = p[i])
      /\ Append(p, x)[n + 1] = x
  BY AppendIsConcat, AppendProperties
<1>3. /\ b \in Seq(L) /\ Len(b) = (n + 1) + m
      /\ \A i \in 1..((n + 1) + m) : b[i] = IF i <= n + 1 THEN Append(p, y)[i] ELSE s[i - (n + 1)]
  BY <1>2, ConcatProperties
<1>4. /\ c \in Seq(L) /\ Len(c) = (n + 1) + m
      /\ \A i \in 1..((n + 1) + m) : c[i] = IF i <= n + 1 THEN Append(p, x)[i] ELSE s[i - (n + 1)]
  BY <1>2, ConcatProperties
<1> HIDE DEF b, c, n, m
<1>5. e \in Seq(L) /\ Len(e) = Len(b) /\ \A j \in 1..Len(b) : e[j] = IF j = n + 1 THEN x ELSE b[j]
  <2>1. n + 1 \in 1..Len(b)
    BY <1>1, <1>3
  <2>2. /\ [b EXCEPT ![n + 1] = x] \in Seq(L) /\ Len([b EXCEPT ![n + 1] = x]) = Len(b)
        /\ \A j \in 1..Len(b) : [b EXCEPT ![n + 1] = x][j] = IF j = n + 1 THEN x ELSE b[j]
    BY <1>3, <2>1, ExceptSeq
  <2>3. e = [b EXCEPT ![n + 1] = x]
    BY DEF n
  <2> HIDE DEF e
  <2> QED BY <2>2, <2>3, Zenon
<1> HIDE DEF e
<1>6. ASSUME NEW i \in 1..Len(e) PROVE e[i] = c[i]
  <2>1. i \in 1..((n + 1) + m) /\ i \in 1..Len(b)
    BY <1>3, <1>5
  <2>2. CASE i = n + 1
    <3>1. c[i] = Append(p, x)[i]
      <4>1. i <= n + 1
        BY <1>1, <2>2
      <4> QED BY <1>4, <2>1, <4>1
    <3> QED BY <1>2, <1>5, <2>1, <2>2, <3>1
  <2>3. CASE i # n + 1 /\ i <= n + 1
    <3>1. i \in 1..n
      BY <1>1, <2>1, <2>3
    <3>2. b[i] = Append(p, y)[i] /\ c[i] = Append(p, x)[i] /\ e[i] = b[i]
      BY <1>3, <1>4, <1>5, <2>1, <2>3
    <3> QED BY <1>2, <3>1, <3>2
  <2>4. CASE ~(i <= n + 1)
    <3>1. i # n + 1
      BY <1>1, <2>4
    <3> QED BY <1>3, <1>4, <1>5, <2>1, <2>4, <3>1
  <2> QED BY <2>2, <2>3, <2>4
<1>7. e = c
  BY <1>3, <1>4, <1>5, <1>6, SeqEqual
<1>8. c = PutAt(b, n + 1, x)
  BY <1>7 DEF PutAt, e, n
<1> QED BY <1>8 DEF b, c, n

\* Every swap is a change.
LEMMA SwapIsChange ==
    ASSUME NEW b, NEW c, NEW p \in Seq(Letters), NEW u \in Seq(Letters), NEW w \in Seq(Letters), NEW s \in Seq(Letters),
           Swap(b, c, p, u, w, s)
    PROVE  c \in Changed(b)
<1>0. Len(<<>>) = 0 /\ <<>> \in Seq(Letters) /\ (\A x \in Letters : <<x>> \in Seq(Letters) /\ Len(<<x>>) = 1)
  BY EmptySeq
<1>1. (u = <<>> \/ \E x \in Letters : u = <<x>>) /\ (w = <<>> \/ \E y \in Letters : w = <<y>>)
  BY AtMostOne DEF Swap
<1>2. u # <<>> \/ w # <<>>
  BY <1>0 DEF Swap
<1> DEFINE n == Len(p)
           m == Len(s)
<1>3. n \in Nat /\ m \in Nat
  BY LenProperties
<1>4. CASE w = <<>>
  <2>1. PICK x \in Letters : u = <<x>>
    BY <1>1, <1>2, <1>4
  <2>2. b = p \o s /\ c = (p \o <<x>>) \o s
    BY <1>4, <2>1, ConcatEmptySeq DEF Swap
  <2>3. b \in Seq(Letters) /\ Len(b) = n + m /\ SubSeq(b, 1, n) = p /\ SubSeq(b, n + 1, Len(b)) = s
    BY <2>2, BothParts
  <2>4. n + 1 \in 1..(Len(b) + 1) /\ (n + 1) - 1 = n
    BY <1>3, <2>3
  <2>5. c = InsertAt(b, n + 1, x)
    BY <2>2, <2>3, <2>4 DEF InsertAt
  <2> HIDE DEF n
  <2> QED BY <2>4, <2>5 DEF Changed
<1>5. CASE w # <<>>
  <2>1. PICK y \in Letters : w = <<y>>
    BY <1>1, <1>5
  <2> DEFINE q == p \o <<y>>
             r == <<y>> \o s
  <2>2. b = q \o s /\ c = (p \o u) \o s
    BY <2>1 DEF Swap
  <2>3. q \in Seq(Letters) /\ Len(q) = n + 1 /\ r \in Seq(Letters) /\ b = p \o r
    BY <1>0, <2>2, ConcatProperties, ConcatAssociative
  <2>4. b \in Seq(Letters) /\ Len(b) = (n + 1) + m /\ SubSeq(b, (n + 1) + 1, Len(b)) = s
    <3>1. SubSeq(q \o s, Len(q) + 1, Len(q \o s)) = s /\ Len(q \o s) = Len(q) + m /\ q \o s \in Seq(Letters)
      BY <2>3, BothParts
    <3> HIDE DEF q, n, m
    <3> QED BY <2>2, <2>3, <3>1
  <2>5. SubSeq(b, 1, n) = p
    BY <2>3, BothParts
  <2>6. n + 1 \in DOMAIN b /\ (n + 1) - 1 = n
    BY <1>3, <2>4, LenProperties
  <2>7. CASE u = <<>>
    <3>1. c = p \o s
      BY <2>2, <2>7, ConcatEmptySeq
    <3>2. c = RemoveAt(b, n + 1)
      BY <2>4, <2>5, <2>6, <3>1 DEF RemoveAt
    <3> HIDE DEF n
    <3> QED BY <2>6, <3>2 DEF Changed
  <2>8. CASE u # <<>>
    <3>1. PICK x \in Letters : u = <<x>>
      BY <1>1, <2>8
    <3>2. c = PutAt(b, n + 1, x)
      <4>1. PutAt((p \o <<y>>) \o s, Len(p) + 1, x) = (p \o <<x>>) \o s
        BY ReplacedIs
      <4>2. b = (p \o <<y>>) \o s /\ c = (p \o <<x>>) \o s
        BY <2>2, <3>1
      <4> QED BY <4>1, <4>2, Zenon
    <3> HIDE DEF n
    <3>3. c \in {PutAt(b, i, z) : i \in DOMAIN b, z \in Letters}
      BY <2>6, <3>2
    <3>4. c \in {[b EXCEPT ![i] = z] : i \in DOMAIN b, z \in Letters}
      BY <3>3 DEF PutAt
    <3> QED BY <3>4 DEF Changed
  <2> QED BY <2>7, <2>8
<1> QED BY <1>4, <1>5

\* Every change is a swap.
LEMMA ChangeIsSwap ==
    ASSUME NEW b \in Seq(Letters), NEW c \in Changed(b)
    PROVE  \E p, u, w, s \in Seq(Letters) : Swap(b, c, p, u, w, s)
<1> DEFINE n == Len(b)
<1>0. n \in Nat /\ DOMAIN b = 1..n /\ (\A i \in 1..n : b[i] \in Letters)
  BY LenProperties, ElementOfSeq
<1>1. Len(<<>>) = 0 /\ <<>> \in Seq(Letters) /\ (\A x \in Letters : <<x>> \in Seq(Letters) /\ Len(<<x>>) = 1)
  BY EmptySeq
<1>2. ASSUME NEW i \in 1..(n + 1)
      PROVE  /\ SubSeq(b, 1, i - 1) \in Seq(Letters) /\ SubSeq(b, i, n) \in Seq(Letters)
             /\ b = SubSeq(b, 1, i - 1) \o SubSeq(b, i, n)
  <2>1. i - 1 \in Int /\ i - 1 <= n /\ i \in Nat \ {0} /\ n \in Int /\ 1 \in Nat \ {0} /\ n <= n
    BY <1>0
  <2>2. SubSeq(b, 1, i - 1) \in Seq(Letters) /\ SubSeq(b, i, n) \in Seq(Letters)
    BY <2>1, PartIs
  <2>3. SubSeq(b, 1, i - 1) \o SubSeq(b, (i - 1) + 1, n) = SubSeq(b, 1, n)
    <3>1. 1 \in 1..(n + 1) /\ i - 1 \in (1 - 1)..n /\ n \in (i - 1)..n
      BY <1>0
    <3> QED BY <3>1, ConcatAdjacentSubSeq
  <2>4. SubSeq(b, 1, n) = b /\ (i - 1) + 1 = i
    BY <1>0, SubSeqFull
  <2> QED BY <2>2, <2>3, <2>4
<1>3. ASSUME NEW i \in 1..n
      PROVE  /\ SubSeq(b, 1, i - 1) \in Seq(Letters) /\ SubSeq(b, i + 1, n) \in Seq(Letters) /\ b[i] \in Letters
             /\ b = (SubSeq(b, 1, i - 1) \o <<b[i]>>) \o SubSeq(b, i + 1, n)
             /\ Len(SubSeq(b, 1, i - 1)) = i - 1
  <2>1. i \in 1..(n + 1) /\ i + 1 \in 1..(n + 1) /\ n \in i..n /\ b[i] \in Letters
    BY <1>0
  <2>2. SubSeq(b, i, n) = <<b[i]>> \o SubSeq(b, i + 1, n)
    BY <2>1, SubSeqRecursiveFirst
  <2>3. /\ SubSeq(b, 1, i - 1) \in Seq(Letters) /\ SubSeq(b, i + 1, n) \in Seq(Letters)
        /\ b = SubSeq(b, 1, i - 1) \o SubSeq(b, i, n) /\ <<b[i]>> \in Seq(Letters)
    BY <1>1, <1>2, <2>1
  <2>4. SubSeq(b, 1, i - 1) \o (<<b[i]>> \o SubSeq(b, i + 1, n)) = (SubSeq(b, 1, i - 1) \o <<b[i]>>) \o SubSeq(b, i + 1, n)
    <3> DEFINE p == SubSeq(b, 1, i - 1)
               s == SubSeq(b, i + 1, n)
               w == <<b[i]>>
    <3>1. p \in Seq(Letters) /\ s \in Seq(Letters) /\ w \in Seq(Letters)
      BY <2>3
    <3> HIDE DEF p, s, w
    <3>2. (p \o w) \o s = p \o (w \o s)
      BY <3>1, ConcatAssociative, SMTT(60)
    <3> QED BY <3>2 DEF p, s, w
  <2>5. Len(SubSeq(b, 1, i - 1)) = i - 1
    <3>1. i - 1 \in Int /\ i - 1 <= n /\ 1 \in Nat \ {0}
      BY <1>0
    <3>2. Len(SubSeq(b, 1, i - 1)) = IF 1 <= i - 1 THEN (i - 1) - 1 + 1 ELSE 0
      BY <3>1, PartIs
    <3> QED BY <1>0, <3>2
  <2> QED BY <2>1, <2>2, <2>3, <2>4, <2>5
<1>4. CASE \E i \in 1..(Len(b) + 1), x \in Letters : c = InsertAt(b, i, x)
  <2>1. PICK i \in 1..(n + 1), x \in Letters : c = InsertAt(b, i, x)
    BY <1>4
  <2> DEFINE p == SubSeq(b, 1, i - 1)
             s == SubSeq(b, i, n)
  <2>2. p \in Seq(Letters) /\ s \in Seq(Letters) /\ b = p \o s
    BY <1>2
  <2>3. c = (p \o <<x>>) \o s
    BY <2>1 DEF InsertAt
  <2> HIDE DEF p, s
  <2>4. Swap(b, c, p, <<x>>, <<>>, s)
    BY <1>1, <2>2, <2>3, ConcatEmptySeq DEF Swap
  <2> QED BY <1>1, <2>2, <2>4
<1>5. CASE \E i \in DOMAIN b : c = RemoveAt(b, i)
  <2>1. PICK i \in 1..n : c = RemoveAt(b, i)
    BY <1>0, <1>5
  <2> DEFINE p == SubSeq(b, 1, i - 1)
             s == SubSeq(b, i + 1, n)
             w == <<b[i]>>
  <2>2. p \in Seq(Letters) /\ s \in Seq(Letters) /\ w \in Seq(Letters) /\ Len(w) = 1 /\ b = (p \o w) \o s
    BY <1>1, <1>3
  <2>3. c = p \o s
    BY <2>1 DEF RemoveAt
  <2> HIDE DEF p, s, w
  <2>4. Swap(b, c, p, <<>>, w, s)
    BY <1>1, <2>2, <2>3, ConcatEmptySeq DEF Swap
  <2> QED BY <1>1, <2>2, <2>4
<1>6. CASE \E i \in DOMAIN b, x \in Letters : c = [b EXCEPT ![i] = x]
  <2>1. PICK i \in 1..n, x \in Letters : c = [b EXCEPT ![i] = x]
    BY <1>0, <1>6
  <2> DEFINE p == SubSeq(b, 1, i - 1)
             s == SubSeq(b, i + 1, n)
             w == <<b[i]>>
  <2>2. /\ p \in Seq(Letters) /\ s \in Seq(Letters) /\ w \in Seq(Letters) /\ Len(w) = 1 /\ b = (p \o w) \o s
        /\ Len(p) + 1 = i /\ b[i] \in Letters
    <3>1. p \in Seq(Letters) /\ s \in Seq(Letters) /\ b[i] \in Letters /\ b = (p \o w) \o s /\ Len(p) = i - 1
      BY <1>3
    <3> HIDE DEF p, s
    <3>2. w \in Seq(Letters) /\ Len(w) = 1
      BY <1>1, <3>1
    <3>3. Len(p) + 1 = i
      BY <1>0, <3>1
    <3> HIDE DEF w
    <3> QED BY <3>1, <3>2, <3>3
  <2> HIDE DEF p, s
  <2>3. PutAt((p \o <<b[i]>>) \o s, Len(p) + 1, x) = (p \o <<x>>) \o s
    <3>1. \A y \in Letters : PutAt((p \o <<y>>) \o s, Len(p) + 1, x) = (p \o <<x>>) \o s
      <4>1. p \in Seq(Letters) /\ s \in Seq(Letters)
        BY <2>2
      <4> SUFFICES ASSUME NEW y \in Letters PROVE PutAt((p \o <<y>>) \o s, Len(p) + 1, x) = (p \o <<x>>) \o s
        OBVIOUS
      <4> QED BY <4>1, ReplacedIs
    <3> QED BY <2>2, <3>1, Zenon
  <2>4. c = (p \o <<x>>) \o s
    BY <2>1, <2>2, <2>3, Zenon DEF PutAt
  <2> HIDE DEF w
  <2>5. Swap(b, c, p, <<x>>, w, s)
    BY <1>1, <2>2, <2>4 DEF Swap
  <2> QED BY <1>1, <2>2, <2>5
<1> QED BY <1>4, <1>5, <1>6 DEF Changed

\* One change brings a message at most one nearer to any other, and at most one further.
LEMMA ChangeIsBeside ==
    ASSUME NEW b \in Seq(Letters), NEW c \in Changed(b)
    PROVE  Beside(Letters, b, c) /\ Beside(Letters, c, b)
<1>1. PICK p \in Seq(Letters), u \in Seq(Letters), w \in Seq(Letters), s \in Seq(Letters) : Swap(b, c, p, u, w, s)
  BY ChangeIsSwap
<1>2. Beside(Letters, (p \o u) \o s, (p \o w) \o s) /\ Beside(Letters, (p \o w) \o s, (p \o u) \o s)
  BY <1>1, SwappedIsBeside DEF Swap
<1> QED BY <1>1, <1>2 DEF Swap

\* So it does when only the letters that are compared count.
LEMMA ChangeOfNormalized ==
    ASSUME NEW b \in Seq(Letters), NEW c \in Changed(b)
    PROVE  Beside(Letters, Normalized(c), Normalized(b))
<1>1. PICK p \in Seq(Letters), u \in Seq(Letters), w \in Seq(Letters), s \in Seq(Letters) : Swap(b, c, p, u, w, s)
  BY ChangeIsSwap
<1>2. p \o w \in Seq(Letters) /\ p \o u \in Seq(Letters)
  BY ConcatProperties
<1>3. /\ Normalized(b) = (Normalized(p) \o Normalized(w)) \o Normalized(s)
      /\ Normalized(c) = (Normalized(p) \o Normalized(u)) \o Normalized(s)
  <2>1. b = (p \o w) \o s /\ c = (p \o u) \o s
    BY <1>1 DEF Swap
  <2>2. /\ Normalized((p \o w) \o s) = Normalized(p \o w) \o Normalized(s)
        /\ Normalized((p \o u) \o s) = Normalized(p \o u) \o Normalized(s)
    BY <1>2, NormalizedConcat
  <2>3. Normalized(p \o w) = Normalized(p) \o Normalized(w) /\ Normalized(p \o u) = Normalized(p) \o Normalized(u)
    BY NormalizedConcat
  <2> QED BY <2>1, <2>2, <2>3
<1>4. /\ Normalized(p) \in Seq(Letters) /\ Normalized(s) \in Seq(Letters)
      /\ Normalized(u) \in Seq(Letters) /\ Len(Normalized(u)) <= 1
      /\ Normalized(w) \in Seq(Letters) /\ Len(Normalized(w)) <= 1
  BY <1>1, NormalizedIs, NormalizedIsShort DEF Swap
<1> QED BY <1>3, <1>4, SwappedIsBeside

-----------------------------------------------------------------------------
(* MessageScores: the distance is a number of changes                      *)

\* A change may be made at the end, and before the last letter.
LEMMA ChangesAtTheEnd ==
    ASSUME NEW t \in Seq(Letters), NEW y \in Letters
    PROVE  /\ t \in Changed(Append(t, y))
           /\ \A x \in Letters : Append(t, x) \in Changed(t) /\ Append(t, x) \in Changed(Append(t, y))
           /\ \A c \in Changed(t) : c \in Seq(Letters) /\ Append(c, y) \in Changed(Append(t, y))
<1>1. Len(<<>>) = 0 /\ <<>> \in Seq(Letters) /\ (\A x \in Letters : <<x>> \in Seq(Letters) /\ Len(<<x>>) = 1)
  BY EmptySeq
<1>2. \A x \in Letters : Append(t, x) = (t \o <<x>>) \o <<>>
  <2> SUFFICES ASSUME NEW x \in Letters PROVE Append(t, x) = (t \o <<x>>) \o <<>>
    OBVIOUS
  <2>1. Append(t, x) \in Seq(Letters) /\ Append(t, x) = t \o <<x>>
    BY AppendProperties, AppendIsConcat
  <2> QED BY <2>1, ConcatEmptySeq
<1>3. t = (t \o <<>>) \o <<>>
  BY ConcatEmptySeq
<1>4. Swap(Append(t, y), t, t, <<>>, <<y>>, <<>>)
  BY <1>1, <1>2, <1>3 DEF Swap
<1>5. ASSUME NEW x \in Letters
      PROVE  Swap(t, Append(t, x), t, <<x>>, <<>>, <<>>) /\ Swap(Append(t, y), Append(t, x), t, <<x>>, <<y>>, <<>>)
  BY <1>1, <1>2, <1>3 DEF Swap
<1>6. ASSUME NEW c \in Changed(t) PROVE c \in Seq(Letters) /\ Append(c, y) \in Changed(Append(t, y))
  <2>1. PICK p \in Seq(Letters), u \in Seq(Letters), w \in Seq(Letters), s \in Seq(Letters) : Swap(t, c, p, u, w, s)
    BY ChangeIsSwap
  <2>2. c \in Seq(Letters)
    BY ChangedIsText
  <2>3. p \o w \in Seq(Letters) /\ p \o u \in Seq(Letters) /\ s \o <<y>> \in Seq(Letters)
    BY <1>1, ConcatProperties
  <2>4. Append(t, y) = t \o <<y>> /\ Append(c, y) = c \o <<y>>
    BY <2>2, AppendIsConcat
  <2>5. ((p \o w) \o s) \o <<y>> = (p \o w) \o (s \o <<y>>) /\ ((p \o u) \o s) \o <<y>> = (p \o u) \o (s \o <<y>>)
    <3>1. <<y>> \in Seq(Letters)
      BY <1>1
    <3>2. ((p \o w) \o s) \o <<y>> = (p \o w) \o (s \o <<y>>)
      BY <2>3, <3>1, ConcatAssociative, SMTT(60)
    <3>3. ((p \o u) \o s) \o <<y>> = (p \o u) \o (s \o <<y>>)
      BY <2>3, <3>1, ConcatAssociative, SMTT(60)
    <3> QED BY <3>2, <3>3
  <2>6. Swap(Append(t, y), Append(c, y), p, u, w, s \o <<y>>)
    BY <2>1, <2>4, <2>5 DEF Swap
  <2>7. Append(c, y) \in Changed(Append(t, y))
    BY <2>3, <2>6, SwapIsChange
  <2> QED BY <2>2, <2>7
<1> QED BY <1>1, <1>4, <1>5, <1>6, SwapIsChange

\* Some one change brings the message nearer.
Nearer(a, b) == Levenshtein(a, b) > 0 => \E c \in Changed(b) : Levenshtein(a, c) + 1 <= Levenshtein(a, b)

\* As long as two messages differ, one can be changed towards the other.
LEMMA OneChangeIsNearer ==
    ASSUME NEW a \in Seq(Letters), NEW b \in Seq(Letters)
    PROVE  Nearer(a, b)
<1> DEFINE P == {ab \in Seq(Letters) \X Seq(Letters) : Nearer(ab[1], ab[2])}
<1>1. ASSUME NEW t \in Seq(Letters) PROVE <<<<>>, t>> \in P
  <2>1. Levenshtein(<<>>, t) = Len(t) /\ <<>> \in Seq(Letters)
    BY DistanceIs, EmptySeq
  <2>2. CASE t = <<>>
    <3>1. Levenshtein(<<>>, t) = 0
      BY <2>1, <2>2, EmptySeq
    <3> QED BY <2>1, <3>1 DEF Nearer
  <2>3. CASE t # <<>>
    <3>1. PICK f \in Seq(Letters), y \in Letters : t = Append(f, y) /\ Len(t) = Len(f) + 1
      BY <2>3, EndsSomehow
    <3>2. f \in Changed(t) /\ Levenshtein(<<>>, f) = Len(f) /\ Len(f) \in Nat
      BY <3>1, ChangesAtTheEnd, DistanceIs, LenProperties
    <3>3. Levenshtein(<<>>, f) + 1 <= Levenshtein(<<>>, t)
      BY <2>1, <3>1, <3>2
    <3>4. Nearer(<<>>, t)
      BY <3>2, <3>3 DEF Nearer
    <3> QED BY <2>1, <3>4
  <2> QED BY <2>2, <2>3
<1>2. ASSUME NEW s \in Seq(Letters) PROVE <<s, <<>>>> \in P
  <2>1. Levenshtein(s, <<>>) = Len(s) /\ <<>> \in Seq(Letters)
    BY DistanceIs, EmptySeq
  <2>2. CASE s = <<>>
    <3>1. Levenshtein(s, <<>>) = 0
      BY <2>1, <2>2, EmptySeq
    <3> QED BY <2>1, <3>1 DEF Nearer
  <2>3. CASE s # <<>>
    <3>1. PICK f \in Seq(Letters), x \in Letters : s = Append(f, x) /\ Len(s) = Len(f) + 1
      BY <2>3, EndsSomehow
    <3> DEFINE w == Append(<<>>, x)
    <3>2. w \in Changed(<<>>)
      BY <2>1, ChangesAtTheEnd
    <3>3. Levenshtein(f, <<>>) = Len(f) /\ Len(f) \in Nat
      BY DistanceIs, LenProperties
    <3>4. Levenshtein(s, w) <= Levenshtein(f, <<>>) + Cost(x, x)
      BY <2>1, <3>1, DistanceStep
    <3>5. Cost(x, x) = 0
      BY DEF Cost
    <3> HIDE DEF w
    <3>7. Levenshtein(s, w) + 1 <= Levenshtein(s, <<>>)
      <4>1. Levenshtein(s, w) \in Nat
        <5>1. w \in Seq(Letters)
          BY <2>1, <3>2, ChangedIsText
        <5> QED BY <5>1, DistanceIs
      <4> QED BY <2>1, <3>1, <3>3, <3>4, <3>5, <4>1
    <3>8. Nearer(s, <<>>)
      BY <3>2, <3>7 DEF Nearer
    <3> QED BY <2>1, <3>8
  <2> QED BY <2>2, <2>3
<1>3. ASSUME NEW s \in Seq(Letters), NEW t \in Seq(Letters), NEW x \in Letters, NEW y \in Letters, <<s, t>> \in P
      PROVE  <<Append(s, x), Append(t, y)>> \in P
  <2> DEFINE u == Append(s, x)
             w == Append(t, y)
             d == Levenshtein(u, w)
  <2>1. Nearer(s, t)
    BY <1>3
  <2>2. u \in Seq(Letters) /\ w \in Seq(Letters)
    BY AppendProperties
  <2>3. /\ d \in Nat /\ Levenshtein(s, t) \in Nat /\ Levenshtein(s, w) \in Nat /\ Levenshtein(u, t) \in Nat
        /\ d = Levenshtein(s, t) + Cost(x, y) \/ d = Levenshtein(s, w) + 1 \/ d = Levenshtein(u, t) + 1
    BY DistanceStep
  <2>4. ASSUME d > 0 PROVE \E c \in Changed(w) : Levenshtein(u, c) + 1 <= d
    <3>1. CASE d = Levenshtein(s, t) + Cost(x, y) /\ x = y
      <4>1. Cost(x, y) = 0
        BY <3>1 DEF Cost
      <4> HIDE DEF d
      <4>2. Levenshtein(s, t) = d
        BY <2>3, <3>1, <4>1
      <4>3. PICK c \in Changed(t) : Levenshtein(s, c) + 1 <= Levenshtein(s, t)
        BY <2>1, <2>4, <4>2 DEF Nearer
      <4>4. c \in Seq(Letters) /\ Append(c, y) \in Changed(w)
        BY ChangesAtTheEnd
      <4>5. Levenshtein(u, Append(c, y)) <= Levenshtein(s, c) + Cost(x, y) /\ Levenshtein(u, Append(c, y)) \in Nat
        BY <4>4, DistanceStep
      <4>6. Levenshtein(s, c) \in Nat
        BY <4>4, DistanceIs
      <4> HIDE DEF u, w
      <4>7. Levenshtein(u, Append(c, y)) + 1 <= d
        BY <2>3, <4>1, <4>2, <4>3, <4>5, <4>6
      <4> QED BY <4>4, <4>7
    <3>2. CASE d = Levenshtein(s, t) + Cost(x, y) /\ x # y
      <4>1. Cost(x, y) = 1 /\ Cost(x, x) = 0
        BY <3>2 DEF Cost
      <4>2. Append(t, x) \in Changed(w)
        BY ChangesAtTheEnd
      <4>3. Levenshtein(u, Append(t, x)) <= Levenshtein(s, t) + Cost(x, x) /\ Levenshtein(u, Append(t, x)) \in Nat
        BY DistanceStep
      <4> HIDE DEF u, w, d
      <4>4. Levenshtein(u, Append(t, x)) + 1 <= d
        BY <2>3, <3>2, <4>1, <4>3
      <4> QED BY <4>2, <4>4
    <3>3. CASE d = Levenshtein(s, w) + 1
      <4>1. Append(w, x) \in Changed(w)
        BY <2>2, ChangesAtTheEnd
      <4>2. Levenshtein(u, Append(w, x)) <= Levenshtein(s, w) + Cost(x, x) /\ Levenshtein(u, Append(w, x)) \in Nat
        BY <2>2, DistanceStep
      <4>3. Cost(x, x) = 0
        BY DEF Cost
      <4> HIDE DEF u, w, d
      <4>4. Levenshtein(u, Append(w, x)) + 1 <= d
        BY <2>3, <3>3, <4>2, <4>3
      <4> QED BY <4>1, <4>4
    <3>4. CASE d = Levenshtein(u, t) + 1
      <4>1. t \in Changed(w)
        BY ChangesAtTheEnd
      <4>2. Levenshtein(u, t) + 1 <= d
        BY <2>3, <3>4
      <4> QED BY <4>1, <4>2
    <3> QED BY <2>3, <3>1, <3>2, <3>3, <3>4
  <2> HIDE DEF u, w
  <2>5. Nearer(u, w)
    BY <2>4 DEF Nearer
  <2> QED BY <2>2, <2>5 DEF u, w
<1>4. \A s, t \in Seq(Letters) : <<s, t>> \in P
  <2> HIDE DEF P
  <2> QED BY <1>1, <1>2, <1>3, EveryPair
<1>5. <<a, b>> \in P
  BY <1>4
<1> QED BY <1>5

\* No more changes are between two messages than were made.
DistanceInv == ScoresInv /\ Levenshtein(Normalized(first), Normalized(typed)) <= changes

\* They never are.
LEMMA DistanceInvariant == ScoresSpec => []DistanceInv
<1>1. ScoresInit => DistanceInv
  <2> SUFFICES ASSUME ScoresInit PROVE DistanceInv
    OBVIOUS
  <2>1. first \in Seq(Letters) /\ typed = first /\ changes = 0 /\ excused \in Excused
    BY ScoresAssumption DEF ScoresInit
  <2>2. Normalized(first) \in Seq(Letters)
    BY <2>1, NormalizedIs
  <2>3. Levenshtein(Normalized(first), Normalized(first)) = 0
    BY <2>2, ZeroIsSame
  <2> QED BY <2>1, <2>3 DEF DistanceInv, ScoresInv
<1>2. DistanceInv /\ [ScoresNext]_scoreVars => DistanceInv'
  <2> SUFFICES ASSUME DistanceInv, [ScoresNext]_scoreVars PROVE DistanceInv'
    OBVIOUS
  <2>0. first \in Seq(Letters) /\ typed \in Seq(Letters) /\ changes \in Nat /\ excused \in Excused
    BY DEF DistanceInv, ScoresInv
  <2>1. CASE ScoresNext
    <3>1. PICK message \in Changed(typed) : Change(message)
      BY <2>1 DEF ScoresNext
    <3>2. message \in Seq(Letters)
      BY <2>0, <3>1, ChangedIsText
    <3>3. typed' = message /\ changes' = changes + 1 /\ first' = first /\ excused' = excused
      BY <3>1 DEF Change
    <3> DEFINE n == Normalized(first)
               t == Normalized(typed)
               m == Normalized(message)
    <3>4. n \in Seq(Letters) /\ t \in Seq(Letters) /\ m \in Seq(Letters)
      BY <2>0, <3>2, NormalizedIs
    <3>5. Levenshtein(n, m) <= Levenshtein(n, t) + 1
      BY <2>0, <3>4, ChangeOfNormalized DEF Beside
    <3>6. Levenshtein(n, t) <= changes
      BY DEF DistanceInv
    <3> HIDE DEF n, t, m
    <3>7. Levenshtein(n, t) \in Nat /\ Levenshtein(n, m) \in Nat
      BY <3>4, DistanceIs
    <3>8. Levenshtein(n, m) <= changes + 1
      BY <2>0, <3>5, <3>6, <3>7
    <3> QED BY <2>0, <3>2, <3>3, <3>8 DEF DistanceInv, ScoresInv, n, m
  <2>2. CASE UNCHANGED scoreVars
    BY <2>2 DEF scoreVars, DistanceInv, ScoresInv
  <2> QED BY <2>1, <2>2
<1> QED BY <1>1, <1>2, PTL DEF ScoresSpec

\* The distance the guard compares with its threshold is the least number of changes
\* that lead from one message to the other, blanks and capitals aside.
THEOREM DistanceIsOfChanges == ScoresSpec => []DistanceIsChanges
<1>1. DistanceInv => DistanceIsChanges
  <2> SUFFICES ASSUME DistanceInv PROVE DistanceIsChanges
    OBVIOUS
  <2> DEFINE a == Normalized(first)
             b == Normalized(typed)
             d == Levenshtein(a, b)
             most == Difference(first, typed)[2]
  <2>1. a \in Seq(Letters) /\ b \in Seq(Letters)
    BY NormalizedIs DEF DistanceInv, ScoresInv
  <2>2. d <= changes
    BY DEF DistanceInv
  <2>0. Difference(first, typed) = IF a = b THEN <<0, 1>> ELSE <<d, Max({Len(a), Len(b)})>>
    BY DEF Difference
  <2> HIDE DEF a, b
  <2>3. d \in Nat /\ Len(a) \in Nat /\ Len(b) \in Nat
    BY <2>1, DistanceIs, LenProperties
  <2>4. d = Levenshtein(b, a)
    BY <2>1, SameBothWays
  <2>5. (d = 0 <=> a = b) /\ (d <= Len(a) \/ d <= Len(b))
    BY <2>1, ZeroIsSame
  <2>6. ASSUME d > 0 PROVE \E c \in Changed(b) : Levenshtein(a, c) = d - 1
    <3>1. PICK c \in Changed(b) : Levenshtein(a, c) + 1 <= d
      BY <2>1, <2>6, OneChangeIsNearer DEF Nearer
    <3>2. d <= Levenshtein(a, c) + 1
      BY <2>1, ChangeIsBeside DEF Beside
    <3>3. Levenshtein(a, c) \in Nat
      BY <2>1, ChangedIsText, DistanceIs
    <3> QED BY <2>3, <3>1, <3>2, <3>3
  <2>7. d <= most
    <3>1. CASE a = b
      <4>1. most = 1 /\ d = 0
        BY <2>0, <2>5, <3>1
      <4> QED BY <4>1
    <3>2. CASE a # b
      <4>1. most = Max({Len(a), Len(b)})
        BY <2>0, <3>2
      <4>2. \E x \in {Len(a), Len(b)} : \A y \in {Len(a), Len(b)} : x >= y
        BY <2>3
      <4>3. \A y \in {Len(a), Len(b)} : Max({Len(a), Len(b)}) >= y
        BY <4>2, Zenon DEF Max
      <4>4. most \in {Len(a), Len(b)}
        BY <4>1, <4>2, Zenon DEF Max
      <4> HIDE DEF most, d
      <4> QED BY <2>3, <2>5, <4>1, <4>3, <4>4
    <3> QED BY <3>1, <3>2
  <2>8. (d = 0) = (a = b)
    BY <2>5
  <2> QED BY <2>2, <2>4, <2>6, <2>7, <2>8 DEF DistanceIsChanges, a, b
<1> QED BY <1>1, DistanceInvariant, PTL

-----------------------------------------------------------------------------
(* Calendar: the dates of all days                                         *)

\* q is how often m goes into n.
Goes(n, m, q) == q \in Int /\ m * q <= n /\ n < m * q + m

\* The quotient goes that often.
LEMMA GoesIs ==
    ASSUME NEW n \in Int, NEW m \in Nat \ {0}
    PROVE  Goes(n, m, n \div m) /\ n % m = n - m * (n \div m)
BY DEF Goes

\* No other number does.
LEMMA GoesOnce ==
    ASSUME NEW n \in Int, NEW m \in Nat \ {0}, NEW p, NEW q, Goes(n, m, p), Goes(n, m, q)
    PROVE  p = q
<1>1. CASE p < q
  <2>1. p + 1 <= q /\ m * (p + 1) = m * p + m
    BY <1>1 DEF Goes
  <2>2. m * (p + 1) <= m * q
    <3>1. m * q = m * (p + 1) + m * (q - (p + 1)) /\ m * (q - (p + 1)) >= 0
      BY <2>1 DEF Goes
    <3> QED BY <3>1 DEF Goes
  <2> QED BY <2>1, <2>2 DEF Goes
<1>2. CASE q < p
  <2>1. q + 1 <= p /\ m * (q + 1) = m * q + m
    BY <1>2 DEF Goes
  <2>2. m * (q + 1) <= m * p
    <3>1. m * p = m * (q + 1) + m * (p - (q + 1)) /\ m * (p - (q + 1)) >= 0
      BY <2>1 DEF Goes
    <3> QED BY <3>1 DEF Goes
  <2> QED BY <2>1, <2>2 DEF Goes
<1> QED BY <1>1, <1>2 DEF Goes

\* The division of clock.rs cuts towards zero: with what it takes away below zero, an era
\* is the quotient, for the days
LEMMA EraTruncated ==
    ASSUME NEW n \in Int
    PROVE  Goes(n, 146097, Truncated(IF n >= 0 THEN n ELSE n - 146096, 146097))
<1>1. CASE n >= 0
  BY <1>1, GoesIs DEF Truncated
<1>2. CASE n < 0
  <2> DEFINE x == 0 - (n - 146096)
             p == x \div 146097
  <2>1. x \in Int /\ ~(n - 146096 >= 0) /\ ~(n >= 0)
    BY <1>2
  <2>2. Goes(x, 146097, p)
    BY <2>1, GoesIs
  <2>3. Truncated(IF n >= 0 THEN n ELSE n - 146096, 146097) = 0 - p
    BY <2>1 DEF Truncated
  <2> HIDE DEF p
  <2>4. p \in Int /\ 146097 * p <= 0 - (n - 146096) /\ 0 - (n - 146096) < 146097 * p + 146097
    BY <2>2 DEF Goes
  <2>5. 0 - p \in Int /\ 146097 * (0 - p) <= n /\ n < 146097 * (0 - p) + 146097
    BY <2>4
  <2>6. Goes(n, 146097, 0 - p)
    BY <2>5 DEF Goes
  <2> QED BY <2>3, <2>6
<1> QED BY <1>1, <1>2

\* and for the years.
LEMMA YearTruncated ==
    ASSUME NEW n \in Int
    PROVE  Goes(n, 400, Truncated(IF n >= 0 THEN n ELSE n - 399, 400))
<1>1. CASE n >= 0
  BY <1>1, GoesIs DEF Truncated
<1>2. CASE n < 0
  <2> DEFINE x == 0 - (n - 399)
             p == x \div 400
  <2>1. x \in Int /\ ~(n - 399 >= 0) /\ ~(n >= 0)
    BY <1>2
  <2>2. Goes(x, 400, p)
    BY <2>1, GoesIs
  <2>3. Truncated(IF n >= 0 THEN n ELSE n - 399, 400) = 0 - p
    BY <2>1 DEF Truncated
  <2> HIDE DEF p
  <2>4. p \in Int /\ 400 * p <= 0 - (n - 399) /\ 0 - (n - 399) < 400 * p + 400
    BY <2>2 DEF Goes
  <2>5. 0 - p \in Int /\ 400 * (0 - p) <= n /\ n < 400 * (0 - p) + 400
    BY <2>4
  <2>6. Goes(n, 400, 0 - p)
    BY <2>5 DEF Goes
  <2> QED BY <2>3, <2>6
<1> QED BY <1>1, <1>2

\* A day falls into one era.
LEMMA EraIs ==
    ASSUME NEW n \in Int
    PROVE  EraOf(n) \in Int /\ DayOfEra(n) \in Nat /\ DayOfEra(n) <= 146096 /\ n = EraOf(n) * 146097 + DayOfEra(n)
<1>2. Goes(n, 146097, EraOf(n))
  BY EraTruncated DEF EraOf
<1> QED BY <1>2 DEF Goes, DayOfEra

\* The next day is in the same era, or the first of the next.
LEMMA EraOfNext ==
    ASSUME NEW n \in Int
    PROVE  \/ EraOf(n + 1) = EraOf(n) /\ DayOfEra(n + 1) = DayOfEra(n) + 1
           \/ EraOf(n + 1) = EraOf(n) + 1 /\ DayOfEra(n) = 146096 /\ DayOfEra(n + 1) = 0
<1>1. EraOf(n) \in Int /\ DayOfEra(n) \in Nat /\ DayOfEra(n) <= 146096 /\ n = EraOf(n) * 146097 + DayOfEra(n)
  BY EraIs
<1>2. EraOf(n + 1) \in Int /\ DayOfEra(n + 1) \in Nat /\ DayOfEra(n + 1) <= 146096 /\ n + 1 = EraOf(n + 1) * 146097 + DayOfEra(n + 1)
  BY EraIs
<1> QED BY <1>1, <1>2

\* Every fourth year of an era is long, not every hundredth, but the last.
LongYear(y, u, v) == (y = 4 * u + 3 /\ y # 100 * v + 99) \/ y = 399

\* The day o of the year y of an era is its day d.
YearAt(d, y, o) ==
    \E u, v \in Int : /\ y \in Nat /\ y <= 399 /\ o \in Nat /\ o <= 365 /\ Goes(y, 4, u) /\ Goes(y, 100, v)
                      /\ o = d - (365 * y + u - v)
                      /\ o = 365 => LongYear(y, u, v)

\* The 1460, 36524 and 146096 days that are counted off are those of the leap years.
LEMMA CountedOff ==
    ASSUME NEW d \in Nat, d <= 146096, NEW a \in Int, NEW b \in Int, NEW c \in Int, NEW y \in Int, NEW u \in Int, NEW v \in Int,
           Goes(d, 1460, a), Goes(d, 36524, b), Goes(d, 146096, c), Goes(d - a + b - c, 365, y), Goes(y, 4, u), Goes(y, 100, v)
    PROVE  LET o == d - (365 * y + u - v)
           IN  0 <= y /\ y <= 399 /\ 0 <= o /\ o <= 365 /\ (o = 365 => LongYear(y, u, v))
BY SMTT(60) DEF Goes, LongYear

\* So a day of an era falls into one year.
LEMMA YearIs ==
    ASSUME NEW d \in Nat, d <= 146096
    PROVE  YearAt(d, YearOfEra(d), DayOfYear(d)) /\ DayOfYear(d) = d - DaysBefore(YearOfEra(d))
<1> DEFINE a == d \div 1460
           b == d \div 36524
           c == d \div 146096
           y == (d - a + b - c) \div 365
           u == y \div 4
           v == y \div 100
           o == d - (365 * y + u - v)
<1>1. Goes(d, 1460, a) /\ Goes(d, 36524, b) /\ Goes(d, 146096, c)
  <2>1. Goes(d, 1460, a)
    BY GoesIs
  <2>2. Goes(d, 36524, b)
    BY GoesIs
  <2>3. Goes(d, 146096, c)
    BY GoesIs
  <2> QED BY <2>1, <2>2, <2>3
<1> HIDE DEF a, b, c
<1>2. a \in Int /\ b \in Int /\ c \in Int
  BY <1>1 DEF Goes
<1>3. Goes(d - a + b - c, 365, y)
  BY <1>2, GoesIs
<1> HIDE DEF y
<1>4. y \in Int
  BY <1>3 DEF Goes
<1>5. Goes(y, 4, u) /\ Goes(y, 100, v)
  BY <1>4, GoesIs
<1> HIDE DEF u, v
<1>6. u \in Int /\ v \in Int
  BY <1>5 DEF Goes
<1>7. 0 <= y /\ y <= 399 /\ 0 <= o /\ o <= 365 /\ (o = 365 => LongYear(y, u, v))
  BY <1>1, <1>2, <1>3, <1>4, <1>5, <1>6, CountedOff
<1>8. o \in Nat /\ y \in Nat
  BY <1>4, <1>6, <1>7
<1>9. YearAt(d, y, o)
  BY <1>5, <1>6, <1>7, <1>8 DEF YearAt
<1>10. y = YearOfEra(d)
  BY DEF YearOfEra, a, b, c, y
<1>11. u = YearOfEra(d) \div 4 /\ v = YearOfEra(d) \div 100
  BY <1>10 DEF u, v
<1>12. o = DayOfYear(d) /\ DayOfYear(d) = d - DaysBefore(YearOfEra(d))
  BY <1>10, <1>11 DEF DayOfYear, DaysBefore
<1> QED BY <1>9, <1>10, <1>12

\* What a year leaves when it is divided by 4, 100 and 400.
Divided(z, p, q, r) ==
  /\ Goes(z, 4, p) /\ Goes(z, 100, q) /\ Goes(z, 400, r)
  /\ z % 4 = z - 4 * p /\ z % 100 = z - 100 * q /\ z % 400 = z - 400 * r

\* There are such quotients.
LEMMA Quotients ==
    ASSUME NEW z \in Int
    PROVE  \E p, q, r \in Int : Divided(z, p, q, r)
<1>1. Goes(z, 4, z \div 4) /\ z % 4 = z - 4 * (z \div 4)
  BY DEF Goes
<1>2. Goes(z, 100, z \div 100) /\ z % 100 = z - 100 * (z \div 100)
  BY DEF Goes
<1>3. Goes(z, 400, z \div 400) /\ z % 400 = z - 400 * (z \div 400)
  BY DEF Goes
<1>4. Divided(z, z \div 4, z \div 100, z \div 400) /\ z \div 4 \in Int /\ z \div 100 \in Int /\ z \div 400 \in Int
  BY <1>1, <1>2, <1>3 DEF Divided, Goes
<1> QED BY <1>4

\* The years that are long are those that end in a leap day.
LEMMA LeapIs ==
    ASSUME NEW y \in Nat, y <= 399, NEW e \in Int, NEW u, NEW v, Goes(y, 4, u), Goes(y, 100, v)
    PROVE  Leap(y + e * 400 + 1) <=> LongYear(y, u, v)
<1> DEFINE z == y + e * 400 + 1
<1>1. z \in Int
  OBVIOUS
<1>0. PICK p \in Int, q \in Int, r \in Int : Divided(z, p, q, r)
  <2> HIDE DEF z
  <2> QED BY <1>1, Quotients
<1>2. Goes(z, 4, p) /\ Goes(z, 100, q) /\ Goes(z, 400, r) /\ z % 4 = z - 4 * p /\ z % 100 = z - 100 * q /\ z % 400 = z - 400 * r
  <2> HIDE DEF z
  <2> QED BY <1>0 DEF Divided
<1>3. z = 4 * p <=> y = 4 * u + 3
  BY <1>2 DEF Goes
<1>4. z = 100 * q <=> y = 100 * v + 99
  BY <1>2 DEF Goes
<1>5. z = 400 * r <=> y = 399
  BY <1>2 DEF Goes
<1>6. (z % 4 = 0 <=> z = 4 * p) /\ (z % 100 = 0 <=> z = 100 * q) /\ (z % 400 = 0 <=> z = 400 * r)
  BY <1>1, <1>2 DEF Goes
<1> HIDE DEF z
<1>7. Leap(z) <=> LongYear(y, u, v)
  BY <1>3, <1>4, <1>5, <1>6, Zenon DEF Leap, LongYear
<1> QED BY <1>7 DEF z

\* The day o of the year y of an era is the day d of it.
YearHas(d, y, u, v, o) ==
  /\ y \in Int /\ u \in Int /\ v \in Int /\ o \in Int /\ Goes(y, 4, u) /\ Goes(y, 100, v) /\ 0 <= y /\ y <= 399
  /\ o = d - (365 * y + u - v) /\ 0 <= o /\ o <= 365 /\ (o = 365 => LongYear(y, u, v))

\* The years of a day and of the next are the same, or one follows the other.
YearFollows(y, u, v, o, z, r, s, q) ==
  /\ z = y \/ z = y + 1
  /\ z = y => u = r /\ v = s /\ q = o + 1
  /\ z = y + 1 => q = 0 /\ (o = 365 \/ (o = 364 /\ ~LongYear(y, u, v)))

\* They do.
LEMMA YearGoesOn ==
    ASSUME NEW d \in Int, NEW y, NEW u, NEW v, NEW o, NEW z, NEW r, NEW s, NEW q,
           YearHas(d, y, u, v, o), YearHas(d + 1, z, r, s, q)
    PROVE  YearFollows(y, u, v, o, z, r, s, q)
<1>1. z = y \/ z = y + 1
  BY SMTT(60) DEF Goes, LongYear, YearHas
<1>2. z = y => u = r /\ v = s /\ q = o + 1
  BY SMTT(60) DEF Goes, LongYear, YearHas
<1>3. z = y + 1 => q = 0 /\ (o = 365 \/ (o = 364 /\ ~LongYear(y, u, v)))
  BY SMTT(60) DEF Goes, LongYear, YearHas
<1> QED BY <1>1, <1>2, <1>3 DEF YearFollows

\* How many days a month has, counted from March; the last one has what the year leaves.
LengthOf(m) == IF m \in {1, 3, 6, 8} THEN 30 ELSE 31

\* The day o of a year is a day of its month m, the months before which have k days.
MonthAt(o, m, k) == /\ m \in Nat /\ k \in Nat /\ m <= 11
                    /\ Goes(5 * o + 2, 153, m) /\ Goes(153 * m + 2, 5, k) /\ k <= o

\* Five months of 153 days, again and again: a day falls into one month.
LEMMA MonthIs ==
    ASSUME NEW o \in Nat, o <= 365
    PROVE  MonthAt(o, MarchMonth(o), DaysBeforeMonth(MarchMonth(o)))
<1> DEFINE m == (5 * o + 2) \div 153
           k == (153 * m + 2) \div 5
<1>1. Goes(5 * o + 2, 153, m)
  BY GoesIs
<1>2. m \in Int
  BY <1>1 DEF Goes
<1> HIDE DEF m
<1>3. Goes(153 * m + 2, 5, k)
  <2>1. 153 * m + 2 \in Int
    BY <1>2
  <2> QED BY <2>1, GoesIs
<1>4. k \in Int
  BY <1>3 DEF Goes
<1> HIDE DEF k
<1>5. m \in Nat /\ m <= 11
  BY <1>1, <1>2 DEF Goes
<1>6. k \in Nat /\ k <= o
  BY <1>1, <1>2, <1>3, <1>4 DEF Goes
<1>7. MonthAt(o, m, k)
  BY <1>1, <1>3, <1>5, <1>6 DEF MonthAt
<1> QED BY <1>7 DEF MarchMonth, DaysBeforeMonth, m, k

\* The next day is in the same month, which is not over, or the first of the next one,
\* when as many days are over as the month has.
LEMMA MonthOfNext ==
    ASSUME NEW o \in Nat, o <= 364, NEW m, NEW k, NEW p, NEW l, MonthAt(o, m, k), MonthAt(o + 1, p, l)
    PROVE  \/ p = m /\ l = k /\ (m # 11 => o - k + 1 < LengthOf(m)) /\ (m = 11 => k = 337)
           \/ p = m + 1 /\ l = o + 1 /\ m # 11 /\ o - k + 1 = LengthOf(m)
<1>1. m \in Int /\ k \in Int /\ p \in Int /\ l \in Int
  BY DEF MonthAt
<1>2. p = m \/ p = m + 1
  BY <1>1 DEF MonthAt, Goes
<1>3. m \in {0, 1, 2, 3, 4, 5, 6, 7, 8, 9, 10, 11}
  BY DEF MonthAt
<1>4. CASE p = m
  <2>1. l = k
    BY <1>1, <1>4 DEF MonthAt, Goes
  <2>2. m = 11 => k = 337
    BY <1>1 DEF MonthAt, Goes
  <2>3. m # 11 => o - k + 1 < LengthOf(m)
    BY <1>1, <1>3, <1>4, <2>1, SMTT(60) DEF MonthAt, Goes, LengthOf
  <2> QED BY <1>4, <2>1, <2>2, <2>3
<1>5. CASE p = m + 1
  <2>1. m # 11
    BY <1>1, <1>5 DEF MonthAt
  <2>2. l = o + 1 /\ o - k + 1 = LengthOf(m)
    BY <1>1, <1>3, <1>5, SMTT(60) DEF MonthAt, Goes, LengthOf
  <2> QED BY <1>5, <2>1, <2>2
<1> QED BY <1>2, <1>4, <1>5

\* Thirty days has September.
LEMMA LengthsOfMonths ==
    ASSUME NEW y, NEW x \in 1..12
    PROVE  /\ x \in {4, 6, 9, 11} => DaysIn(y, x) = 30
           /\ x = 2 => DaysIn(y, x) = IF Leap(y) THEN 29 ELSE 28
           /\ x \notin {2, 4, 6, 9, 11} => DaysIn(y, x) = 31
<1>1. ASSUME x \in {4, 6, 9, 11} PROVE DaysIn(y, x) = 30
  BY <1>1 DEF DaysIn
<1>2. ASSUME x = 2 PROVE DaysIn(y, 2) = IF Leap(y) THEN 29 ELSE 28
  BY DEF DaysIn
<1>3. ASSUME x \notin {2, 4, 6, 9, 11} PROVE DaysIn(y, x) = 31
  BY <1>3 DEF DaysIn
<1> QED BY <1>1, <1>2, <1>3

\* The days of a month of the calendar.
LEMMA DaysInIs ==
    ASSUME NEW y \in Int, NEW m \in Nat, m <= 11
    PROVE  /\ MonthOf(m) \in 1..12 /\ MarchOf(MonthOf(m)) = m
           /\ m # 11 => DaysIn(y, MonthOf(m)) = LengthOf(m)
           /\ m = 11 => MonthOf(m) = 2 /\ DaysIn(y, MonthOf(m)) = IF Leap(y) THEN 29 ELSE 28
<1>1. m \in {0, 1, 2, 3, 4, 5, 6, 7, 8, 9, 10, 11}
  OBVIOUS
<1>2. MonthOf(m) = IF m < 10 THEN m + 3 ELSE m - 9
  BY DEF MonthOf
<1>3. MonthOf(m) \in 1..12 /\ MarchOf(MonthOf(m)) = m
  BY <1>1, <1>2 DEF MarchOf
<1>4. MonthOf(m) \in {4, 6, 9, 11} <=> m \in {1, 3, 6, 8}
  BY <1>1, <1>2
<1>5. MonthOf(m) = 2 <=> m = 11
  BY <1>1, <1>2
<1> HIDE DEF MonthOf
<1>6. /\ MonthOf(m) \in {4, 6, 9, 11} => DaysIn(y, MonthOf(m)) = 30
      /\ MonthOf(m) = 2 => DaysIn(y, MonthOf(m)) = IF Leap(y) THEN 29 ELSE 28
      /\ MonthOf(m) \notin {2, 4, 6, 9, 11} => DaysIn(y, MonthOf(m)) = 31
  BY <1>3, LengthsOfMonths
<1>7. m # 11 => DaysIn(y, MonthOf(m)) = LengthOf(m)
  BY <1>4, <1>5, <1>6 DEF LengthOf
<1>8. m = 11 => MonthOf(m) = 2 /\ DaysIn(y, MonthOf(m)) = IF Leap(y) THEN 29 ELSE 28
  BY <1>4, <1>5, <1>6
<1> QED BY <1>3, <1>7, <1>8

\* A date of the calendar.
IsDate(d) == \E y \in Int, m \in 1..12, g \in Nat \ {0} : d = <<y, m, g>> /\ g <= DaysIn(y, m)

\* A day of an era: its year, the day of it, the month, and the days before the month.
DayAt(n, e, d, y, o, m, k) ==
  /\ e \in Int /\ d \in Nat /\ d <= 146096 /\ n = e * 146097 + d
  /\ YearAt(d, y, o) /\ o = d - DaysBefore(y) /\ MonthAt(o, m, k)

\* Its date.
DateAt(e, y, o, m, k) == <<y + e * 400 + (IF MonthOf(m) <= 2 THEN 1 ELSE 0), MonthOf(m), o - k + 1>>

\* Every day has a date, which is put together from its era, year and month.
LEMMA DateIs ==
    ASSUME NEW n \in Int
    PROVE  \E e, d, y, o, m, k : DayAt(n, e, d, y, o, m, k) /\ CivilFromDays(n - 719468) = DateAt(e, y, o, m, k)
<1> DEFINE e == EraOf(n)
           d == DayOfEra(n)
           y == YearOfEra(d)
           o == DayOfYear(d)
           m == MarchMonth(o)
           k == DaysBeforeMonth(m)
<1>1. e \in Int /\ d \in Nat /\ d <= 146096 /\ n = e * 146097 + d
  BY EraIs
<1>2. YearAt(d, y, o) /\ o = d - DaysBefore(y)
  <2> HIDE DEF d
  <2> QED BY <1>1, YearIs
<1>3. o \in Nat /\ o <= 365
  BY <1>2 DEF YearAt
<1>4. MonthAt(o, m, k)
  <2> HIDE DEF o
  <2> QED BY <1>3, MonthIs
<1>5. DayAt(n, e, d, y, o, m, k)
  <2> HIDE DEF e, d, y, o, m, k
  <2> QED BY <1>1, <1>2, <1>4 DEF DayAt
<1>6. (n - 719468) + 719468 = n
  OBVIOUS
<1>7. CivilFromDays(n - 719468) = DateAt(e, y, o, m, k)
  <2>1. CivilFromDays(n - 719468) = DateOf(e, y, o, m)
    BY <1>6 DEF CivilFromDays
  <2> HIDE DEF e, y, o, m
  <2> QED BY <2>1 DEF DateOf, DateAt
<1> HIDE DEF e, d, y, o, m, k
<1> QED BY <1>5, <1>7

\* The facts of a day as numbers.
LEMMA DayFacts ==
    ASSUME NEW n \in Int, NEW e, NEW d, NEW y, NEW o, NEW m, NEW k, DayAt(n, e, d, y, o, m, k)
    PROVE  /\ e \in Int /\ d \in Nat /\ y \in Nat /\ y <= 399 /\ o \in Nat /\ o <= 365 /\ m \in Nat /\ m <= 11 /\ k \in Nat /\ k <= o
           /\ n = e * 146097 + d /\ d <= 146096 /\ d = DaysBefore(y) + o
           /\ (o = 365 => Leap(y + e * 400 + 1))
<1>1. PICK u \in Int, v \in Int : /\ y \in Nat /\ y <= 399 /\ o \in Nat /\ o <= 365 /\ Goes(y, 4, u) /\ Goes(y, 100, v)
                                  /\ o = d - (365 * y + u - v) /\ (o = 365 => LongYear(y, u, v))
  BY DEF DayAt, YearAt
<1>2. Leap(y + e * 400 + 1) <=> LongYear(y, u, v)
  BY <1>1, LeapIs DEF DayAt
<1>3. DaysBefore(y) \in Int
  <2>1. Goes(y, 4, y \div 4) /\ Goes(y, 100, y \div 100)
    BY <1>1, GoesIs
  <2> QED BY <1>1, <2>1 DEF DaysBefore, Goes
<1> QED BY <1>1, <1>2, <1>3 DEF DayAt, MonthAt

\* The date of a day is one of the calendar.
LEMMA DateIsDate ==
    ASSUME NEW n \in Int, NEW e, NEW d, NEW y, NEW o, NEW m, NEW k, DayAt(n, e, d, y, o, m, k)
    PROVE  IsDate(DateAt(e, y, o, m, k))
<1> DEFINE z == y + e * 400 + (IF MonthOf(m) <= 2 THEN 1 ELSE 0)
           g == o - k + 1
<1>1. /\ e \in Int /\ d \in Nat /\ y \in Nat /\ y <= 399 /\ o \in Nat /\ o <= 365 /\ m \in Nat /\ m <= 11 /\ k \in Nat /\ k <= o
      /\ (o = 365 => Leap(y + e * 400 + 1))
  BY DayFacts
<1>2. MonthOf(m) \in 1..12
  BY <1>1, DaysInIs
<1>3. z \in Int /\ g \in Nat \ {0}
  BY <1>1, <1>2
<1>4. CASE m # 11
  <2>1. g <= LengthOf(m)
    <3>1. MonthAt(o, m, k) /\ m \in {0, 1, 2, 3, 4, 5, 6, 7, 8, 9, 10}
      BY <1>1, <1>4 DEF DayAt
    <3> QED BY <1>1, <3>1, SMTT(60) DEF MonthAt, Goes, LengthOf
  <2>2. DaysIn(z, MonthOf(m)) = LengthOf(m)
    <3> HIDE DEF z
    <3> QED BY <1>1, <1>3, <1>4, DaysInIs
  <2>3. g <= DaysIn(z, MonthOf(m))
    BY <2>1, <2>2
  <2> HIDE DEF z, g
  <2>4. IsDate(<<z, MonthOf(m), g>>)
    BY <1>2, <1>3, <2>3 DEF IsDate
  <2> QED BY <2>4 DEF DateAt, z, g
<1>5. CASE m = 11
  <2>1. k = 337
    BY <1>1, <1>5 DEF DayAt, MonthAt, Goes
  <2>2. MonthOf(m) = 2
    BY <1>5 DEF MonthOf
  <2>3. z = y + e * 400 + 1
    BY <2>2
  <2>4. DaysIn(z, MonthOf(m)) = IF Leap(z) THEN 29 ELSE 28
    <3> HIDE DEF z
    <3> QED BY <1>1, <1>3, <1>5, DaysInIs
  <2>5. g <= DaysIn(z, MonthOf(m))
    <3>1. o = 365 => Leap(z)
      BY <1>1, <2>3
    <3> HIDE DEF z
    <3>2. g <= 28 \/ (g = 29 /\ o = 365)
      BY <1>1, <2>1
    <3> HIDE DEF g
    <3>3. CASE Leap(z)
      BY <1>3, <2>4, <3>2, <3>3
    <3>4. CASE ~Leap(z)
      BY <1>3, <2>4, <3>1, <3>2, <3>4
    <3> QED BY <3>3, <3>4
  <2> HIDE DEF z, g
  <2>6. IsDate(<<z, MonthOf(m), g>>)
    BY <1>2, <1>3, <2>5 DEF IsDate
  <2> QED BY <2>6 DEF DateAt, z, g
<1> QED BY <1>4, <1>5

\* The day after, in the same year: in the same month, or the first of the next one.
LEMMA NextInYear ==
    ASSUME NEW n \in Int, NEW e, NEW d, NEW y, NEW o, NEW m, NEW k, DayAt(n, e, d, y, o, m, k),
           NEW p, NEW l, o <= 364, MonthAt(o + 1, p, l), o = 364 => Leap(y + e * 400 + 1)
    PROVE  DateAt(e, y, o + 1, p, l) = DayAfter(DateAt(e, y, o, m, k))
<1> DEFINE z == y + e * 400 + (IF MonthOf(m) <= 2 THEN 1 ELSE 0)
           g == o - k + 1
<1>1. /\ e \in Int /\ d \in Nat /\ y \in Nat /\ y <= 399 /\ o \in Nat /\ m \in Nat /\ m <= 11 /\ k \in Nat /\ k <= o
  BY DayFacts
<1>2. MonthAt(o, m, k)
  BY DEF DayAt
<1>3. \/ p = m /\ l = k /\ (m # 11 => g < LengthOf(m)) /\ (m = 11 => k = 337)
      \/ p = m + 1 /\ l = o + 1 /\ m # 11 /\ g = LengthOf(m)
  BY <1>1, <1>2, MonthOfNext
<1>4. z \in Int /\ g \in Nat \ {0} /\ MonthOf(m) \in 1..12
  <2>1. MonthOf(m) \in 1..12
    BY <1>1, DaysInIs
  <2> QED BY <1>1, <2>1
<1>5. /\ m # 11 => DaysIn(z, MonthOf(m)) = LengthOf(m)
      /\ m = 11 => MonthOf(m) = 2 /\ DaysIn(z, MonthOf(m)) = IF Leap(z) THEN 29 ELSE 28
  <2> HIDE DEF z
  <2> QED BY <1>1, <1>4, DaysInIs
<1>6. DayAfter(DateAt(e, y, o, m, k)) = DayAfter(<<z, MonthOf(m), g>>)
  BY DEF DateAt
<1>7. DayAfter(<<z, MonthOf(m), g>>) = IF g < DaysIn(z, MonthOf(m)) THEN <<z, MonthOf(m), g + 1>>
                                       ELSE IF MonthOf(m) < 12 THEN <<z, MonthOf(m) + 1, 1>> ELSE <<z + 1, 1, 1>>
  <2> HIDE DEF z, g
  <2> QED BY DEF DayAfter
<1>8. CASE p = m /\ l = k
  <2>1. g < DaysIn(z, MonthOf(m))
    <3>1. CASE m # 11
      <4>1. g < LengthOf(m)
        <5>1. p # m + 1
          BY <1>1, <1>8
        <5> HIDE DEF g
        <5> QED BY <1>3, <3>1, <5>1
      <4> QED BY <1>5, <3>1, <4>1
    <3>2. CASE m = 11
      <4>1. k = 337
        BY <1>3, <1>8, <3>2
      <4>2. z = y + e * 400 + 1
        BY <1>5, <3>2
      <4>3. o = 364 => Leap(z)
        BY <4>2
      <4>4. g < 28 \/ (g = 28 /\ o = 364)
        BY <1>1, <4>1
      <4> HIDE DEF z, g
      <4>5. CASE Leap(z)
        BY <1>4, <1>5, <3>2, <4>4, <4>5
      <4>6. CASE ~Leap(z)
        BY <1>4, <1>5, <3>2, <4>3, <4>4, <4>6
      <4> QED BY <4>5, <4>6
    <3> QED BY <3>1, <3>2
  <2>2. (o + 1) - k + 1 = g + 1
    BY <1>1
  <2>3. DateAt(e, y, o + 1, m, k) = <<z, MonthOf(m), g + 1>>
    BY <2>2 DEF DateAt
  <2> QED BY <1>6, <1>7, <1>8, <2>1, <2>3
<1>9. CASE p = m + 1 /\ l = o + 1 /\ m # 11 /\ g = LengthOf(m)
  <2>1. ~(g < DaysIn(z, MonthOf(m)))
    BY <1>4, <1>5, <1>9
  <2>2. DateAt(e, y, o + 1, m + 1, o + 1) = <<y + e * 400 + (IF MonthOf(m + 1) <= 2 THEN 1 ELSE 0), MonthOf(m + 1), 1>>
    BY <1>1 DEF DateAt
  <2>3. m \in {0, 1, 2, 3, 4, 5, 6, 7, 8, 9, 10}
    BY <1>1, <1>9
  <2>4. CASE MonthOf(m) < 12
    <3>1. MonthOf(m + 1) = MonthOf(m) + 1 /\ (MonthOf(m + 1) <= 2 <=> MonthOf(m) <= 2)
      BY <2>3, <2>4 DEF MonthOf
    <3> QED BY <1>6, <1>7, <1>9, <2>1, <2>2, <2>4, <3>1
  <2>5. CASE ~(MonthOf(m) < 12)
    <3>1. m = 9
      BY <2>3, <2>5 DEF MonthOf
    <3>2. MonthOf(m) = 12 /\ MonthOf(m + 1) = 1
      BY <3>1 DEF MonthOf
    <3>3. z + 1 = y + e * 400 + 1
      BY <1>1, <3>2
    <3> QED BY <1>6, <1>7, <1>9, <2>1, <2>2, <2>5, <3>2, <3>3
  <2> QED BY <2>4, <2>5
<1> QED BY <1>3, <1>8, <1>9

\* The last day of a year that begins in March is the last of a February.
LEMMA NextYear ==
    ASSUME NEW n \in Int, NEW e, NEW d, NEW y, NEW o, NEW m, NEW k, DayAt(n, e, d, y, o, m, k),
           (o = 365 /\ Leap(y + e * 400 + 1)) \/ (o = 364 /\ ~Leap(y + e * 400 + 1)), NEW p, NEW l, MonthAt(0, p, l)
    PROVE  /\ DayAfter(DateAt(e, y, o, m, k)) = <<y + e * 400 + 1, 3, 1>>
           /\ p = 0 /\ l = 0
<1>1. /\ e \in Int /\ d \in Nat /\ y \in Nat /\ y <= 399 /\ o \in Nat /\ m \in Nat /\ m <= 11 /\ k \in Nat /\ k <= o
  BY DayFacts
<1>2. m = 11 /\ k = 337
  BY <1>1 DEF DayAt, MonthAt, Goes
<1>3. MonthOf(m) = 2
  BY <1>2 DEF MonthOf
<1> DEFINE z == y + e * 400 + 1
           g == o - 337 + 1
<1>4. z \in Int /\ g \in Nat
  BY <1>1
<1>5. DateAt(e, y, o, m, k) = <<z, 2, g>>
  BY <1>2, <1>3 DEF DateAt
<1>6. DaysIn(z, 2) = IF Leap(z) THEN 29 ELSE 28
  <2> HIDE DEF z
  <2> QED BY LengthsOfMonths
<1>7. (g = 29 /\ Leap(z)) \/ (g = 28 /\ ~Leap(z))
  OBVIOUS
<1> HIDE DEF z, g
<1>8. ~(g < DaysIn(z, 2))
  BY <1>6, <1>7
<1>9. DayAfter(<<z, 2, g>>) = <<z, 3, 1>>
  BY <1>8 DEF DayAfter
<1>10. p = 0 /\ l = 0
  BY DEF MonthAt, Goes
<1> QED BY <1>5, <1>9, <1>10 DEF z

\* The date after that of a day is that of the day after.
LEMMA NextDate ==
    ASSUME NEW n \in Int
    PROVE  CivilFromDays((n + 1) - 719468) = DayAfter(CivilFromDays(n - 719468))
<1>1. PICK e, d, y, o, m, k : DayAt(n, e, d, y, o, m, k) /\ CivilFromDays(n - 719468) = DateAt(e, y, o, m, k)
  BY DateIs
<1>2. n + 1 \in Int
  OBVIOUS
<1>3. PICK f, c, z, q, p, l : DayAt(n + 1, f, c, z, q, p, l) /\ CivilFromDays((n + 1) - 719468) = DateAt(f, z, q, p, l)
  BY <1>2, DateIs
<1>4. /\ e \in Int /\ d \in Nat /\ y \in Nat /\ y <= 399 /\ o \in Nat /\ o <= 365 /\ m \in Nat /\ m <= 11 /\ k \in Nat /\ k <= o
      /\ n = e * 146097 + d /\ d <= 146096 /\ d = DaysBefore(y) + o
      /\ (o = 365 => Leap(y + e * 400 + 1))
  BY <1>1, DayFacts
<1>5. /\ f \in Int /\ c \in Nat /\ z \in Nat /\ z <= 399 /\ q \in Nat /\ q <= 365
      /\ n + 1 = f * 146097 + c /\ c <= 146096
      /\ (q = 365 => Leap(z + f * 400 + 1))
  BY <1>2, <1>3, DayFacts
<1>6. MonthAt(q, p, l)
  BY <1>3 DEF DayAt
<1>7. PICK u \in Int, v \in Int : /\ Goes(y, 4, u) /\ Goes(y, 100, v) /\ o = d - (365 * y + u - v)
                                  /\ (o = 365 => LongYear(y, u, v)) /\ (Leap(y + e * 400 + 1) <=> LongYear(y, u, v))
  <2>1. PICK u \in Int, v \in Int : /\ Goes(y, 4, u) /\ Goes(y, 100, v) /\ o = d - (365 * y + u - v)
                                    /\ (o = 365 => LongYear(y, u, v))
    BY <1>1 DEF DayAt, YearAt
  <2>2. Leap(y + e * 400 + 1) <=> LongYear(y, u, v)
    BY <1>4, <2>1, LeapIs
  <2> QED BY <2>1, <2>2
<1>8. PICK r \in Int, s \in Int : /\ Goes(z, 4, r) /\ Goes(z, 100, s) /\ q = c - (365 * z + r - s)
                                  /\ (q = 365 => LongYear(z, r, s))
  BY <1>3 DEF DayAt, YearAt
<1>9. \/ f = e /\ c = d + 1
      \/ f = e + 1 /\ d = 146096 /\ c = 0
  BY <1>4, <1>5
<1>10. CASE f = e /\ c = d + 1
  <2>4. YearHas(d, y, u, v, o)
    BY <1>4, <1>7 DEF YearHas
  <2>5. YearHas(d + 1, z, r, s, q)
    BY <1>5, <1>8, <1>10 DEF YearHas
  <2>6. d \in Int
    BY <1>4
  <2>1. YearFollows(y, u, v, o, z, r, s, q)
    BY <2>4, <2>5, <2>6, YearGoesOn
  <2>2. CASE z = y
    <3>1. q = o + 1
      BY <2>1, <2>2 DEF YearFollows
    <3>2. o <= 364 /\ (o = 364 => Leap(y + e * 400 + 1))
      BY <1>4, <1>5, <1>10, <2>2, <3>1
    <3>3. DateAt(e, y, o + 1, p, l) = DayAfter(DateAt(e, y, o, m, k))
      BY <1>1, <1>6, <3>1, <3>2, NextInYear
    <3> QED BY <1>1, <1>3, <1>10, <2>2, <3>1, <3>3
  <2>3. CASE z = y + 1
    <3>1. q = 0
      BY <2>1, <2>3 DEF YearFollows
    <3>2. (o = 365 /\ Leap(y + e * 400 + 1)) \/ (o = 364 /\ ~Leap(y + e * 400 + 1))
      BY <1>7, <2>1, <2>3 DEF YearFollows
    <3>3. DayAfter(DateAt(e, y, o, m, k)) = <<y + e * 400 + 1, 3, 1>> /\ p = 0 /\ l = 0
      BY <1>1, <1>6, <3>1, <3>2, NextYear
    <3>4. DateAt(e, y + 1, 0, 0, 0) = <<y + e * 400 + 1, 3, 1>>
      BY <1>4 DEF DateAt, MonthOf
    <3> QED BY <1>1, <1>3, <1>10, <2>3, <3>1, <3>3, <3>4
  <2> QED BY <2>1, <2>2, <2>3 DEF YearFollows
<1>11. CASE f = e + 1 /\ d = 146096 /\ c = 0
  <2>1. y = 399 /\ o = 365
    BY <1>4, <1>7, <1>11, SMTT(60) DEF Goes, LongYear
  <2>2. z = 0 /\ q = 0
    BY <1>5, <1>8, <1>11, SMTT(60) DEF Goes, LongYear
  <2>3. DayAfter(DateAt(e, y, o, m, k)) = <<y + e * 400 + 1, 3, 1>> /\ p = 0 /\ l = 0
    BY <1>1, <1>4, <1>6, <2>1, <2>2, NextYear
  <2>4. DateAt(e + 1, 0, 0, 0, 0) = <<399 + e * 400 + 1, 3, 1>>
    BY <1>4 DEF DateAt, MonthOf
  <2> QED BY <1>1, <1>3, <1>11, <2>1, <2>2, <2>3, <2>4
<1> QED BY <1>9, <1>10, <1>11

\* The months before a day, and the day of its month, are the day of the year again.
LEMMA DayGivenBack ==
    ASSUME NEW e \in Int, NEW y \in Nat, y <= 399, NEW m \in Nat, m <= 11, NEW g \in Int
    PROVE  DaysFromCivil(<<y + e * 400 + (IF MonthOf(m) <= 2 THEN 1 ELSE 0), MonthOf(m), g>>)
             = e * 146097 + DaysBefore(y) + (DaysBeforeMonth(m) + g - 1) - 719468
<1> DEFINE x == MonthOf(m)
           z == y + e * 400 + (IF x <= 2 THEN 1 ELSE 0)
           year == z - (IF x <= 2 THEN 1 ELSE 0)
           era == Truncated(IF year >= 0 THEN year ELSE year - 399, 400)
<1>1. x \in 1..12 /\ MarchOf(x) = m
  BY DaysInIs
<1>2. year = y + e * 400 /\ year \in Int
  <2> HIDE DEF x
  <2> QED BY <1>1
<1>3. era = e
  <2> HIDE DEF year
  <2>1. Goes(year, 400, era)
    BY <1>2, YearTruncated
  <2>2. Goes(year, 400, e)
    BY <1>2 DEF Goes
  <2> HIDE DEF era
  <2> QED BY <1>2, <2>1, <2>2, GoesOnce
<1>4. DaysFromCivil(<<z, x, g>>) = era * 146097 + DaysBefore(year - era * 400) + (DaysBeforeMonth(MarchOf(x)) + g - 1) - 719468
  <2> HIDE DEF x, z
  <2> QED BY DEF DaysFromCivil, era, year
<1>5. year - e * 400 = y
  <2> HIDE DEF year
  <2> QED BY <1>2
<1> HIDE DEF year, era
<1>6. DaysFromCivil(<<z, x, g>>) = e * 146097 + DaysBefore(y) + (DaysBeforeMonth(m) + g - 1) - 719468
  <2> HIDE DEF x, z
  <2> QED BY <1>1, <1>3, <1>4, <1>5
<1> QED BY <1>6

\* A day of an era falls into one year only.
LEMMA OneYear ==
    ASSUME NEW d \in Int, NEW y, NEW u, NEW v, NEW o, NEW z, NEW r, NEW s, NEW q,
           YearHas(d, y, u, v, o), YearHas(d, z, r, s, q)
    PROVE  z = y /\ q = o
<1>1. z = y
  BY SMTT(60) DEF Goes, LongYear, YearHas
<1>2. u = r /\ v = s
  BY <1>1, SMTT(60) DEF Goes, YearHas
<1> QED BY <1>1, <1>2 DEF YearHas

\* And into one month.
LEMMA OneMonth ==
    ASSUME NEW o \in Int, NEW m, NEW k, NEW p, NEW l, MonthAt(o, m, k), MonthAt(o, p, l)
    PROVE  p = m /\ l = k
<1>1. k \in Int /\ l \in Int
  BY DEF MonthAt
<1>2. p = m
  BY DEF MonthAt, Goes
<1> QED BY <1>1, <1>2 DEF MonthAt, Goes

\* A month and a day of it, and the day of the year that is.
MonthHas(x, g, m, k, o) ==
  /\ m \in Nat /\ m <= 11 /\ MonthOf(m) = x /\ k = DaysBeforeMonth(m) /\ k \in Nat /\ o = k + g - 1
  /\ MonthAt(o, m, k) /\ o \in Nat /\ o <= 365 /\ (o = 365 => x = 2 /\ g = 29)

\* Every day of a month is one of the year.
LEMMA DayOfMonthIs ==
    ASSUME NEW y \in Int, NEW x \in 1..12, NEW g \in Nat \ {0}, g <= DaysIn(y, x)
    PROVE  \E m, k, o : MonthHas(x, g, m, k, o)
<1> DEFINE m == MarchOf(x)
           k == DaysBeforeMonth(m)
           o == k + g - 1
<1>1. m \in Nat /\ m <= 11 /\ MonthOf(m) = x
  BY DEF MarchOf, MonthOf
<1>2. /\ m # 11 => g <= LengthOf(m)
      /\ m = 11 => x = 2 /\ g <= 29
  <2>1. /\ m # 11 => DaysIn(y, x) = LengthOf(m)
        /\ m = 11 => x = 2 /\ DaysIn(y, x) = IF Leap(y) THEN 29 ELSE 28
    <3> HIDE DEF m
    <3> QED BY <1>1, DaysInIs
  <2> HIDE DEF m
  <2>2. CASE m # 11
    BY <2>1, <2>2
  <2>3. CASE m = 11
    <3>1. CASE Leap(y)
      BY <2>1, <2>3, <3>1
    <3>2. CASE ~Leap(y)
      BY <2>1, <2>3, <3>2
    <3> QED BY <3>1, <3>2
  <2> QED BY <2>2, <2>3
<1> HIDE DEF m
<1>3. Goes(153 * m + 2, 5, k)
  <2>1. 153 * m + 2 \in Int
    BY <1>1
  <2>2. Goes(153 * m + 2, 5, (153 * m + 2) \div 5)
    BY <2>1, GoesIs
  <2> QED BY <2>2 DEF DaysBeforeMonth
<1> HIDE DEF k
<1>4. k \in Nat
  BY <1>1, <1>3 DEF Goes
<1>5. m \in {0, 1, 2, 3, 4, 5, 6, 7, 8, 9, 10, 11}
  BY <1>1
<1>6. CASE m = 11
  <2>1. k = 337
    BY <1>3, <1>4, <1>6 DEF Goes
  <2>2. o \in Nat /\ k <= o /\ o <= 365 /\ (o = 365 => x = 2 /\ g = 29) /\ Goes(5 * o + 2, 153, m)
    BY <1>2, <1>6, <2>1 DEF Goes
  <2> HIDE DEF o
  <2>3. MonthAt(o, m, k)
    BY <1>1, <1>3, <1>4, <2>2 DEF MonthAt
  <2>4. MonthHas(x, g, m, k, o)
    BY <1>1, <1>4, <2>2, <2>3 DEF MonthHas, k, o
  <2> QED BY <2>4
<1>7. CASE m # 11
  <2>1. g <= LengthOf(m)
    BY <1>2, <1>7
  <2>2. o \in Nat /\ k <= o /\ o < 365
    BY <1>3, <1>4, <1>5, <1>7, <2>1, SMTT(60) DEF Goes, LengthOf
  <2>3. Goes(5 * o + 2, 153, m)
    BY <1>3, <1>4, <1>5, <1>7, <2>1, SMTT(60) DEF Goes, LengthOf
  <2> HIDE DEF o
  <2>4. MonthAt(o, m, k)
    BY <1>1, <1>3, <1>4, <2>2, <2>3 DEF MonthAt
  <2>5. o <= 365 /\ o # 365
    BY <2>2
  <2>6. MonthHas(x, g, m, k, o)
    BY <1>1, <1>4, <2>2, <2>4, <2>5 DEF MonthHas, k, o
  <2> QED BY <2>6
<1> QED BY <1>6, <1>7

\* A real date is that of the day it stands for.
LEMMA RealDate ==
    ASSUME NEW Y \in Int, NEW x \in 1..12, NEW g \in Nat \ {0}, g <= DaysIn(Y, x)
    PROVE  DaysFromCivil(<<Y, x, g>>) \in Int /\ CivilFromDays(DaysFromCivil(<<Y, x, g>>)) = <<Y, x, g>>
<1>1. PICK m, k, o : MonthHas(x, g, m, k, o)
  BY DayOfMonthIs
<1> DEFINE w == Y - (IF x <= 2 THEN 1 ELSE 0)
           e == w \div 400
           y == w - 400 * e
           d == DaysBefore(y) + o
           n == e * 146097 + d
<1>2. w \in Int
  OBVIOUS
<1> HIDE DEF w
<1>3. Goes(w, 400, e)
  BY <1>2, GoesIs
<1> HIDE DEF e
<1>4. e \in Int /\ y \in Nat /\ y <= 399 /\ w = y + e * 400
  BY <1>2, <1>3 DEF Goes
<1>5. Y = y + e * 400 + (IF x <= 2 THEN 1 ELSE 0)
  <2> HIDE DEF y
  <2> QED BY <1>4 DEF w
<1> HIDE DEF y
<1> DEFINE u == y \div 4
           v == y \div 100
<1>6. Goes(y, 4, u) /\ Goes(y, 100, v) /\ DaysBefore(y) = 365 * y + u - v
  <2>1. Goes(y, 4, u)
    BY <1>4, GoesIs
  <2>2. Goes(y, 100, v)
    BY <1>4, GoesIs
  <2> QED BY <2>1, <2>2 DEF DaysBefore
<1> HIDE DEF u, v
<1>7. u \in Int /\ v \in Int
  BY <1>6 DEF Goes
<1>8. o \in Nat /\ o <= 365 /\ k \in Nat /\ o = k + g - 1 /\ MonthAt(o, m, k) /\ m \in Nat /\ m <= 11 /\ MonthOf(m) = x /\ k = DaysBeforeMonth(m)
  BY <1>1 DEF MonthHas
<1>9. o = 365 => LongYear(y, u, v)
  <2> SUFFICES ASSUME o = 365 PROVE LongYear(y, u, v)
    OBVIOUS
  <2>1. x = 2 /\ g = 29
    BY <1>1 DEF MonthHas
  <2>2. DaysIn(Y, 2) = IF Leap(Y) THEN 29 ELSE 28
    BY LengthsOfMonths
  <2>3. Leap(Y)
    BY <2>1, <2>2
  <2>4. Y = y + e * 400 + 1
    BY <1>5, <2>1
  <2>5. Leap(y + e * 400 + 1) <=> LongYear(y, u, v)
    BY <1>4, <1>6, LeapIs
  <2> QED BY <2>3, <2>4, <2>5
<1>10. d \in Int /\ o = d - (365 * y + u - v) /\ o = d - DaysBefore(y)
  BY <1>4, <1>6, <1>7, <1>8
<1> HIDE DEF d
<1>11. YearHas(d, y, u, v, o)
  BY <1>4, <1>6, <1>7, <1>8, <1>9, <1>10 DEF YearHas
<1>12. 0 <= d /\ d <= 146096
  <2>1. 0 <= d
    BY <1>10, <1>11, SMTT(60) DEF YearHas, Goes
  <2>2. d <= 146096
    BY <1>10, <1>11, SMTT(60) DEF YearHas, Goes, LongYear
  <2> QED BY <2>1, <2>2
<1>13. n \in Int
  BY <1>4, <1>10
<1>14. PICK f, c, z, q, p, l : DayAt(n, f, c, z, q, p, l) /\ CivilFromDays(n - 719468) = DateAt(f, z, q, p, l)
  <2> HIDE DEF n
  <2> QED BY <1>13, DateIs
<1>15. f = e /\ c = d
  <2>1. f \in Int /\ c \in Nat /\ c <= 146096 /\ n = f * 146097 + c
    BY <1>14 DEF DayAt
  <2> QED BY <1>4, <1>10, <1>12, <2>1
<1>16. z = y /\ q = o
  <2>1. PICK r \in Int, s \in Int : /\ z \in Nat /\ z <= 399 /\ q \in Nat /\ q <= 365 /\ Goes(z, 4, r) /\ Goes(z, 100, s)
                                    /\ q = c - (365 * z + r - s) /\ (q = 365 => LongYear(z, r, s))
    BY <1>14 DEF DayAt, YearAt
  <2>2. YearHas(d, z, r, s, q)
    BY <1>15, <2>1 DEF YearHas
  <2> QED BY <1>10, <1>11, <2>2, OneYear
<1>17. p = m /\ l = k
  <2>1. MonthAt(o, p, l)
    BY <1>14, <1>16 DEF DayAt
  <2> QED BY <1>8, <2>1, OneMonth
<1>18. DateAt(e, y, o, m, k) = <<Y, x, g>>
  <2>1. o - k + 1 = g
    BY <1>8
  <2> QED BY <1>5, <1>8, <2>1 DEF DateAt
<1>19. DaysFromCivil(<<Y, x, g>>) = n - 719468
  <2>1. DaysFromCivil(<<y + e * 400 + (IF MonthOf(m) <= 2 THEN 1 ELSE 0), MonthOf(m), g>>)
          = e * 146097 + DaysBefore(y) + (DaysBeforeMonth(m) + g - 1) - 719468
    BY <1>4, <1>8, DayGivenBack
  <2>2. DaysFromCivil(<<Y, x, g>>) = e * 146097 + DaysBefore(y) + (k + g - 1) - 719468
    BY <1>5, <1>8, <2>1
  <2>3. d = DaysBefore(y) + o /\ DaysBefore(y) \in Int
    BY <1>6, <1>7, <1>4 DEF d
  <2> QED BY <1>4, <1>8, <1>10, <2>2, <2>3
<1>20. n - 719468 \in Int
  BY <1>13
<1> QED BY <1>14, <1>15, <1>16, <1>17, <1>18, <1>19, <1>20

\* A day is that of its date.
LEMMA DayOfDate ==
    ASSUME NEW n \in Int
    PROVE  IsDate(CivilFromDays(n - 719468)) /\ DaysFromCivil(CivilFromDays(n - 719468)) = n - 719468
<1>1. PICK e, d, y, o, m, k : DayAt(n, e, d, y, o, m, k) /\ CivilFromDays(n - 719468) = DateAt(e, y, o, m, k)
  BY DateIs
<1>2. IsDate(DateAt(e, y, o, m, k))
  BY <1>1, DateIsDate
<1>3. /\ e \in Int /\ d \in Nat /\ y \in Nat /\ y <= 399 /\ o \in Nat /\ o <= 365 /\ m \in Nat /\ m <= 11 /\ k \in Nat /\ k <= o
      /\ n = e * 146097 + d /\ d = DaysBefore(y) + o
  BY <1>1, DayFacts
<1>4. k = DaysBeforeMonth(m)
  <2> DEFINE b == 153 * m + 2
             j == DaysBeforeMonth(m)
  <2>3. b \in Int
    BY <1>3
  <2>1. Goes(b, 5, j)
    <3>1. j = b \div 5
      BY DEF DaysBeforeMonth
    <3> HIDE DEF b, j
    <3> QED BY <2>3, <3>1, GoesIs
  <2>2. Goes(b, 5, k)
    BY <1>1 DEF DayAt, MonthAt
  <2>4. j = k
    <3> HIDE DEF b, j
    <3> QED BY <2>1, <2>2, <2>3, GoesOnce
  <2> QED BY <2>4
<1> DEFINE g == o - k + 1
<1>5. g \in Int /\ k + g - 1 = o
  BY <1>3
<1>6. DaysFromCivil(DateAt(e, y, o, m, k)) = e * 146097 + DaysBefore(y) + (DaysBeforeMonth(m) + g - 1) - 719468
  <2>1. DateAt(e, y, o, m, k) = <<y + e * 400 + (IF MonthOf(m) <= 2 THEN 1 ELSE 0), MonthOf(m), g>>
    BY DEF DateAt
  <2> HIDE DEF g
  <2> QED BY <1>3, <1>5, <2>1, DayGivenBack
<1>7. DaysBefore(y) \in Int
  <2>1. Goes(y, 4, y \div 4)
    BY <1>3, GoesIs
  <2>2. Goes(y, 100, y \div 100)
    BY <1>3, GoesIs
  <2> QED BY <1>3, <2>1, <2>2 DEF DaysBefore, Goes
<1> HIDE DEF g
<1>8. DaysFromCivil(DateAt(e, y, o, m, k)) = n - 719468
  BY <1>3, <1>4, <1>5, <1>6, <1>7
<1> QED BY <1>1, <1>2, <1>8

\* civil_from_days and days_from_civil (clock.rs) are the calendar everyone knows, over
\* all days and not only those of one era: the first of January 1970 is day 0, the next
\* day has the next date, leap days and centuries heeded, every day has a real date and
\* is given back by it, and every real date is that of the day it stands for.
THEOREM DatesOfAllDays ==
    /\ CivilFromDays(0) = <<1970, 1, 1>>
    /\ \A n \in Int : /\ IsDate(CivilFromDays(n)) /\ DaysFromCivil(CivilFromDays(n)) = n
                      /\ CivilFromDays(n + 1) = DayAfter(CivilFromDays(n))
    /\ \A d : IsDate(d) => DaysFromCivil(d) \in Int /\ CivilFromDays(DaysFromCivil(d)) = d
<1>1. \A d : IsDate(d) => DaysFromCivil(d) \in Int /\ CivilFromDays(DaysFromCivil(d)) = d
  <2> SUFFICES ASSUME NEW d, IsDate(d) PROVE DaysFromCivil(d) \in Int /\ CivilFromDays(DaysFromCivil(d)) = d
    OBVIOUS
  <2>1. PICK y \in Int, m \in 1..12, g \in Nat \ {0} : d = <<y, m, g>> /\ g <= DaysIn(y, m)
    BY DEF IsDate
  <2> QED BY <2>1, RealDate
<1>2. ASSUME NEW n \in Int
      PROVE  /\ IsDate(CivilFromDays(n)) /\ DaysFromCivil(CivilFromDays(n)) = n
             /\ CivilFromDays(n + 1) = DayAfter(CivilFromDays(n))
  <2> DEFINE s == n + 719468
  <2>1. s \in Int /\ s - 719468 = n /\ (s + 1) - 719468 = n + 1
    OBVIOUS
  <2> HIDE DEF s
  <2>2. IsDate(CivilFromDays(s - 719468)) /\ DaysFromCivil(CivilFromDays(s - 719468)) = s - 719468
    BY <2>1, DayOfDate
  <2>3. CivilFromDays((s + 1) - 719468) = DayAfter(CivilFromDays(s - 719468))
    BY <2>1, NextDate
  <2> QED BY <2>1, <2>2, <2>3
<1>3. CivilFromDays(0) = <<1970, 1, 1>>
  <2>1. IsDate(<<1970, 1, 1>>)
    <3>1. DaysIn(1970, 1) = 31
      BY LengthsOfMonths
    <3> QED BY <3>1 DEF IsDate
  <2>2. DaysFromCivil(<<1970, 1, 1>>) = 0
    <3>1. DaysFromCivil(<<369 + 4 * 400 + (IF MonthOf(10) <= 2 THEN 1 ELSE 0), MonthOf(10), 1>>)
            = 4 * 146097 + DaysBefore(369) + (DaysBeforeMonth(10) + 1 - 1) - 719468
      BY DayGivenBack
    <3>2. MonthOf(10) = 1
      BY DEF MonthOf
    <3>3. DaysBeforeMonth(10) = 306 /\ DaysBefore(369) = 134774
      BY DEF DaysBeforeMonth, DaysBefore
    <3> QED BY <3>1, <3>2, <3>3
  <2> QED BY <1>1, <2>1, <2>2
<1> QED BY <1>1, <1>2, <1>3

\* In every run of the clock the arithmetic agrees with the days counted by hand.
THEOREM CalendarIsRight == CalendarSpec => []CalendarAgrees
<1> DEFINE Inv == today \in Int /\ CalendarAgrees
<1>1. CalendarInit => Inv
  <2> SUFFICES ASSUME CalendarInit PROVE Inv
    OBVIOUS
  <2>1. PICK y \in Int, x \in 1..12, g \in 1..28 : date = <<y, x, g>> /\ today = DaysFromCivil(<<y, x, g>>)
    <3>1. date \in Int \X (1..12) \X (1..28) /\ today = DaysFromCivil(date)
      BY WalksAssumption, Zenon DEF CalendarInit
    <3>2. PICK y \in Int, x \in 1..12, g \in 1..28 : date = <<y, x, g>>
      BY <3>1
    <3> QED BY <3>1, <3>2
  <2>2. g <= DaysIn(y, x)
    <3>1. x \notin {2, 4, 6, 9, 11} => DaysIn(y, x) = 31
      BY LengthsOfMonths
    <3>2. x \in {4, 6, 9, 11} => DaysIn(y, x) = 30
      BY LengthsOfMonths
    <3>3. x = 2 => DaysIn(y, x) = IF Leap(y) THEN 29 ELSE 28
      BY LengthsOfMonths
    <3>4. DaysIn(y, x) \in {28, 29, 30, 31}
      BY <3>1, <3>2, <3>3
    <3> QED BY <3>4
  <2>3. IsDate(date)
    BY <2>1, <2>2 DEF IsDate
  <2> QED BY <2>1, <2>3, DatesOfAllDays DEF CalendarAgrees
<1>2. Inv /\ [CalendarNext]_calendarVars => Inv'
  <2> SUFFICES ASSUME Inv, [CalendarNext]_calendarVars PROVE Inv'
    OBVIOUS
  <2>1. CASE DayPasses
    <3>1. today' = today + 1 /\ date' = DayAfter(date)
      BY <2>1 DEF DayPasses
    <3>2. CivilFromDays(today + 1) = DayAfter(date) /\ today + 1 \in Int
      BY DatesOfAllDays DEF CalendarAgrees
    <3>3. DaysFromCivil(DayAfter(date)) = today + 1
      BY <3>2, DatesOfAllDays
    <3> QED BY <3>1, <3>2, <3>3 DEF CalendarAgrees
  <2>2. CASE UNCHANGED <<today, date>>
    BY <2>2 DEF CalendarAgrees
  <2>3. DayPasses \/ UNCHANGED <<today, date>>
    BY DEF CalendarNext, ShowTime, ShowExpiry, Countdown, Duration, calendarVars
  <2> QED BY <2>1, <2>2, <2>3
<1> QED BY <1>1, <1>2, PTL DEF CalendarSpec
=============================================================================
