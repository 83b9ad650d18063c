------------------------- MODULE ProxyReader_proofs -------------------------
(***************************************************************************)
(* The reader never delivers a uid twice while it should remember it, and  *)
(* never keeps more messages than its limits, whatever packets arrive and  *)
(* whatever the limits are.                                                *)
(***************************************************************************)
EXTENDS ProxyReader, FiniteSetTheorems, WellFoundedInduction, TLAPS

\* Expiry keeps some of the pending messages, unchanged.
LEMMA UnexpiredKeeps ==
    /\ DOMAIN Unexpired \subseteq DOMAIN partial
    /\ \A u \in DOMAIN Unexpired : Unexpired[u] = partial[u] /\ now - partial[u].createdAt < TTL
    /\ Unexpired = [u \in DOMAIN Unexpired |-> Unexpired[u]]
BY DEF Unexpired, Restrict

\* Expiry keeps exactly the uids completed less than a TTL ago.
LEMMA RememberedKeeps ==
    /\ DOMAIN Remembered = {u \in DOMAIN completed : now - completed[u] < TTL}
    /\ \A u \in DOMAIN Remembered : Remembered[u] = completed[u]
    /\ Remembered = [u \in DOMAIN Remembered |-> Remembered[u]]
BY DEF Remembered, Restrict

\* Removing keys from a map of finite domain leaves a smaller map.
LEMMA SmallerDomain ==
    ASSUME NEW S \in SUBSET Uids, NEW T \in SUBSET S
    PROVE  IsFiniteSet(S) /\ IsFiniteSet(T) /\ Cardinality(T) <= Cardinality(S)
           /\ Cardinality(T) \in Nat /\ Cardinality(S) \in Nat
BY UidAssumption, FS_Subset, FS_CardinalityType

\* What an accepted packet leaves in the map before the space is checked: a
\* subset of the unexpired messages and the message of the packet, well formed,
\* one slot at most above the others.
LEMMA WithChunkShape ==
    ASSUME IInv, NEW p \in Packets, ~Ignored(p), NEW E \in SlotEvictions(p)
    PROVE  LET m == WithChunk(p, E) IN
           /\ m = [u \in DOMAIN m |-> m[u]]
           /\ p.uid \in DOMAIN m
           /\ DOMAIN m \subseteq DOMAIN Unexpired \cup {p.uid}
           /\ \A u \in DOMAIN m \ {p.uid} : m[u] = partial[u]
           /\ p.uid \in Uids \ DOMAIN Remembered
           /\ IsPendingMessage(m[p.uid])
           /\ now - m[p.uid].createdAt \in 0..(TTL - 1)
           /\ Cardinality(DOMAIN m) <= MaxPending
<1> DEFINE m == WithChunk(p, E)
<1>1. /\ p.uid \in Uids \ DOMAIN Remembered
      /\ p.total \in 1..MaxChunks /\ p.index \in 1..p.total /\ p.data \in Chunk
      /\ p.uid \in DOMAIN Unexpired =>
            Unexpired[p.uid].total = p.total /\ p.index \notin DOMAIN Unexpired[p.uid].chunks
  BY PacketAssumption, BoundsAssumption DEF Ignored, Valid, Packet, Chunk
<1>2. DOMAIN m = (DOMAIN Unexpired \ (IF p.uid \in DOMAIN Unexpired THEN {} ELSE E)) \cup {p.uid}
  BY DEF WithChunk, Put, Without, Restrict
<1>3. m = [u \in DOMAIN m |-> m[u]]
  BY DEF WithChunk, Put
<1>4. \A u \in DOMAIN m \ {p.uid} : m[u] = partial[u]
  BY <1>2, UnexpiredKeeps DEF WithChunk, Put, Without, Restrict
<1>5. IsPendingMessage(m[p.uid]) /\ now - m[p.uid].createdAt \in 0..(TTL - 1)
  <2>1. CASE p.uid \in DOMAIN Unexpired
    <3> DEFINE old == partial[p.uid]
    <3>1. m[p.uid] = AddChunk(old, p)
      BY <2>1, UnexpiredKeeps DEF WithChunk, Put
    <3>2. IsPendingMessage(old) /\ old.total = p.total /\ p.index \notin DOMAIN old.chunks
          /\ now - old.createdAt < TTL
      BY <2>1, <1>1, UnexpiredKeeps DEF IInv, TypeOK
    <3>3. IsPartialFn(Put(old.chunks, p.index, p.data), 1..p.total, Chunk)
      BY <3>2, <1>1 DEF IsPendingMessage, IsPartialFn, Put
    <3>4. AddChunk(old, p) = [total |-> old.total, chunks |-> Put(old.chunks, p.index, p.data),
                              createdAt |-> old.createdAt, chars |-> old.chars + p.data.len]
      BY <3>2 DEF AddChunk, IsPendingMessage
    <3>5. old.chars + p.data.len \in Nat
      BY <3>2, <1>1, BoundsAssumption DEF IsPendingMessage, Chunk
    <3>6. now \in Nat /\ old.createdAt \in 0..now
      BY <3>2 DEF IsPendingMessage, IInv, TypeOK
    <3> QED BY <3>1, <3>2, <3>3, <3>4, <3>5, <3>6, <1>1, BoundsAssumption DEF IsPendingMessage
  <2>2. CASE p.uid \notin DOMAIN Unexpired
    <3>1. m[p.uid] = AddChunk(NewMessage(p), p)
      BY <2>2 DEF WithChunk, Put
    <3>2. AddChunk(NewMessage(p), p) =
             [total |-> p.total, chunks |-> Put(<<>>, p.index, p.data),
              createdAt |-> now, chars |-> p.data.len]
      BY <1>1, BoundsAssumption DEF AddChunk, NewMessage, Chunk
    <3>3. IsPartialFn(Put(<<>>, p.index, p.data), 1..p.total, Chunk)
      BY <1>1 DEF IsPartialFn, Put
    <3> QED BY <3>1, <3>2, <3>3, <1>1, BoundsAssumption DEF IsPendingMessage, IInv, TypeOK, Chunk
  <2> QED BY <2>1, <2>2
<1>6. Cardinality(DOMAIN m) <= MaxPending
  <2>1. DOMAIN Unexpired \subseteq DOMAIN partial /\ DOMAIN partial \subseteq Uids
        /\ Cardinality(DOMAIN partial) <= MaxPending
    BY UnexpiredKeeps DEF IInv, TypeOK, WithinLimits
  <2>2. Cardinality(DOMAIN Unexpired) <= MaxPending
    BY <2>1, SmallerDomain, BoundsAssumption
  <2>3. CASE p.uid \in DOMAIN Unexpired
    <3>1. DOMAIN m = DOMAIN Unexpired
      BY <1>2, <2>3
    <3> QED BY <3>1, <2>2
  <2>4. CASE p.uid \notin DOMAIN Unexpired
    <3> DEFINE rest == DOMAIN Unexpired \ E
    <3>1. Cardinality(rest) < MaxPending
      BY <2>4 DEF SlotEvictions, EvictedForSlot
    <3>2. DOMAIN m = rest \cup {p.uid} /\ p.uid \notin rest
      BY <1>2, <2>4
    <3>3. IsFiniteSet(rest) /\ Cardinality(rest) \in Nat
      BY <2>1, SmallerDomain
    <3>4. Cardinality(rest \cup {p.uid}) = Cardinality(rest) + 1
      BY <3>2, <3>3, FS_AddElement
    <3> QED BY <3>1, <3>2, <3>3, <3>4, BoundsAssumption
  <2> QED BY <2>3, <2>4
<1> QED BY <1>1, <1>2, <1>3, <1>4, <1>5, <1>6

\* Dropping messages from a well formed map keeps the parts of the invariant
\* that speak of pending.
LEMMA WithoutShape ==
    ASSUME NEW m, NEW E
    PROVE  /\ DOMAIN Without(m, E) = DOMAIN m \ E
           /\ \A u \in DOMAIN m \ E : Without(m, E)[u] = m[u]
           /\ Without(m, E) = [u \in DOMAIN Without(m, E) |-> Without(m, E)[u]]
BY DEF Without, Restrict

\* Appending a completion keeps the earlier ones.
LEMMA AppendKeeps ==
    ASSUME TypeOK, NEW e \in Completion
    PROVE  /\ Append(log, e) \in Seq(Completion)
           /\ Len(Append(log, e)) = Len(log) + 1
           /\ Append(log, e)[Len(log) + 1] = e
           /\ \A i \in 1..Len(log) : Append(log, e)[i] = log[i] /\ log[i] \in Completion
           /\ Len(log) \in Nat
BY DEF TypeOK

\* The part of the invariant about completions survives expiry: a completion
\* that expiry drops from completed is a TTL old.
LEMMA ExpiryRemembers ==
    ASSUME IInv
    PROVE  /\ \A i \in 1..Len(log) :
                 \/ Forgotten(i)
                 \/ log[i].uid \in DOMAIN Remembered /\ Remembered[log[i].uid] = log[i].at
           /\ \A u \in DOMAIN Remembered :
                 \E i \in 1..Len(log) : log[i].uid = u /\ log[i].at = Remembered[u]
<1>1. ASSUME NEW i \in 1..Len(log), ~Forgotten(i)
      PROVE  log[i].uid \in DOMAIN Remembered /\ Remembered[log[i].uid] = log[i].at
  <2>1. log[i].uid \in DOMAIN completed /\ completed[log[i].uid] = log[i].at
    BY <1>1 DEF IInv, CompletionsRemembered
  <2>2. log[i].at \in Nat /\ now \in Nat /\ ~(now - log[i].at >= TTL)
    <3>1. log[i] \in Completion /\ now \in Nat
      BY DEF IInv, TypeOK
    <3> QED BY <1>1, <3>1 DEF Forgotten, Completion
  <2> QED BY <2>1, <2>2, RememberedKeeps, BoundsAssumption
<1>2. ASSUME NEW u \in DOMAIN Remembered
      PROVE  \E i \in 1..Len(log) : log[i].uid = u /\ log[i].at = Remembered[u]
  BY RememberedKeeps DEF IInv, CompletionsRemembered
<1> QED BY <1>1, <1>2

\* A step that only lets things expire preserves the invariant.
LEMMA ExpiryStep ==
    ASSUME IInv, partial' = Unexpired, completed' = Remembered, UNCHANGED <<now, log>>
    PROVE  IInv'
<1> USE DEF IInv
<1>1. TypeOK'
  BY UnexpiredKeeps, RememberedKeeps DEF TypeOK, IsPartialFn, IsPendingMessage
<1>2. WithinLimits'
  <2>1. DOMAIN Unexpired \subseteq DOMAIN partial /\ DOMAIN partial \subseteq Uids
        /\ DOMAIN Remembered \subseteq DOMAIN completed /\ DOMAIN completed \subseteq Uids
    BY UnexpiredKeeps, RememberedKeeps DEF TypeOK, IsPartialFn
  <2> QED BY <2>1, SmallerDomain, BoundsAssumption DEF WithinLimits
<1>3. NothingStuck'
  BY UnexpiredKeeps, RememberedKeeps DEF NothingStuck, Whole
<1>4. AtMostOnce'
  BY DEF AtMostOnce, NotOlder
<1>5. AssembledInOneWindow'
  BY DEF AssembledInOneWindow
<1>6. CompletionsRemembered'
  BY ExpiryRemembers DEF CompletionsRemembered, Forgotten, NotOlder
<1> QED BY <1>1, <1>2, <1>3, <1>4, <1>5, <1>6
\* A completion that trimming drops from c is crowded out: MaxCompleted other
\* uids of c completed no earlier, each of them at its own place of the log.
LEMMA TrimmedIsCrowdedOut ==
    ASSUME NEW n \in Nat, NEW L, NEW c, DOMAIN c \subseteq Uids,
           \A u \in DOMAIN c : c[u] \in Nat,
           \A u \in DOMAIN c : \E k \in 1..n : L[k].uid = u /\ L[k].at = c[u],
           NEW E \in TrimmedFrom(c), NEW i \in 1..n,
           L[i].uid \in E, L[i].at = c[L[i].uid]
    PROVE  Cardinality({k \in 1..n : k # i /\ L[k].at >= L[i].at}) >= MaxCompleted
<1> DEFINE kept == DOMAIN c \ E
           later == {k \in 1..n : k # i /\ L[k].at >= L[i].at}
           place == [u \in kept |-> CHOOSE k \in 1..n : L[k].uid = u /\ L[k].at = c[u]]
<1>1. /\ Cardinality(kept) = MaxCompleted
      /\ E \subseteq DOMAIN c
      /\ \A e \in E, k \in kept : c[e] <= c[k]
  BY DEF TrimmedFrom
<1>2. \A u \in kept : place[u] \in 1..n /\ L[place[u]].uid = u /\ L[place[u]].at = c[u]
  OBVIOUS
<1>3. \A u \in kept : place[u] \in later
  BY <1>1, <1>2
<1>4. place \in Injection(kept, later)
  BY <1>2, <1>3 DEF Injection, IsInjective
<1>5. IsFiniteSet(later)
  <2>1. IsFiniteSet(1..n)
    BY FS_Interval
  <2>2. later \in SUBSET (1..n)
    OBVIOUS
  <2> QED BY <2>1, <2>2, FS_Subset
<1> HIDE DEF kept, later, place
<1>6. Cardinality(kept) <= Cardinality(later)
  BY <1>4, <1>5, FS_Injection
<1> QED BY <1>1, <1>6, <1>5, FS_CardinalityType, BoundsAssumption DEF later

\* More entries can only add to those that crowd a completion out.
LEMMA ForgottenGrows ==
    ASSUME TypeOK, NEW e \in Completion, NEW i \in 1..Len(log), NEW n \in 1..Len(log), i <= n
    PROVE  LET L == Append(log, e) IN
           /\ Cardinality(NotOlder(i, n)) \in Nat
           /\ IsFiniteSet({k \in 1..(n + 1) : k # i /\ L[k].at >= L[i].at})
           /\ {k \in 1..n : k # i /\ L[k].at >= L[i].at} = NotOlder(i, n)
           /\ Cardinality({k \in 1..(n + 1) : k # i /\ L[k].at >= L[i].at}) \in Nat
           /\ Cardinality({k \in 1..(n + 1) : k # i /\ L[k].at >= L[i].at})
                >= Cardinality(NotOlder(i, n))
<1> DEFINE L == Append(log, e)
           after == {k \in 1..(n + 1) : k # i /\ L[k].at >= L[i].at}
<1>1. n \in Nat /\ n + 1 \in Nat /\ Len(log) \in Nat
  BY DEF TypeOK
<1>2. \A k \in 1..n : L[k] = log[k]
  BY <1>1, AppendKeeps
<1>3. {k \in 1..n : k # i /\ L[k].at >= L[i].at} = NotOlder(i, n)
  BY <1>1, <1>2 DEF NotOlder
<1>4. NotOlder(i, n) \subseteq after
  BY <1>1, <1>3
<1>5. IsFiniteSet(after)
  <2>1. IsFiniteSet(1..(n + 1)) /\ after \in SUBSET (1..(n + 1))
    BY <1>1, FS_Interval
  <2> QED BY <2>1, FS_Subset
<1> HIDE DEF after
<1>6. IsFiniteSet(NotOlder(i, n)) /\ Cardinality(NotOlder(i, n)) <= Cardinality(after)
  BY <1>4, <1>5, FS_Subset
<1> QED BY <1>3, <1>5, <1>6, FS_CardinalityType DEF after
-----------------------------------------------------------------------------
\* Of some natural numbers one is the least.
LEMMA Least ==
    ASSUME NEW T \in SUBSET Nat, T # {}
    PROVE  \E x \in T : \A y \in T : x <= y
<1> DEFINE R == {ss \in Nat \X Nat : ss[1] < ss[2]}
<1>1. IsWellFoundedOn(R, Nat)
  BY NatLessThanWellFounded DEF OpToRel
<1>2. \A x, y \in Nat : y < x => <<y, x>> \in R
  OBVIOUS
<1>3. \E x \in T : \A y \in T : ~(<<y, x>> \in R)
  <2> HIDE DEF R
  <2> QED BY <1>1, WFMin
<1> HIDE DEF R
<1>4. PICK x \in T : \A y \in T : ~(<<y, x>> \in R)
  BY <1>3
<1>5. \A y \in T : x <= y
  <2> SUFFICES ASSUME NEW y \in T PROVE x <= y
    OBVIOUS
  <2>1. x \in Nat /\ y \in Nat
    OBVIOUS
  <2>2. ~(y < x)
    BY <1>2, <1>4, <2>1
  <2> QED BY <2>1, <2>2
<1> QED BY <1>5

\* Units f[x] at each x.
Heap(f, S) == UNION {{<<x, k>> : k \in 1..f[x]} : x \in S}

\* The units at one place are as many as it has.
LEMMA HeapOfOne ==
    ASSUME NEW f, NEW x, f[x] \in Nat
    PROVE  IsFiniteSet(Heap(f, {x})) /\ Cardinality(Heap(f, {x})) = f[x]
<1> DEFINE n == f[x]
           b == [k \in 1..n |-> <<x, k>>]
           H == {<<x, k>> : k \in 1..n}
<1>1. Heap(f, {x}) = H
  BY DEF Heap
<1>2. IsFiniteSet(1..n) /\ Cardinality(1..n) = n
  BY FS_Interval
<1>3. b \in Bijection(1..n, H)
  BY DEF Bijection, Injection, Surjection, IsInjective
<1> HIDE DEF b, H
<1>4. ExistsBijection(1..n, H)
  BY <1>3 DEF ExistsBijection
<1>5. IsFiniteSet(H) /\ Cardinality(H) = n
  BY <1>2, <1>4, FS_Bijection
<1> QED BY <1>1, <1>5

\* One place more adds the units it has.
LEMMA HeapMore ==
    ASSUME NEW f, NEW S, NEW x \in S, f[x] \in Nat, IsFiniteSet(Heap(f, S \ {x}))
    PROVE  /\ IsFiniteSet(Heap(f, S))
           /\ Cardinality(Heap(f, S)) = f[x] + Cardinality(Heap(f, S \ {x}))
<1>1. Heap(f, S) = Heap(f, {x}) \cup Heap(f, S \ {x})
  BY DEF Heap
<1>2. Heap(f, {x}) \cap Heap(f, S \ {x}) = {}
  BY DEF Heap
<1>3. IsFiniteSet(Heap(f, {x})) /\ Cardinality(Heap(f, {x})) = f[x]
  BY HeapOfOne
<1> DEFINE A == Heap(f, {x})
           B == Heap(f, S \ {x})
<1> HIDE DEF A, B
<1>4. IsFiniteSet(A) /\ IsFiniteSet(B) /\ A \cap B = {} /\ Cardinality(A) = f[x] /\ Cardinality(B) \in Nat
  BY <1>2, <1>3, FS_CardinalityType DEF A, B
<1>5. IsFiniteSet(A \cup B) /\ Cardinality(A \cup B) = Cardinality(A) + Cardinality(B) - Cardinality({})
  BY <1>4, FS_Union
<1>6. Cardinality({}) = 0
  BY FS_EmptySet
<1>7. Cardinality(A \cup B) = f[x] + Cardinality(B)
  BY <1>4, <1>5, <1>6
<1> QED BY <1>1, <1>5, <1>7 DEF A, B

\* The heap over a finite set is finite.
LEMMA HeapIsFinite ==
    ASSUME NEW f, NEW S, IsFiniteSet(S), \A x \in S : f[x] \in Nat
    PROVE  IsFiniteSet(Heap(f, S)) /\ Cardinality(Heap(f, S)) \in Nat
<1> DEFINE Parts == {Heap(f, {x}) : x \in S}
           Part == [x \in S |-> Heap(f, {x})]
<1>1. Part \in Surjection(S, Parts)
  BY DEF Surjection
<1>2. Heap(f, S) = UNION Parts
  BY DEF Heap
<1>3. \A P \in Parts : IsFiniteSet(P)
  BY HeapOfOne
<1> HIDE DEF Parts, Part
<1>4. IsFiniteSet(Parts)
  BY <1>1, FS_Surjection
<1>5. IsFiniteSet(UNION Parts)
  BY <1>3, <1>4, FS_UNION
<1> QED BY <1>2, <1>5, FS_CardinalityType

\* The sum of the community modules adds up natural numbers: it is the size of
\* the heap that has f[x] units at each x.
LEMMA SumIsHeap ==
    ASSUME NEW f, NEW S, IsFiniteSet(S), \A x \in S : f[x] \in Nat
    PROVE  SumFunctionOnSet(f, S) = Cardinality(Heap(f, S))
<1> DEFINE size == [s \in SUBSET S |-> Cardinality(Heap(f, s))]
           Pick(s) == CHOOSE x \in s : TRUE
           iter == CHOOSE g : g = [s \in SUBSET S |-> IF s = {} THEN 0 ELSE f[Pick(s)] + g[s \ {Pick(s)}]]
<1>1. \A s \in SUBSET S : IsFiniteSet(s) /\ IsFiniteSet(Heap(f, s)) /\ Cardinality(Heap(f, s)) \in Nat
  BY FS_Subset, HeapIsFinite
<1>2. \A s \in SUBSET S : s # {} => Pick(s) \in s
  OBVIOUS
<1>3. Heap(f, {}) = {}
  BY DEF Heap
<1>4. \A s \in SUBSET S : size[s] = IF s = {} THEN 0 ELSE f[Pick(s)] + size[s \ {Pick(s)}]
  <2> SUFFICES ASSUME NEW s \in SUBSET S PROVE size[s] = IF s = {} THEN 0 ELSE f[Pick(s)] + size[s \ {Pick(s)}]
    OBVIOUS
  <2>1. CASE s = {}
    BY <1>3, <2>1, FS_EmptySet
  <2>2. CASE s # {}
    <3> HIDE DEF Pick
    <3>1. Pick(s) \in s /\ Pick(s) \in S /\ s \ {Pick(s)} \in SUBSET S
      BY <1>2, <2>2
    <3>2. f[Pick(s)] \in Nat /\ IsFiniteSet(Heap(f, s \ {Pick(s)}))
      BY <1>1, <3>1
    <3>3. Cardinality(Heap(f, s)) = f[Pick(s)] + Cardinality(Heap(f, s \ {Pick(s)}))
      BY <3>1, <3>2, HeapMore
    <3> QED BY <2>2, <3>1, <3>3
  <2> QED BY <2>1, <2>2
<1> HIDE DEF Pick
<1>5. size = [s \in SUBSET S |-> IF s = {} THEN 0 ELSE f[Pick(s)] + size[s \ {Pick(s)}]]
  BY <1>4
<1>6. iter = [s \in SUBSET S |-> IF s = {} THEN 0 ELSE f[Pick(s)] + iter[s \ {Pick(s)}]]
  <2> HIDE DEF size
  <2> QED BY <1>5
<1> HIDE DEF iter
<1>7. \A s \in SUBSET S : iter[s] = size[s]
  <2> DEFINE Wrong == {n \in Nat : \E s \in SUBSET S : Cardinality(s) = n /\ iter[s] # size[s]}
  <2>1. SUFFICES ASSUME Wrong # {} PROVE FALSE
    BY <1>1, FS_CardinalityType
  <2>2. PICK n \in Wrong : \A m \in Wrong : n <= m
    <3>1. Wrong \in SUBSET Nat
      OBVIOUS
    <3> HIDE DEF Wrong
    <3> QED BY <2>1, <3>1, Least
  <2>3. PICK s \in SUBSET S : Cardinality(s) = n /\ iter[s] # size[s]
    OBVIOUS
  <2> DEFINE r == s \ {Pick(s)}
  <2> HIDE DEF size
  <2>4. s # {}
    BY <1>4, <1>6, <2>3
  <2>5. r \in SUBSET S /\ Pick(s) \in s
    BY <1>2, <2>4
  <2>6. Cardinality(r) = n - 1 /\ n - 1 \in Nat
    <3>1. IsFiniteSet(s) /\ IsFiniteSet(r)
      BY <1>1, <2>5
    <3>2. Cardinality(r) = Cardinality(s) - 1
      BY <2>5, <3>1, FS_RemoveElement
    <3> QED BY <2>3, <3>1, <3>2, FS_CardinalityType
  <2>7. iter[r] = size[r]
    BY <2>2, <2>5, <2>6
  <2>8. iter[s] = f[Pick(s)] + iter[r] /\ size[s] = f[Pick(s)] + size[r]
    BY <1>4, <1>6, <2>4
  <2> QED BY <2>3, <2>7, <2>8
<1>8. SumFunctionOnSet(f, S) = iter[S]
  BY DEF SumFunctionOnSet, FoldFunctionOnSet, MapThenFoldSet, iter, Pick
<1> QED BY <1>7, <1>8

\* A sum over a set is the sum over a part of it and over the rest.
LEMMA SumSplit ==
    ASSUME NEW f, NEW S, IsFiniteSet(S), \A x \in S : f[x] \in Nat, NEW T \in SUBSET S
    PROVE  /\ SumFunctionOnSet(f, S) = SumFunctionOnSet(f, T) + SumFunctionOnSet(f, S \ T)
           /\ SumFunctionOnSet(f, S) \in Nat
           /\ SumFunctionOnSet(f, T) \in Nat
           /\ SumFunctionOnSet(f, S \ T) \in Nat
<1> DEFINE A == Heap(f, T)
           B == Heap(f, S \ T)
<1>1. IsFiniteSet(T) /\ IsFiniteSet(S \ T)
  BY FS_Subset, S \ T \in SUBSET S
<1>2. A \cap B = {} /\ Heap(f, S) = A \cup B
  BY DEF Heap
<1>3. IsFiniteSet(A) /\ IsFiniteSet(B) /\ Cardinality(A) \in Nat /\ Cardinality(B) \in Nat
  BY <1>1, HeapIsFinite
<1>4. /\ SumFunctionOnSet(f, T) = Cardinality(A)
      /\ SumFunctionOnSet(f, S \ T) = Cardinality(B)
      /\ SumFunctionOnSet(f, S) = Cardinality(A \cup B)
  BY <1>1, <1>2, SumIsHeap
<1> HIDE DEF A, B
<1>5. Cardinality(A \cup B) = Cardinality(A) + Cardinality(B) - Cardinality({})
  BY <1>2, <1>3, FS_Union
<1>6. Cardinality({}) = 0
  BY FS_EmptySet
<1> QED BY <1>3, <1>4, <1>5, <1>6

\* A sum does not depend on what lies outside the set.
LEMMA SumSame ==
    ASSUME NEW f, NEW g, NEW S, IsFiniteSet(S), \A x \in S : f[x] \in Nat /\ g[x] = f[x]
    PROVE  SumFunctionOnSet(f, S) = SumFunctionOnSet(g, S)
<1>1. Heap(f, S) = Heap(g, S)
  BY DEF Heap
<1>2. \A x \in S : g[x] \in Nat
  OBVIOUS
<1>3. SumFunctionOnSet(f, S) = Cardinality(Heap(f, S))
  BY SumIsHeap
<1>4. SumFunctionOnSet(g, S) = Cardinality(Heap(g, S))
  BY <1>2, SumIsHeap
<1> QED BY <1>1, <1>3, <1>4

\* The sum over nothing, and over one.
LEMMA SumFew ==
    ASSUME NEW f
    PROVE  /\ SumFunctionOnSet(f, {}) = 0
           /\ \A x : f[x] \in Nat => SumFunctionOnSet(f, {x}) = f[x]
<1>1. SumFunctionOnSet(f, {}) = 0
  <2>1. Heap(f, {}) = {}
    BY DEF Heap
  <2>2. IsFiniteSet({}) /\ Cardinality({}) = 0
    BY FS_EmptySet
  <2>3. SumFunctionOnSet(f, {}) = Cardinality(Heap(f, {}))
    BY <2>2, SumIsHeap
  <2> QED BY <2>1, <2>2, <2>3
<1>2. ASSUME NEW x, f[x] \in Nat PROVE SumFunctionOnSet(f, {x}) = f[x]
  <2>1. IsFiniteSet({x})
    BY FS_Singleton
  <2>2. SumFunctionOnSet(f, {x}) = Cardinality(Heap(f, {x}))
    BY <1>2, <2>1, SumIsHeap
  <2> QED BY <1>2, <2>2, HeapOfOne
<1> QED BY <1>1, <1>2

-----------------------------------------------------------------------------
\* Every message of the map counts a natural number of characters.
Counts(m) == DOMAIN m \subseteq Uids /\ \A u \in DOMAIN m : m[u].chars \in Nat

\* What a part of a map holds, and the rest of it.
LEMMA HeldSplit ==
    ASSUME NEW m, Counts(m), NEW E \in SUBSET DOMAIN m
    PROVE  /\ Held(m, DOMAIN m) = Held(m, E) + Held(m, DOMAIN m \ E)
           /\ Held(m, DOMAIN m) \in Nat /\ Held(m, E) \in Nat /\ Held(m, DOMAIN m \ E) \in Nat
<1> DEFINE f == [u \in DOMAIN m |-> m[u].chars]
<1>1. IsFiniteSet(DOMAIN m)
  BY UidAssumption, FS_Subset DEF Counts
<1>2. \A u \in DOMAIN m : f[u] \in Nat
  BY DEF Counts
<1> HIDE DEF f
<1>3. /\ SumFunctionOnSet(f, DOMAIN m) = SumFunctionOnSet(f, E) + SumFunctionOnSet(f, DOMAIN m \ E)
      /\ SumFunctionOnSet(f, DOMAIN m) \in Nat /\ SumFunctionOnSet(f, E) \in Nat
      /\ SumFunctionOnSet(f, DOMAIN m \ E) \in Nat
  BY <1>1, <1>2, SumSplit
<1> QED BY <1>3 DEF Held, f

\* Maps that agree on a set hold the same there.
LEMMA HeldSame ==
    ASSUME NEW m, NEW n, Counts(m), NEW E \in SUBSET DOMAIN m, E \subseteq DOMAIN n,
           \A u \in E : n[u] = m[u]
    PROVE  Held(n, E) = Held(m, E)
<1> DEFINE f == [u \in DOMAIN m |-> m[u].chars]
           g == [u \in DOMAIN n |-> n[u].chars]
<1>1. IsFiniteSet(E)
  BY UidAssumption, FS_Subset DEF Counts
<1>2. \A u \in E : f[u] \in Nat /\ g[u] = f[u]
  BY DEF Counts
<1> HIDE DEF f, g
<1>3. SumFunctionOnSet(f, E) = SumFunctionOnSet(g, E)
  BY <1>1, <1>2, SumSame
<1> QED BY <1>3 DEF Held, f, g

\* A map without some of its messages holds what those held less.
LEMMA HeldWithout ==
    ASSUME NEW m, Counts(m), NEW E \in SUBSET DOMAIN m
    PROVE  /\ Held(Without(m, E), DOMAIN Without(m, E)) = Held(m, DOMAIN m) - Held(m, E)
           /\ Held(m, E) \in Nat /\ Held(m, DOMAIN m) \in Nat
           /\ Held(m, DOMAIN m) - Held(m, E) \in Nat
<1>1. DOMAIN Without(m, E) = DOMAIN m \ E /\ \A u \in DOMAIN m \ E : Without(m, E)[u] = m[u]
  BY WithoutShape
<1>2. Held(Without(m, E), DOMAIN m \ E) = Held(m, DOMAIN m \ E)
  BY <1>1, HeldSame
<1> QED BY <1>1, <1>2, HeldSplit

\* A message alone.
LEMMA HeldOne ==
    ASSUME NEW m, Counts(m), NEW u \in DOMAIN m
    PROVE  Held(m, {u}) = m[u].chars
<1> DEFINE f == [v \in DOMAIN m |-> m[v].chars]
<1>1. f[u] = m[u].chars /\ f[u] \in Nat
  BY DEF Counts
<1> HIDE DEF f
<1>2. SumFunctionOnSet(f, {u}) = f[u]
  BY <1>1, SumFew
<1> QED BY <1>1, <1>2 DEF Held, f
\* A message of the map is the sum of its chunks.
Summed(msg) == msg.chars = SumFunction([i \in DOMAIN msg.chunks |-> msg.chunks[i].len])

\* A chunk that is added is counted once.
LEMMA AddChunkSummed ==
    ASSUME NEW msg, NEW p, DOMAIN msg.chunks \subseteq Nat, IsFiniteSet(DOMAIN msg.chunks),
           \A i \in DOMAIN msg.chunks : msg.chunks[i].len \in Nat,
           p.index \notin DOMAIN msg.chunks, p.data.len \in Nat, Summed(msg)
    PROVE  Summed(AddChunk(msg, p))
<1> DEFINE old == msg.chunks
           f == [i \in DOMAIN old |-> old[i].len]
           new == Put(old, p.index, p.data)
           g == [i \in DOMAIN new |-> new[i].len]
           D == DOMAIN old
           E == D \cup {p.index}
<1>1. AddChunk(msg, p).chars = msg.chars + p.data.len /\ AddChunk(msg, p).chunks = new
  BY DEF AddChunk
<1>2. DOMAIN new = E /\ DOMAIN g = E /\ DOMAIN f = D /\ \A i \in D : f[i] \in Nat /\ g[i] = f[i]
  BY DEF Put
<1>3. g[p.index] = p.data.len
  BY DEF Put
<1>4. IsFiniteSet(D) /\ IsFiniteSet(E)
  BY FS_AddElement
<1>5. \A i \in E : g[i] \in Nat
  BY <1>2, <1>3
<1>6. {p.index} \in SUBSET E /\ E \ {p.index} = D
  OBVIOUS
<1> HIDE DEF f, g, D, E, new
<1>7. SumFunctionOnSet(g, E) = SumFunctionOnSet(g, {p.index}) + SumFunctionOnSet(g, D)
  BY <1>4, <1>5, <1>6, SumSplit
<1>8. SumFunctionOnSet(g, {p.index}) = p.data.len
  BY <1>3, SumFew
<1>9. SumFunctionOnSet(f, D) = SumFunctionOnSet(g, D) /\ SumFunctionOnSet(f, D) \in Nat
  <2>1. SumFunctionOnSet(f, D) = SumFunctionOnSet(g, D)
    BY <1>2, <1>4, SumSame
  <2>2. SumFunctionOnSet(f, D) \in Nat
    BY <1>2, <1>4, SumSplit
  <2> QED BY <2>1, <2>2
<1>10. msg.chars = SumFunctionOnSet(f, D)
  BY <1>2 DEF Summed, SumFunction, f, old
<1>11. SumFunctionOnSet(g, E) = AddChunk(msg, p).chars
  BY <1>1, <1>7, <1>8, <1>9, <1>10
<1> QED BY <1>1, <1>2, <1>11 DEF Summed, SumFunction, g

\* What an accepted packet leaves is counted right, and the message too.
LEMMA WithChunkCounted ==
    ASSUME IInv, Accounting, NEW p \in Packets, ~Ignored(p), NEW A \in SlotEvictions(p)
    PROVE  LET m == WithChunk(p, A) IN
           /\ Counts(m)
           /\ Held(m, DOMAIN m) = Counted(p, A)
           /\ Summed(m[p.uid])
<1> DEFINE m == WithChunk(p, A)
           U == Unexpired
<1>1. /\ p.uid \in Uids /\ p.data.len \in Nat /\ p.index \in Nat
      /\ p.uid \in DOMAIN U => p.index \notin DOMAIN U[p.uid].chunks
  BY PacketAssumption, BoundsAssumption DEF Ignored, Valid, Packet
<1>2. DOMAIN U \subseteq DOMAIN partial /\ \A u \in DOMAIN U : U[u] = partial[u]
  BY UnexpiredKeeps
<1>3. Counts(U)
  BY <1>2 DEF Counts, IInv, TypeOK, IsPendingMessage
<1>4. DOMAIN U \subseteq Uids
  BY <1>3 DEF Counts
<1>5. Counts(m)
  <2>1. /\ p.uid \in DOMAIN m /\ DOMAIN m \subseteq DOMAIN U \cup {p.uid}
        /\ \A u \in DOMAIN m \ {p.uid} : m[u] = partial[u]
        /\ IsPendingMessage(m[p.uid])
    BY WithChunkShape
  <2> HIDE DEF m, U
  <2>2. ASSUME NEW u \in DOMAIN m PROVE m[u].chars \in Nat
    BY <2>1, <2>2, <1>2 DEF IsPendingMessage, IInv, TypeOK
  <2> QED BY <2>1, <2>2, <1>1, <1>4 DEF Counts
<1>6. CASE p.uid \in DOMAIN U
  <2>1. A = {}
    BY <1>6 DEF SlotEvictions
  <2>2. m[p.uid] = AddChunk(partial[p.uid], p) /\ DOMAIN m = DOMAIN U
        /\ \A u \in DOMAIN U \ {p.uid} : m[u] = U[u]
    BY <1>2, <1>6 DEF WithChunk, Put
  <2>3. m[p.uid].chars = U[p.uid].chars + p.data.len
    BY <1>2, <1>6, <2>2 DEF AddChunk
  <2>4. Held(m, DOMAIN m) = Held(m, {p.uid}) + Held(m, DOMAIN m \ {p.uid})
        /\ Held(m, DOMAIN m \ {p.uid}) \in Nat
    BY <1>5, <1>6, <2>2, HeldSplit
  <2>5. Held(U, DOMAIN U) = Held(U, {p.uid}) + Held(U, DOMAIN U \ {p.uid})
    BY <1>3, <1>6, HeldSplit
  <2>6. Held(m, {p.uid}) = m[p.uid].chars /\ Held(U, {p.uid}) = U[p.uid].chars
    BY <1>3, <1>5, <1>6, <2>2, HeldOne
  <2>7. Held(m, DOMAIN m \ {p.uid}) = Held(U, DOMAIN U \ {p.uid})
    BY <1>3, <2>2, HeldSame
  <2>8. Held(U, {}) = 0
    BY SumFew DEF Held
  <2>9. U[p.uid].chars \in Nat
    BY <1>3, <1>6 DEF Counts
  <2>10. Held(m, DOMAIN m) = Counted(p, A)
    <3> HIDE DEF m, U
    <3>1. Counted(p, A) = Held(U, DOMAIN U) - Held(U, {}) + p.data.len
      BY <2>1 DEF Counted, U
    <3> QED BY <3>1, <1>1, <2>3, <2>4, <2>5, <2>6, <2>7, <2>8, <2>9
  <2>11. Summed(m[p.uid])
    <3> DEFINE old == partial[p.uid]
    <3>1. IsPendingMessage(old) /\ Summed(old) /\ p.index \notin DOMAIN old.chunks
      BY <1>1, <1>2, <1>6 DEF IInv, TypeOK, Accounting, Summed
    <3>2. /\ DOMAIN old.chunks \subseteq 1..old.total /\ old.total \in Nat
          /\ \A i \in DOMAIN old.chunks : old.chunks[i].len \in Nat
      BY <3>1, BoundsAssumption DEF IsPendingMessage, IsPartialFn, Chunk
    <3> HIDE DEF old
    <3>3. IsFiniteSet(DOMAIN old.chunks) /\ DOMAIN old.chunks \subseteq Nat
      <4>1. IsFiniteSet(1..old.total)
        BY <3>2, FS_Interval
      <4> QED BY <3>2, <4>1, FS_Subset
    <3>4. Summed(AddChunk(old, p))
      BY <1>1, <3>1, <3>2, <3>3, AddChunkSummed
    <3> QED BY <3>4, <2>2 DEF old
  <2> QED BY <1>5, <2>10, <2>11
<1>7. CASE p.uid \notin DOMAIN U
  <2> DEFINE R == Without(U, A)
  <2>0. A \in SUBSET DOMAIN U
    BY <1>7 DEF SlotEvictions, EvictedForSlot
  <2>1. DOMAIN R = DOMAIN U \ A /\ \A u \in DOMAIN U \ A : R[u] = U[u]
    BY WithoutShape
  <2>2. m[p.uid] = AddChunk(NewMessage(p), p) /\ DOMAIN m = DOMAIN R \cup {p.uid}
        /\ \A u \in DOMAIN R : m[u] = R[u]
    BY <1>7, <2>1 DEF WithChunk, Put
  <2>3. Counts(R)
    BY <1>3, <2>1 DEF Counts
  <2>4. Held(R, DOMAIN R) = Held(U, DOMAIN U) - Held(U, A)
        /\ Held(U, A) \in Nat /\ Held(U, DOMAIN U) \in Nat /\ Held(R, DOMAIN R) \in Nat
    BY <1>3, <2>0, HeldWithout
  <2>5. m[p.uid].chars = p.data.len
    BY <1>1, <2>2 DEF AddChunk, NewMessage
  <2>6. Held(m, DOMAIN m) = Held(m, {p.uid}) + Held(m, DOMAIN m \ {p.uid})
    BY <1>5, <2>2, HeldSplit
  <2>7. DOMAIN m \ {p.uid} = DOMAIN R
    BY <1>7, <2>1, <2>2
  <2>8. Held(m, {p.uid}) = m[p.uid].chars
    BY <1>5, <2>2, HeldOne
  <2>9. Held(m, DOMAIN R) = Held(R, DOMAIN R)
    BY <2>2, <2>3, HeldSame
  <2>10. Held(m, DOMAIN m) = Counted(p, A)
    <3>1. Counted(p, A) = Held(U, DOMAIN U) - Held(U, A) + p.data.len
      BY DEF Counted
    <3> HIDE DEF m, U, R
    <3> QED BY <3>1, <1>1, <2>4, <2>5, <2>6, <2>7, <2>8, <2>9
  <2>11. Summed(m[p.uid])
    <3> DEFINE old == NewMessage(p)
    <3>1. old.chunks = <<>> /\ old.chars = 0
      BY DEF NewMessage
    <3>2. DOMAIN old.chunks = {} /\ IsFiniteSet({})
      BY <3>1, FS_EmptySet
    <3>3. Summed(old)
      <4> DEFINE f == [i \in DOMAIN old.chunks |-> old.chunks[i].len]
      <4>1. DOMAIN f = {}
        BY <3>2
      <4> HIDE DEF f
      <4>2. SumFunctionOnSet(f, {}) = 0
        BY SumFew
      <4> QED BY <3>1, <4>1, <4>2 DEF Summed, SumFunction, f
    <3> HIDE DEF old
    <3>4. Summed(AddChunk(old, p))
      BY <1>1, <3>2, <3>3, AddChunkSummed
    <3> QED BY <3>4, <2>2 DEF old
  <2> QED BY <1>5, <2>10, <2>11
<1> QED BY <1>6, <1>7

\* A stored chunk preserves the invariant.
LEMMA StoredStep ==
    ASSUME IInv, NEW p \in Packets, AcceptStored(p)
    PROVE  IInv'
<1>1. ~Ignored(p) /\ completed' = Remembered /\ UNCHANGED <<now, log>>
  BY DEF AcceptStored
<1>2. PICK A \in SlotEvictions(p) :
        \E B \in EvictedForSpace(WithChunk(p, A), Counted(p, A)) :
            /\ p.uid \in B \/ ~Whole(WithChunk(p, A)[p.uid])
            /\ partial' = Without(WithChunk(p, A), B)
  BY DEF AcceptStored
<1> DEFINE m == WithChunk(p, A)
<1>3. PICK B \in EvictedForSpace(m, Counted(p, A)) :
        /\ p.uid \in B \/ ~Whole(m[p.uid])
        /\ partial' = Without(m, B)
  BY <1>2
<1>4. /\ p.uid \in DOMAIN m
      /\ DOMAIN m \subseteq DOMAIN Unexpired \cup {p.uid}
      /\ \A u \in DOMAIN m \ {p.uid} : m[u] = partial[u]
      /\ p.uid \in Uids \ DOMAIN Remembered
      /\ IsPendingMessage(m[p.uid])
      /\ Cardinality(DOMAIN m) <= MaxPending
  BY <1>1, WithChunkShape
<1> HIDE DEF m
<1>5. /\ DOMAIN partial' = DOMAIN m \ B
      /\ \A u \in DOMAIN m \ B : partial'[u] = m[u]
      /\ partial' = [u \in DOMAIN partial' |-> partial'[u]]
  BY <1>3 DEF Without, Restrict
<1> USE DEF IInv
<1>6. DOMAIN Unexpired \subseteq DOMAIN partial /\ DOMAIN partial \subseteq Uids
  BY UnexpiredKeeps DEF TypeOK
<1>7. DOMAIN Remembered \subseteq DOMAIN completed /\ DOMAIN completed \subseteq Uids
  BY RememberedKeeps DEF TypeOK, IsPartialFn
<1>8. TypeOK'
  <2>1. \A u \in DOMAIN partial' : IsPendingMessage(partial'[u])
    BY <1>4, <1>5, <1>6 DEF TypeOK
  <2>2. (\A u \in DOMAIN partial : IsPendingMessage(partial[u]))'
    BY <2>1, <1>1 DEF IsPendingMessage
  <2>3. IsPartialFn(completed, Uids, 0..now)'
    BY <1>1, RememberedKeeps DEF TypeOK, IsPartialFn
  <2> QED BY <2>2, <2>3, <1>1, <1>4, <1>5, <1>6 DEF TypeOK
<1>9. WithinLimits'
  <2>1. DOMAIN m \subseteq Uids /\ DOMAIN partial' \subseteq DOMAIN m
    BY <1>4, <1>5, <1>6
  <2>2. Cardinality(DOMAIN partial') <= MaxPending
    BY <2>1, <1>4, SmallerDomain, BoundsAssumption
  <2>3. Cardinality(DOMAIN completed') <= MaxCompleted
    BY <1>1, <1>7, SmallerDomain, BoundsAssumption DEF WithinLimits
  <2> QED BY <2>2, <2>3 DEF WithinLimits
<1>10. NothingStuck'
  <2>1. \A u \in DOMAIN partial' : ~Whole(partial'[u])
    BY <1>3, <1>4, <1>5, <1>6 DEF NothingStuck
  <2>2. (\A u \in DOMAIN partial : ~Whole(partial[u]))'
    BY <2>1 DEF Whole
  <2>3. DOMAIN partial' \cap DOMAIN completed' = {}
    BY <1>1, <1>4, <1>5, <1>6, <1>7 DEF NothingStuck
  <2> QED BY <2>2, <2>3 DEF NothingStuck
<1>11. AtMostOnce' /\ AssembledInOneWindow'
  BY <1>1 DEF AtMostOnce, NotOlder, AssembledInOneWindow
<1>12. CompletionsRemembered'
  BY <1>1, ExpiryRemembers DEF CompletionsRemembered, Forgotten, NotOlder
<1> QED BY <1>8, <1>9, <1>10, <1>11, <1>12
\* A completed envelope preserves the invariant: its uid was not remembered, so
\* its earlier completions are forgotten, and the ones that trimming drops now
\* are crowded out.
LEMMA CompletedStep ==
    ASSUME IInv, NEW p \in Packets, AcceptCompleted(p)
    PROVE  IInv'
<1>1. ~Ignored(p) /\ now' = now
  BY DEF AcceptCompleted
<1>2. PICK A \in SlotEvictions(p) :
        \E B \in EvictedForSpace(WithChunk(p, A), Counted(p, A)) :
            /\ partial' = Without(WithChunk(p, A), B \cup {p.uid})
            /\ log' = Append(log, [uid |-> p.uid, at |-> now,
                                   from |-> WithChunk(p, A)[p.uid].createdAt,
                                   decoded |-> \A i \in DOMAIN WithChunk(p, A)[p.uid].chunks :
                                                   WithChunk(p, A)[p.uid].chunks[i].ok])
  BY DEF AcceptCompleted
<1> DEFINE m == WithChunk(p, A)
           e == [uid |-> p.uid, at |-> now, from |-> m[p.uid].createdAt,
                 decoded |-> \A i \in DOMAIN m[p.uid].chunks : m[p.uid].chunks[i].ok]
           c == Put(Remembered, p.uid, now)
           n == Len(log)
<1>3. PICK B : partial' = Without(m, B \cup {p.uid}) /\ log' = Append(log, e)
  BY <1>2
<1>4. PICK trimmed \in TrimmedFrom(c) : completed' = Without(c, trimmed)
  BY DEF AcceptCompleted
<1>5. /\ p.uid \in DOMAIN m
      /\ DOMAIN m \subseteq DOMAIN Unexpired \cup {p.uid}
      /\ \A u \in DOMAIN m \ {p.uid} : m[u] = partial[u]
      /\ p.uid \in Uids \ DOMAIN Remembered
      /\ IsPendingMessage(m[p.uid])
      /\ now - m[p.uid].createdAt \in 0..(TTL - 1)
      /\ Cardinality(DOMAIN m) <= MaxPending
  BY <1>1, WithChunkShape
<1>6. e \in Completion /\ e.uid = p.uid /\ e.at = now /\ now \in Nat
      /\ e.at - e.from \in 0..(TTL - 1)
  <2>1. now \in Nat /\ m[p.uid].createdAt \in Nat
    BY <1>5 DEF IInv, TypeOK, IsPendingMessage
  <2> HIDE DEF m
  <2>2. p.uid \in Uids /\ now - m[p.uid].createdAt \in 0..(TTL - 1)
    BY <1>5
  <2> QED BY <2>1, <2>2 DEF Completion
<1> HIDE DEF m, e
<1>7. /\ DOMAIN partial' = DOMAIN m \ (B \cup {p.uid})
      /\ \A u \in DOMAIN partial' : partial'[u] = m[u]
      /\ partial' = [u \in DOMAIN partial' |-> partial'[u]]
  BY <1>3 DEF Without, Restrict
<1>8. /\ DOMAIN c = DOMAIN Remembered \cup {p.uid}
      /\ c[p.uid] = now
      /\ \A u \in DOMAIN Remembered : c[u] = completed[u]
  BY <1>5, RememberedKeeps DEF Put
<1>9. DOMAIN c \subseteq Uids /\ \A u \in DOMAIN c : c[u] \in 0..now
  BY <1>5, <1>6, <1>8, RememberedKeeps DEF IInv, TypeOK, IsPartialFn
<1> HIDE DEF c
<1>10. /\ DOMAIN completed' = DOMAIN c \ trimmed
       /\ \A u \in DOMAIN completed' : completed'[u] = c[u]
       /\ completed' = [u \in DOMAIN completed' |-> completed'[u]]
  BY <1>4 DEF Without, Restrict
<1>11. /\ log' \in Seq(Completion) /\ Len(log') = n + 1 /\ log'[n + 1] = e
       /\ \A i \in 1..n : log'[i] = log[i] /\ log[i] \in Completion
       /\ n \in Nat
  BY <1>3, <1>6, AppendKeeps DEF IInv
<1>12. DOMAIN Unexpired \subseteq DOMAIN partial /\ DOMAIN partial \subseteq Uids
       /\ DOMAIN Remembered \subseteq DOMAIN completed
  BY UnexpiredKeeps, RememberedKeeps DEF IInv, TypeOK
<1> HIDE DEF n
<1>13. TypeOK'
  <2>1. \A u \in DOMAIN partial' : IsPendingMessage(partial'[u])
    BY <1>5, <1>7, <1>12 DEF IInv, TypeOK
  <2>2. (\A u \in DOMAIN partial : IsPendingMessage(partial[u]))'
    BY <2>1, <1>1 DEF IsPendingMessage
  <2>3. IsPartialFn(completed, Uids, 0..now)'
    BY <1>1, <1>9, <1>10 DEF IsPartialFn
  <2>4. (\A i \in 1..Len(log) : log[i].at <= now)'
    <3>1. \A i \in 1..(n + 1) : i \in 1..n \/ i = n + 1
      BY <1>11
    <3>2. \A i \in 1..n : log[i].at <= now
      BY DEF n, IInv, TypeOK
    <3> QED BY <3>1, <3>2, <1>1, <1>6, <1>11
  <2> QED BY <2>2, <2>3, <2>4, <1>1, <1>5, <1>6, <1>7, <1>11, <1>12 DEF TypeOK
<1>14. WithinLimits'
  <2>1. Cardinality(DOMAIN partial') <= MaxPending
    <3>1. DOMAIN m \subseteq Uids /\ DOMAIN partial' \subseteq DOMAIN m
      BY <1>5, <1>7, <1>12
    <3> QED BY <3>1, <1>5, SmallerDomain, BoundsAssumption
  <2>2. Cardinality(DOMAIN completed') <= MaxCompleted
    BY <1>4, <1>10 DEF TrimmedFrom
  <2> QED BY <2>1, <2>2 DEF WithinLimits
<1>15. NothingStuck'
  <2>1. \A u \in DOMAIN partial' : ~Whole(partial'[u])
    BY <1>5, <1>7, <1>12 DEF IInv, NothingStuck
  <2>2. (\A u \in DOMAIN partial : ~Whole(partial[u]))'
    BY <2>1 DEF Whole
  <2>3. DOMAIN partial' \cap DOMAIN completed' = {}
    BY <1>5, <1>7, <1>8, <1>10, <1>12 DEF IInv, NothingStuck
  <2> QED BY <2>2, <2>3 DEF NothingStuck
<1>16. AssembledInOneWindow'
  <2>1. \A i \in 1..(n + 1) : i \in 1..n \/ i = n + 1
    BY <1>11
  <2>2. \A i \in 1..n : log[i].at - log[i].from \in 0..(TTL - 1)
    BY DEF n, IInv, AssembledInOneWindow
  <2> QED BY <2>1, <2>2, <1>6, <1>11 DEF AssembledInOneWindow
<1>17. AtMostOnce'
  <2>1. SUFFICES ASSUME NEW j \in 1..(n + 1), NEW i \in 1..(j - 1), log'[i].uid = log'[j].uid
                 PROVE  \/ log'[j].at - log'[i].at >= TTL
                        \/ Cardinality(NotOlder(i, j - 1)') >= MaxCompleted
    BY <1>11 DEF AtMostOnce, NotOlder
  <2>2. i \in 1..n /\ j - 1 \in 1..n /\ i \in 1..(j - 1)
    BY <1>11
  <2>3. NotOlder(i, j - 1)' = NotOlder(i, j - 1)
    BY <1>11, <2>2 DEF NotOlder
  <2>4. CASE j \in 1..n
    BY <2>1, <2>2, <2>3, <2>4, <1>11 DEF IInv, AtMostOnce, n
  <2>5. CASE j = n + 1
    <3>1. log[i].uid \notin DOMAIN Remembered
      BY <2>1, <2>2, <2>5, <1>5, <1>6, <1>11
    <3>2. Forgotten(i)
      BY <3>1, <2>2, ExpiryRemembers DEF n
    <3>3. j - 1 = n
      BY <2>5, <1>11
    <3> QED BY <3>2, <3>3, <2>2, <2>3, <2>5, <1>6, <1>11 DEF Forgotten, n
  <2> QED BY <2>4, <2>5, <1>11
<1>18. \A u \in DOMAIN c : \E k \in 1..(n + 1) : log'[k].uid = u /\ log'[k].at = c[u]
  <2>1. SUFFICES ASSUME NEW u \in DOMAIN c
                 PROVE  \E k \in 1..(n + 1) : log'[k].uid = u /\ log'[k].at = c[u]
    OBVIOUS
  <2>2. CASE u = p.uid
    <3>1. n + 1 \in 1..(n + 1)
      BY <1>11
    <3> QED BY <3>1, <2>2, <1>6, <1>8, <1>11
  <2>3. CASE u # p.uid
    <3>1. u \in DOMAIN Remembered /\ c[u] = Remembered[u]
      BY <2>3, <1>8, RememberedKeeps
    <3>2. PICK k \in 1..n : log[k].uid = u /\ log[k].at = Remembered[u]
      BY <3>1, ExpiryRemembers DEF n
    <3>3. k \in 1..(n + 1)
      BY <1>11
    <3> QED BY <3>1, <3>2, <3>3, <1>11
  <2> QED BY <2>2, <2>3
<1>19. \A i \in 1..(n + 1) :
          Forgotten(i)' \/ (log'[i].uid \in DOMAIN c /\ c[log'[i].uid] = log'[i].at)
  <2>1. SUFFICES ASSUME NEW i \in 1..(n + 1)
                 PROVE  Forgotten(i)' \/ (log'[i].uid \in DOMAIN c /\ c[log'[i].uid] = log'[i].at)
    OBVIOUS
  <2>2. CASE i = n + 1
    BY <2>2, <1>6, <1>8, <1>11
  <2>3. CASE i \in 1..n /\ Forgotten(i)
    <3>1. n \in 1..Len(log) /\ i <= n /\ i \in 1..Len(log)
      BY <2>3, <1>11 DEF n
    <3> DEFINE after == {k \in 1..(n + 1) : k # i /\ Append(log, e)[k].at >= Append(log, e)[i].at}
    <3>2. /\ Cardinality(after) >= Cardinality(NotOlder(i, n))
          /\ Cardinality(after) \in Nat
          /\ Cardinality(NotOlder(i, n)) \in Nat
      BY <3>1, <1>6, ForgottenGrows DEF IInv
    <3>3. NotOlder(i, Len(log))' = after
      BY <1>3, <1>11 DEF NotOlder
    <3> HIDE DEF after
    <3>4. now - log[i].at >= TTL \/ Cardinality(NotOlder(i, n)) >= MaxCompleted
      BY <2>3 DEF Forgotten, n
    <3>5. Cardinality(NotOlder(i, n)) >= MaxCompleted => Cardinality(NotOlder(i, Len(log))') >= MaxCompleted
      BY <3>2, <3>3, BoundsAssumption
    <3> QED BY <3>4, <3>5, <2>3, <1>1, <1>11 DEF Forgotten
  <2>4. CASE i \in 1..n /\ ~Forgotten(i)
    <3>1. log[i].uid \in DOMAIN Remembered /\ Remembered[log[i].uid] = log[i].at
      BY <2>4, ExpiryRemembers DEF n
    <3> QED BY <3>1, <2>4, <1>8, <1>11, RememberedKeeps
  <2> QED BY <2>2, <2>3, <2>4, <1>11
<1>20. CompletionsRemembered'
  <2>1. ASSUME NEW i \in 1..(n + 1), log'[i].uid \in trimmed,
               log'[i].at = c[log'[i].uid]
        PROVE  Forgotten(i)'
    <3>1. n + 1 \in Nat /\ \A u \in DOMAIN c : c[u] \in Nat
      BY <1>6, <1>9, <1>11
    <3>2. Cardinality({k \in 1..(n + 1) : k # i /\ log'[k].at >= log'[i].at}) >= MaxCompleted
      BY <2>1, <3>1, <1>4, <1>9, <1>18, TrimmedIsCrowdedOut
    <3> QED BY <3>2, <1>11 DEF Forgotten, NotOlder
  <2>2. \A i \in 1..(n + 1) :
           Forgotten(i)' \/ (log'[i].uid \in DOMAIN completed' /\ completed'[log'[i].uid] = log'[i].at)
    BY <2>1, <1>10, <1>19
  <2>3. \A u \in DOMAIN completed' : \E i \in 1..(n + 1) :
           log'[i].uid = u /\ log'[i].at = completed'[u]
    BY <1>10, <1>18
  <2> QED BY <2>2, <2>3, <1>11 DEF CompletionsRemembered
<1> QED BY <1>13, <1>14, <1>15, <1>16, <1>17, <1>20 DEF IInv

\* Time only makes completions older.
LEMMA AdvanceStep ==
    ASSUME IInv, Advance
    PROVE  IInv'
<1> USE DEF IInv
<1>1. now' = now + 1 /\ now \in Nat /\ UNCHANGED <<partial, completed, buffered, log>>
  BY DEF Advance, TypeOK
<1>2. \A i \in 1..Len(log) : log[i] \in Completion
  BY DEF TypeOK
<1>3. TypeOK'
  <2>1. (\A u \in DOMAIN partial : IsPendingMessage(partial[u]))'
    BY <1>1 DEF TypeOK, IsPendingMessage
  <2>2. (\A i \in 1..Len(log) : log[i].at <= now)'
    BY <1>1, <1>2 DEF TypeOK, Completion
  <2> QED BY <1>1, <2>1, <2>2 DEF TypeOK, IsPartialFn
<1>4. WithinLimits' /\ NothingStuck' /\ AtMostOnce' /\ AssembledInOneWindow'
  BY <1>1 DEF WithinLimits, NothingStuck, Whole, AtMostOnce, NotOlder, AssembledInOneWindow
<1>5. CompletionsRemembered'
  <2>1. \A i \in 1..Len(log) : Forgotten(i) => Forgotten(i)'
    BY <1>1, <1>2, BoundsAssumption DEF Forgotten, NotOlder, Completion
  <2> QED BY <1>1, <2>1 DEF CompletionsRemembered
<1> QED BY <1>3, <1>4, <1>5

\* The invariant is inductive.
LEMMA IInvInductive ==
    /\ Init => IInv
    /\ IInv /\ [Next]_vars => IInv'
<1>1. ASSUME Init PROVE IInv
  <2>1. partial = <<>> /\ completed = <<>> /\ now = 0 /\ log = <<>> /\ log \in Seq(Completion)
        /\ DOMAIN partial = {} /\ DOMAIN completed = {} /\ 1..Len(log) = {}
    BY <1>1 DEF Init
  <2>2. TypeOK /\ NothingStuck /\ AtMostOnce /\ AssembledInOneWindow /\ CompletionsRemembered
    BY <2>1 DEF TypeOK, IsPartialFn, NothingStuck, AtMostOnce, AssembledInOneWindow,
                CompletionsRemembered
  <2>3. WithinLimits
    BY <2>1, FS_EmptySet, BoundsAssumption DEF WithinLimits
  <2> QED BY <2>2, <2>3 DEF IInv
<1>2. ASSUME IInv, [Next]_vars PROVE IInv'
  <2>1. CASE \E p \in Packets : Accept(p)
    <3>1. PICK p \in Packets : Accept(p)
      BY <2>1
    <3>2. CASE AcceptIgnored(p)
      BY <1>2, <3>2, ExpiryStep DEF AcceptIgnored
    <3>3. CASE AcceptStored(p)
      BY <1>2, <3>3, StoredStep
    <3>4. CASE AcceptCompleted(p)
      BY <1>2, <3>4, CompletedStep
    <3> QED BY <3>1, <3>2, <3>3, <3>4 DEF Accept
  <2>2. CASE Tick
    BY <1>2, <2>2, ExpiryStep DEF Tick
  <2>3. CASE Advance
    BY <1>2, <2>3, AdvanceStep
  <2>4. CASE UNCHANGED vars
    <3>1. UNCHANGED <<partial, completed, now, log>>
      BY <2>4 DEF vars
    <3>2. TypeOK'
      BY <1>2, <3>1 DEF IInv, TypeOK, IsPendingMessage, IsPartialFn
    <3>3. WithinLimits' /\ NothingStuck' /\ AtMostOnce' /\ AssembledInOneWindow'
      BY <1>2, <3>1 DEF IInv, WithinLimits, NothingStuck, Whole, AtMostOnce, NotOlder,
                        AssembledInOneWindow
    <3>4. CompletionsRemembered'
      BY <1>2, <3>1 DEF IInv, CompletionsRemembered, Forgotten, NotOlder
    <3> QED BY <3>2, <3>3, <3>4 DEF IInv
  <2> QED BY <1>2, <2>1, <2>2, <2>3, <2>4 DEF Next
<1> QED BY <1>1, <1>2

-----------------------------------------------------------------------------
(* The global count *)

\* Accounting, with each message's own count by its name.
LEMMA AccountingIs ==
    /\ Accounting = (/\ buffered = Held(partial, DOMAIN partial)
                     /\ buffered <= MaxBuffered
                     /\ \A u \in DOMAIN partial : Summed(partial[u]))
    /\ Accounting' = (/\ buffered' = Held(partial', DOMAIN partial')
                      /\ buffered' <= MaxBuffered
                      /\ \A u \in DOMAIN partial' : Summed(partial'[u]))
BY DEF Accounting, Summed, Held

\* Expiry recounts what it keeps, which is a part of what was counted.
LEMMA ExpiryCounts ==
    ASSUME IInv, Accounting, partial' = Unexpired,
           buffered' = Held(Unexpired, DOMAIN Unexpired)
    PROVE  Accounting'
<1>1. DOMAIN Unexpired \subseteq DOMAIN partial /\ \A u \in DOMAIN Unexpired : Unexpired[u] = partial[u]
  BY UnexpiredKeeps
<1>2. Counts(partial)
  BY DEF Counts, IInv, TypeOK, IsPendingMessage
<1>3. Held(Unexpired, DOMAIN Unexpired) = Held(partial, DOMAIN Unexpired)
  BY <1>1, <1>2, HeldSame
<1>4. /\ Held(partial, DOMAIN partial) = Held(partial, DOMAIN Unexpired)
                                         + Held(partial, DOMAIN partial \ DOMAIN Unexpired)
      /\ Held(partial, DOMAIN Unexpired) \in Nat
      /\ Held(partial, DOMAIN partial \ DOMAIN Unexpired) \in Nat
  BY <1>1, <1>2, HeldSplit
<1>5. buffered = Held(partial, DOMAIN partial) /\ buffered <= MaxBuffered
      /\ \A u \in DOMAIN partial : Summed(partial[u])
  BY AccountingIs
<1>6. buffered' <= MaxBuffered
  BY <1>3, <1>4, <1>5, BoundsAssumption
<1> QED BY <1>1, <1>5, <1>6, AccountingIs

\* A stored chunk is counted, and what makes room for it is discounted.
LEMMA StoredCounts ==
    ASSUME IInv, Accounting, NEW p \in Packets, AcceptStored(p)
    PROVE  Accounting'
<1>1. ~Ignored(p)
  BY DEF AcceptStored
<1>2. PICK A \in SlotEvictions(p) :
        \E B \in EvictedForSpace(WithChunk(p, A), Counted(p, A)) :
            /\ partial' = Without(WithChunk(p, A), B)
            /\ buffered' = Counted(p, A) - Held(WithChunk(p, A), B)
  BY DEF AcceptStored
<1> DEFINE m == WithChunk(p, A)
           chars == Counted(p, A)
<1>3. PICK B \in EvictedForSpace(m, chars) :
        partial' = Without(m, B) /\ buffered' = chars - Held(m, B)
  BY <1>2
<1>4. Counts(m) /\ Held(m, DOMAIN m) = chars /\ Summed(m[p.uid])
  BY <1>1, WithChunkCounted
<1>5. DOMAIN m \subseteq DOMAIN Unexpired \cup {p.uid} /\ \A u \in DOMAIN m \ {p.uid} : m[u] = partial[u]
  BY <1>1, WithChunkShape
<1> HIDE DEF m, chars
<1>6. B \in SUBSET DOMAIN m /\ chars - Held(m, B) <= MaxBuffered
  BY <1>3 DEF EvictedForSpace
<1>7. buffered' = Held(partial', DOMAIN partial')
  BY <1>3, <1>4, <1>6, HeldWithout
<1>8. \A u \in DOMAIN partial' : Summed(partial'[u])
  <2>1. \A u \in DOMAIN partial' : u \in DOMAIN m /\ partial'[u] = m[u]
    BY <1>3 DEF Without, Restrict
  <2>2. \A u \in DOMAIN partial : Summed(partial[u])
    BY AccountingIs
  <2> QED BY <2>1, <2>2, <1>4, <1>5, UnexpiredKeeps
<1> QED BY <1>3, <1>6, <1>7, <1>8, AccountingIs

\* A completed message takes its own characters out of the count.
LEMMA CompletedCounts ==
    ASSUME IInv, Accounting, NEW p \in Packets, AcceptCompleted(p)
    PROVE  Accounting'
<1>1. ~Ignored(p)
  BY DEF AcceptCompleted
<1>2. PICK A \in SlotEvictions(p) :
        \E B \in EvictedForSpace(WithChunk(p, A), Counted(p, A)) :
            /\ p.uid \notin B
            /\ partial' = Without(WithChunk(p, A), B \cup {p.uid})
            /\ buffered' = Counted(p, A) - Held(WithChunk(p, A), B) - WithChunk(p, A)[p.uid].chars
  BY DEF AcceptCompleted
<1> DEFINE m == WithChunk(p, A)
           chars == Counted(p, A)
<1>3. PICK B \in EvictedForSpace(m, chars) :
        /\ p.uid \notin B
        /\ partial' = Without(m, B \cup {p.uid})
        /\ buffered' = chars - Held(m, B) - m[p.uid].chars
  BY <1>2
<1>4. Counts(m) /\ Held(m, DOMAIN m) = chars
  BY <1>1, WithChunkCounted
<1>5. /\ DOMAIN m \subseteq DOMAIN Unexpired \cup {p.uid}
      /\ \A u \in DOMAIN m \ {p.uid} : m[u] = partial[u]
      /\ p.uid \in DOMAIN m
  BY <1>1, WithChunkShape
<1> HIDE DEF m, chars
<1> DEFINE R == Without(m, B)
<1>6. B \in SUBSET DOMAIN m /\ chars - Held(m, B) <= MaxBuffered
  BY <1>3 DEF EvictedForSpace
<1>7. /\ DOMAIN R = DOMAIN m \ B
      /\ \A u \in DOMAIN R : R[u] = m[u]
      /\ Without(m, B \cup {p.uid}) = Without(R, {p.uid})
  BY DEF Without, Restrict
<1>8. Held(R, DOMAIN R) = chars - Held(m, B) /\ Held(R, DOMAIN R) \in Nat
  BY <1>4, <1>6, HeldWithout
<1>9. Counts(R) /\ p.uid \in DOMAIN R /\ R[p.uid] = m[p.uid]
  BY <1>3, <1>4, <1>5, <1>7 DEF Counts
<1> HIDE DEF R
<1>10. Held(R, {p.uid}) = m[p.uid].chars /\ m[p.uid].chars \in Nat
  BY <1>9, HeldOne DEF Counts
<1>11. buffered' = Held(partial', DOMAIN partial')
  BY <1>3, <1>7, <1>8, <1>9, <1>10, HeldWithout
<1>12. buffered' <= MaxBuffered
  BY <1>3, <1>6, <1>8, <1>10, BoundsAssumption
<1>13. \A u \in DOMAIN partial' : Summed(partial'[u])
  <2>1. \A u \in DOMAIN partial' : u \in DOMAIN m \ {p.uid} /\ partial'[u] = m[u]
    BY <1>3 DEF Without, Restrict
  <2>2. \A u \in DOMAIN partial : Summed(partial[u])
    BY AccountingIs
  <2> QED BY <2>1, <2>2, <1>5, UnexpiredKeeps
<1> QED BY <1>11, <1>12, <1>13, AccountingIs

\* The count is right at first and every step keeps it right.
LEMMA AccountingInductive ==
    /\ Init => Accounting
    /\ IInv /\ Accounting /\ [Next]_vars => Accounting'
<1>1. ASSUME Init PROVE Accounting
  <2>1. partial = <<>> /\ DOMAIN partial = {} /\ buffered = 0
    BY <1>1 DEF Init
  <2>2. Held(partial, {}) = 0
    BY SumFew DEF Held
  <2> QED BY <2>1, <2>2, AccountingIs, BoundsAssumption
<1>2. ASSUME IInv, Accounting, [Next]_vars PROVE Accounting'
  <2>1. CASE \E p \in Packets : Accept(p)
    <3>1. PICK p \in Packets : Accept(p)
      BY <2>1
    <3>2. CASE AcceptIgnored(p)
      BY <1>2, <3>2, ExpiryCounts DEF AcceptIgnored
    <3>3. CASE AcceptStored(p)
      BY <1>2, <3>3, StoredCounts
    <3>4. CASE AcceptCompleted(p)
      BY <1>2, <3>4, CompletedCounts
    <3> QED BY <3>1, <3>2, <3>3, <3>4 DEF Accept
  <2>2. CASE Tick
    BY <1>2, <2>2, ExpiryCounts DEF Tick
  <2>3. CASE Advance \/ UNCHANGED vars
    <3>1. UNCHANGED <<partial, buffered>>
      BY <2>3 DEF Advance, vars
    <3> QED BY <1>2, <3>1 DEF Accounting, Held
  <2> QED BY <1>2, <2>1, <2>2, <2>3 DEF Next
<1> QED BY <1>1, <1>2

\* The variables of Reader always have their types.
THEOREM TypeCorrect == Spec => []TypeOK
<1>1. IInv => TypeOK
  BY DEF IInv
<1> QED BY <1>1, IInvInductive, PTL DEF Spec

\* Reader::accept marks a uid completed before it decodes and refuses a
\* completed uid: no envelope completes twice within a TTL unless MAX_COMPLETED
\* others crowded its uid out.
THEOREM DuplicatesAreHarmless == Spec => []AtMostOnce
<1>1. IInv => AtMostOnce
  BY DEF IInv
<1> QED BY <1>1, IInvInductive, PTL DEF Spec

\* evict_oldest and the trimming loop keep both maps within their limits.
THEOREM ReaderIsBounded == Spec => []WithinLimits
<1>1. IInv => WithinLimits
  BY DEF IInv
<1> QED BY <1>1, IInvInductive, PTL DEF Spec

\* No message stays among the pending once its last chunk has arrived, and none is
\* collected again while its uid is remembered.
THEOREM NothingIsStuck == Spec => []NothingStuck
<1>1. IInv => NothingStuck
  BY DEF IInv
<1> QED BY <1>1, IInvInductive, PTL DEF Spec

\* Reader::expire runs before every chunk is matched to its message.
THEOREM OneWindow == Spec => []AssembledInOneWindow
<1>1. IInv => AssembledInOneWindow
  BY DEF IInv
<1> QED BY <1>1, IInvInductive, PTL DEF Spec

\* The map of completed uids knows a completion until it is too old or crowded out.
THEOREM CompletionsKnown == Spec => []CompletionsRemembered
<1>1. IInv => CompletionsRemembered
  BY DEF IInv
<1> QED BY <1>1, IInvInductive, PTL DEF Spec
\* What Reader retains is counted exactly, globally and per message, within the
\* three limits, and every message still waits for a chunk: eviction never drops
\* a live message for characters that are no longer held.
THEOREM RetainedIsBounded == Spec => []RetainsBounded
<1>1. Init => IInv /\ Accounting
  BY IInvInductive, AccountingInductive
<1>2. IInv /\ Accounting /\ [Next]_vars => (IInv /\ Accounting)'
  BY IInvInductive, AccountingInductive
<1>3. IInv /\ Accounting => RetainsBounded
  BY DEF IInv, RetainsBounded
<1> QED BY <1>1, <1>2, <1>3, PTL DEF Spec
=============================================================================
