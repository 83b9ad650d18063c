------------------------------ MODULE ProxyReader ------------------------------
(***************************************************************************)
(* The chunk reassembler of the plugin-message transport: the Reader of    *)
(* src/pumpkin/src/proxy.rs.  A peer cuts an envelope into chunks that     *)
(* share a uid; the reader collects them in any order, delivers the        *)
(* envelope once, and forgets what is too old or too much.                 *)
(*                                                                         *)
(* Time is a counter of clock readings: two calls may read the same        *)
(* instant, as Instant::now() allows.  A chunk is a record with the length *)
(* of its data and whether the data decodes; its text does not matter.     *)
(***************************************************************************)
EXTENDS Integers, Sequences, FiniteSets, Functions

CONSTANTS
    Uids,               \* well-formed uids (valid_uid holds)
    BadUid,             \* any uid valid_uid refuses
    MaxChunks,          \* MAX_CHUNKS
    MaxChunkLength,     \* MAX_CHUNK_LENGTH
    MaxPending,         \* MAX_PENDING_MESSAGES
    MaxBuffered,        \* MAX_BUFFERED_CHARACTERS
    MaxCompleted,       \* MAX_COMPLETED_MESSAGES
    TTL,                \* MESSAGE_TTL, in clock units
    Packets,            \* the packets that arrive
    MaxNow,            \* bound: the clock stops here
    MaxLog              \* bound: completions followed by the history

ASSUME BoundsAssumption ==
    /\ MaxChunks \in Nat \ {0} /\ MaxChunkLength \in Nat
    /\ MaxPending \in Nat \ {0} /\ MaxBuffered \in Nat
    /\ MaxCompleted \in Nat /\ TTL \in Nat \ {0}
    /\ MaxNow \in Nat /\ MaxLog \in Nat

ASSUME UidAssumption == BadUid \notin Uids /\ IsFiniteSet(Uids)

VARIABLES
    partial,    \* pending: uid -> the message being assembled (a HashMap)
    completed,  \* uid -> when its last chunk arrived (a HashMap)
    buffered,   \* buffered_characters: the characters held by partial
    now,        \* the clock
    log         \* history: the completed envelopes, in order

vars == <<partial, completed, buffered, now, log>>

Chunk == [len : 0..MaxChunkLength, ok : BOOLEAN]

IsPartialFn(f, D, R) == DOMAIN f \subseteq D /\ f \in [DOMAIN f -> R]

IsPendingMessage(msg) ==
    /\ msg = [total |-> msg.total, chunks |-> msg.chunks,
              createdAt |-> msg.createdAt, chars |-> msg.chars]
    /\ msg.total \in 1..MaxChunks
    /\ IsPartialFn(msg.chunks, 1..msg.total, Chunk)
    /\ msg.createdAt \in 0..now
    /\ msg.chars \in Nat

\* What may arrive on the incoming channel; a payload that is empty, too long or
\* not JSON is a packet with BadUid.
Packet ==
    [uid : Uids \cup {BadUid}, index : Nat, total : Nat, data : [len : Nat, ok : BOOLEAN]]

ASSUME PacketAssumption == \A p \in Packets : p \in Packet

Valid(p) ==
    /\ p.uid # BadUid
    /\ p.total \in 1..MaxChunks
    /\ p.index \in 1..p.total
    /\ p.data.len <= MaxChunkLength

-----------------------------------------------------------------------------
(* Expiry and eviction *)

\* Mutant: an age limit off by one.
UnexpiredLate == Restrict(partial, {u \in DOMAIN partial : now - partial[u].createdAt <= TTL})
Unexpired == Restrict(partial, {u \in DOMAIN partial : now - partial[u].createdAt < TTL})

Remembered == Restrict(completed, {u \in DOMAIN completed : now - completed[u] < TTL})

\* The characters held by the messages E of the map m.
Held(m, E) == SumFunctionOnSet([u \in DOMAIN m |-> m[u].chars], E)

Without(m, E) == Restrict(m, DOMAIN m \ E)

\* evict_oldest takes a message with the least createdAt, any of them when
\* several share it (the order of a HashMap is arbitrary).  So what a loop of
\* calls removes is a set no member of which is newer than one left behind.
OldestFirst(m, E) == \A e \in E, k \in DOMAIN m \ E : m[e].createdAt <= m[k].createdAt

\* Mutant: the loop stops with MaxPending messages left.
EvictedForSlotLate(m) ==
    {E \in SUBSET DOMAIN m :
        /\ OldestFirst(m, E)
        /\ Cardinality(DOMAIN m \ E) <= MaxPending
        /\ E # {} => Cardinality(DOMAIN m \ E) = MaxPending}

\* What "while pending.len() >= MAX_PENDING_MESSAGES" may remove.
EvictedForSlot(m) ==
    {E \in SUBSET DOMAIN m :
        /\ OldestFirst(m, E)
        /\ Cardinality(DOMAIN m \ E) < MaxPending
        /\ E # {} => Cardinality(DOMAIN m \ E) = MaxPending - 1}

\* What "while buffered_characters > MAX_BUFFERED_CHARACTERS" may remove: the
\* last message removed is the one that brings the count within the limit.
EvictedForSpace(m, chars) ==
    {E \in SUBSET DOMAIN m :
        /\ OldestFirst(m, E)
        /\ chars - Held(m, E) <= MaxBuffered
        /\ E # {} => \E last \in E :
                        /\ \A e \in E : m[e].createdAt <= m[last].createdAt
                        /\ chars - Held(m, E \ {last}) > MaxBuffered}

\* Mutant: the newest completion goes first.
TrimmedNewest(c) ==
    {E \in SUBSET DOMAIN c :
        /\ \A e \in E, k \in DOMAIN c \ E : c[e] >= c[k]
        /\ Cardinality(DOMAIN c \ E) <= MaxCompleted
        /\ E # {} => Cardinality(DOMAIN c \ E) = MaxCompleted}

\* The uids "while completed.len() > MAX_COMPLETED_MESSAGES" may remove.
TrimmedFrom(c) ==
    {E \in SUBSET DOMAIN c :
        /\ \A e \in E, k \in DOMAIN c \ E : c[e] <= c[k]
        /\ Cardinality(DOMAIN c \ E) <= MaxCompleted
        /\ E # {} => Cardinality(DOMAIN c \ E) = MaxCompleted}

-----------------------------------------------------------------------------
(* Reader::accept *)

Put(m, k, v) == [x \in DOMAIN m \cup {k} |-> IF x = k THEN v ELSE m[x]]

NewMessage(p) == [total |-> p.total, chunks |-> <<>>, createdAt |-> now, chars |-> 0]

AddChunk(msg, p) ==
    [total |-> msg.total, chunks |-> Put(msg.chunks, p.index, p.data),
     createdAt |-> msg.createdAt, chars |-> msg.chars + p.data.len]

\* Mutant: a completed uid is collected again.
IgnoredUnlessCompleted(p) ==
    \/ ~Valid(p)
    \/ /\ p.uid \in DOMAIN Unexpired
       /\ \/ Unexpired[p.uid].total # p.total
          \/ p.index \in DOMAIN Unexpired[p.uid].chunks

\* The packet changes nothing but what has expired.
Ignored(p) ==
    \/ ~Valid(p)
    \/ p.uid \in DOMAIN Remembered
    \/ /\ p.uid \in DOMAIN Unexpired
       /\ \/ Unexpired[p.uid].total # p.total
          \/ p.index \in DOMAIN Unexpired[p.uid].chunks

AcceptIgnored(p) ==
    /\ Ignored(p)
    /\ partial' = Unexpired
    /\ completed' = Remembered
    /\ buffered' = Held(Unexpired, DOMAIN Unexpired)
    /\ UNCHANGED <<now, log>>

\* The map after the message of p has a slot and its chunk; evictedA made room
\* for the slot.
WithChunk(p, evictedA) ==
    IF p.uid \in DOMAIN Unexpired
    THEN Put(Unexpired, p.uid, AddChunk(Unexpired[p.uid], p))
    ELSE Put(Without(Unexpired, evictedA), p.uid, AddChunk(NewMessage(p), p))

SlotEvictions(p) ==
    IF p.uid \in DOMAIN Unexpired THEN {{}} ELSE EvictedForSlot(Unexpired)

\* Mutant: evict_oldest leaves the global count alone.
CountedWithEvicted(p, evictedA) == Held(Unexpired, DOMAIN Unexpired) + p.data.len

\* The characters counted once the chunk is added.
Counted(p, evictedA) ==
    Held(Unexpired, DOMAIN Unexpired) - Held(Unexpired, evictedA) + p.data.len

Whole(msg) == DOMAIN msg.chunks = 1..msg.total

\* The chunk is stored; the message still lacks one, or was itself evicted to
\* make room.
AcceptStored(p) ==
    /\ ~Ignored(p)
    /\ \E evictedA \in SlotEvictions(p) :
        LET m == WithChunk(p, evictedA)
            chars == Counted(p, evictedA)
        IN \E evictedB \in EvictedForSpace(m, chars) :
            /\ p.uid \in evictedB \/ ~Whole(m[p.uid])
            /\ partial' = Without(m, evictedB)
            /\ buffered' = chars - Held(m, evictedB)
    /\ completed' = Remembered
    /\ UNCHANGED <<now, log>>

\* The chunk was the last one: the message leaves the map, its uid is marked
\* completed before the data is decoded, and the fields go to the caller if
\* they decode.
AcceptCompleted(p) ==
    /\ ~Ignored(p)
    /\ Len(log) < MaxLog
    /\ \E evictedA \in SlotEvictions(p) :
        LET m == WithChunk(p, evictedA)
            chars == Counted(p, evictedA)
            msg == m[p.uid]
        IN \E evictedB \in EvictedForSpace(m, chars) :
            /\ p.uid \notin evictedB /\ Whole(msg)
            /\ partial' = Without(m, evictedB \cup {p.uid})
            /\ buffered' = chars - Held(m, evictedB) - msg.chars
            /\ log' = Append(log, [uid |-> p.uid, at |-> now, from |-> msg.createdAt,
                                   decoded |-> \A i \in DOMAIN msg.chunks : msg.chunks[i].ok])
    /\ LET c == Put(Remembered, p.uid, now)
       IN \E trimmed \in TrimmedFrom(c) : completed' = Without(c, trimmed)
    /\ UNCHANGED now

\* The custom payload handler: one packet through Reader::accept.
Accept(p) == AcceptIgnored(p) \/ AcceptStored(p) \/ AcceptCompleted(p)

\* Mutant: only a packet lets a pending message expire.
TickCompletedOnly ==
    /\ completed' = Remembered
    /\ UNCHANGED <<partial, buffered, now, log>>

\* The scheduled tick calls Reader::expire.
Tick ==
    /\ partial' = Unexpired
    /\ completed' = Remembered
    /\ buffered' = Held(Unexpired, DOMAIN Unexpired)
    /\ UNCHANGED <<now, log>>

Advance ==
    /\ now < MaxNow
    /\ now' = now + 1
    /\ UNCHANGED <<partial, completed, buffered, log>>

Init ==
    /\ partial = <<>>
    /\ completed = <<>>
    /\ buffered = 0
    /\ now = 0
    /\ log = <<>>

Next ==
    \/ \E p \in Packets : Accept(p)
    \/ Tick
    \/ Advance

Spec == Init /\ [][Next]_vars

\* The host runs the repeating task and time passes; no peer has to send.
FairSpec == Spec /\ WF_vars(Tick) /\ WF_vars(Advance)

-----------------------------------------------------------------------------
(* Properties *)

Completion == [uid : Uids, at : Nat, from : Nat, decoded : BOOLEAN]

\* The variables have their types; what is remembered lies in the past.
TypeOK ==
    /\ partial = [u \in DOMAIN partial |-> partial[u]] /\ DOMAIN partial \subseteq Uids
    /\ \A u \in DOMAIN partial : IsPendingMessage(partial[u])
    /\ IsPartialFn(completed, Uids, 0..now)
    /\ now \in Nat
    /\ log \in Seq(Completion)
    /\ \A i \in 1..Len(log) : log[i].at <= now

\* The global character count is exactly what the pending messages hold, within
\* the limit, and each message counts exactly its chunks.  A drift would make
\* the eviction loop drop live messages, or never end once the map is empty.
Accounting ==
    /\ buffered = Held(partial, DOMAIN partial)
    /\ buffered <= MaxBuffered
    /\ \A u \in DOMAIN partial :
          partial[u].chars =
            SumFunction([i \in DOMAIN partial[u].chunks |-> partial[u].chunks[i].len])

\* A peer cannot make the reader retain more messages, or more finished uids,
\* than its limits allow.
WithinLimits ==
    /\ Cardinality(DOMAIN partial) <= MaxPending
    /\ Cardinality(DOMAIN completed) <= MaxCompleted

\* No message waits with all its chunks present, and none is collected again
\* while its uid is remembered as completed.
NothingStuck ==
    /\ \A u \in DOMAIN partial : ~Whole(partial[u])
    /\ DOMAIN partial \cap DOMAIN completed = {}

\* What is retained is counted right, within the limits, and waits for something.
RetainsBounded == Accounting /\ WithinLimits /\ NothingStuck

\* The completions among the first n that could have pushed entry i of the log
\* out of completed.
NotOlder(i, n) == {k \in 1..n : k # i /\ log[k].at >= log[i].at}

\* "A duplicate of an already delivered message is harmless": a uid completes
\* twice only when its first completion is a TTL old, or MaxCompleted other
\* messages completed no earlier than it.
AtMostOnce ==
    \A j \in 1..Len(log) : \A i \in 1..(j - 1) :
        log[i].uid = log[j].uid =>
            \/ log[j].at - log[i].at >= TTL
            \/ Cardinality(NotOlder(i, j - 1)) >= MaxCompleted

\* The chunks of a completed envelope all arrived within one TTL: a late chunk
\* never completes a message begun before the window.
AssembledInOneWindow == \A i \in 1..Len(log) : log[i].at - log[i].from \in 0..(TTL - 1)

\* What makes AtMostOnce inductive: a completion is remembered until it is too
\* old or crowded out, and completed holds nothing that did not complete.
Forgotten(i) ==
    \/ now - log[i].at >= TTL
    \/ Cardinality(NotOlder(i, Len(log))) >= MaxCompleted

CompletionsRemembered ==
    /\ \A i \in 1..Len(log) :
          \/ Forgotten(i)
          \/ log[i].uid \in DOMAIN completed /\ completed[log[i].uid] = log[i].at
    /\ \A u \in DOMAIN completed :
          \E i \in 1..Len(log) : log[i].uid = u /\ log[i].at = completed[u]

IInv == TypeOK /\ WithinLimits /\ NothingStuck /\ AtMostOnce /\ AssembledInOneWindow
        /\ CompletionsRemembered

Begun(u, t) == u \in DOMAIN partial /\ partial[u].createdAt = t

\* A message that is not completed is forgotten: its slot comes free although
\* no chunk ever arrives again.
AbandonedIsForgotten ==
    \A u \in Uids, t \in 0..(MaxNow - TTL) : Begun(u, t) ~> ~Begun(u, t)
=============================================================================
