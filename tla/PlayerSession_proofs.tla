------------------------- MODULE PlayerSession_proofs -------------------------
(***************************************************************************)
(* Proofs about PlayerSession, for every set of players, channels and      *)
(* channel files, and any number of commands and failures.                 *)
(***************************************************************************)
EXTENDS PlayerSession, TLAPS

IInv == TypeOK /\ Entries /\ Restored

-----------------------------------------------------------------------------
(* Values *)

\* The special values are none of the values they stand beside.
LEMMA Special ==
    /\ NoSession \notin PlayerState /\ NoRow \notin PlayerState
    /\ NoChannel \notin Channels /\ Normal \in Channels
  BY SessionAssumption

\* A configuration's default is one of its channels.
LEMMA Defaults ==
    ASSUME TypeOK
    PROVE  config.default \in config.channels /\ config.default \in Channels
  BY SessionAssumption DEF TypeOK, Configuration

\* Who has never been seen has the blank state.
LEMMA BlankIsState == Blank \in PlayerState /\ Blank.set \in Settings /\ Blank.set.ignored = {}
  BY DEF Blank, PlayerState, Settings, Membership

\* What a session is when there is one, and what a row is.
LEMMA States ==
    ASSUME TypeOK, NEW p \in Players
    PROVE  /\ HasSession(p) => session[p] \in PlayerState
           /\ row[p] # NoRow =>
                 /\ row[p] \in PlayerState
                 /\ row[p].in.active \in row[p].in.joined \cup {NoChannel}
  BY DEF TypeOK, HasSession

\* One entry of a table changed.
LEMMA OneChanged ==
    ASSUME NEW S, NEW f \in [Players -> S], NEW p \in Players, NEW v \in S
    PROVE  /\ With(f, p, v) \in [Players -> S]
           /\ With(f, p, v)[p] = v
           /\ \A q \in Players : q # p => With(f, p, v)[q] = f[q]
  BY DEF With

\* What a store writes: the settings as they are, an active channel that is joined.
LEMMA StoredIsRow ==
    ASSUME NEW s \in PlayerState, NEW r
    PROVE  /\ Stored(s, r) \in PlayerState
           /\ Stored(s, r).set = s.set
           /\ Stored(s, r).in.active \in Stored(s, r).in.joined \cup {NoChannel}
<1>1. s.set \in Settings /\ s.in \in Membership /\ s = [set |-> s.set, in |-> s.in]
  BY DEF PlayerState
<1>2. s.in.active \in Channels \cup {NoChannel} /\ s.in.joined \in SUBSET Channels
  BY <1>1 DEF Membership
<1> DEFINE a == IF s.in.active \in s.in.joined THEN s.in.active ELSE NoChannel
<1>3. Stored(s, r) = [s EXCEPT !.in.active = a]
  BY DEF Stored
<1>4. Stored(s, r) = [set |-> s.set, in |-> [active |-> a, joined |-> s.in.joined]]
  BY <1>1, <1>3 DEF Membership
<1> QED BY <1>1, <1>2, <1>4 DEF PlayerState, Membership

\* A first entry takes the settings it was given and speaks where it is.
LEMMA FreshEntry ==
    ASSUME TypeOK, NEW s \in PlayerState, s.in.active \in s.in.joined \cup {NoChannel}
    PROVE  /\ Fresh(s) \in PlayerState /\ Fresh(s).set = s.set
           /\ Fresh(s).in.active \in Fresh(s).in.joined
<1>1. s.set \in Settings /\ s.in \in Membership /\ s = [set |-> s.set, in |-> s.in]
  BY DEF PlayerState
<1>2. s.in.active \in Channels \cup {NoChannel} /\ s.in.joined \in SUBSET Channels
  BY <1>1 DEF Membership
<1> DEFINE a == IF s.in.active = NoChannel THEN config.default ELSE s.in.active
<1> DEFINE j == s.in.joined \cup {config.default}
<1>3. Fresh(s) = [set |-> s.set, in |-> [active |-> a, joined |-> j]]
  BY <1>1 DEF Fresh
<1>4. a \in j /\ a \in Channels /\ j \in SUBSET Channels
  BY <1>2, Defaults
<1> QED BY <1>1, <1>3, <1>4 DEF PlayerState, Membership

\* A later login adds the default channel to the entry and changes nothing else.
LEMMA RejoinedEntry ==
    ASSUME TypeOK, NEW p \in Players, HasSession(p), NEW stored
    PROVE  /\ JoinedWith(p, stored) \in PlayerState
           /\ JoinedWith(p, stored).set = session[p].set
           /\ JoinedWith(p, stored).in.active = session[p].in.active
           /\ session[p].in.joined \subseteq JoinedWith(p, stored).in.joined
<1>1. /\ session[p].set \in Settings /\ session[p].in \in Membership
      /\ session[p] = [set |-> session[p].set, in |-> session[p].in]
  BY States DEF PlayerState
<1>2. session[p].in = [active |-> session[p].in.active, joined |-> session[p].in.joined]
  BY <1>1 DEF Membership
<1> DEFINE j == session[p].in.joined \cup {config.default}
<1>3. JoinedWith(p, stored) = [session[p] EXCEPT !.in.joined = j]
  BY DEF JoinedWith
<1>4. JoinedWith(p, stored) =
        [set |-> session[p].set, in |-> [active |-> session[p].in.active, joined |-> j]]
  BY <1>1, <1>2, <1>3
<1> QED BY <1>1, <1>4, Defaults DEF PlayerState, Membership

\* A new record for the settings, or for the membership, of an entry.
LEMMA NewParts ==
    ASSUME NEW s \in PlayerState, NEW set \in Settings, NEW in \in Membership
    PROVE  /\ [s EXCEPT !.set = set] \in PlayerState
           /\ [s EXCEPT !.set = set].set = set /\ [s EXCEPT !.set = set].in = s.in
           /\ [s EXCEPT !.in = in] \in PlayerState
           /\ [s EXCEPT !.in = in].in = in /\ [s EXCEPT !.in = in].set = s.set
  BY DEF PlayerState

-----------------------------------------------------------------------------
(* Entries, and what is in force *)

Tables(sessions, rows) ==
    /\ sessions \in [Players -> PlayerState \cup {NoSession}]
    /\ rows \in [Players -> PlayerState \cup {NoRow}]

\* An entry of p as Entries wants it.
EntryOf(p, s) ==
    /\ s \in PlayerState
    /\ s.in.active \in s.in.joined \cup {Normal}
    /\ p \notin s.set.ignored

\* The entries there are, and what is stored, are such.
LEMMA Present ==
    ASSUME IInv, NEW p \in Players
    PROVE  /\ HasSession(p) => EntryOf(p, session[p]) /\ Held(p) = session[p].set
           /\ row[p] # NoRow => row[p].set \in Settings /\ p \notin row[p].set.ignored
           /\ owed[p] = Held(p) /\ owed[p] \in Settings /\ connections[p] \in 0..2
<1>1. HasSession(p) => EntryOf(p, session[p]) /\ Held(p) = session[p].set
  BY States DEF IInv, Entries, EntryOf, Held
<1>2. row[p] # NoRow => row[p].set \in Settings /\ p \notin row[p].set.ignored
  BY States DEF IInv, Entries, PlayerState
<1> QED BY <1>1, <1>2 DEF IInv, Restored, TypeOK

\* What is in force after a step is a state's settings.
LEMMA HeldNext ==
    ASSUME Tables(session', row'), NEW p \in Players PROVE Held(p)' \in Settings
<1>1. HasSession(p)' => session'[p] \in PlayerState
  BY DEF Tables, HasSession
<1>2. row'[p] # NoRow => row'[p] \in PlayerState
  BY DEF Tables
<1> QED BY <1>1, <1>2, BlankIsState DEF Held, PlayerState

\* A step that keeps what is in force for those who lose nothing keeps Restored.
LEMMA LoseRestores ==
    ASSUME IInv, NEW Losers, Lose(Losers), Tables(session', row'),
           \A q \in Players : q \notin Losers => Held(q)' = Held(q)
    PROVE  owed' \in [Players -> Settings] /\ Restored'
<1>1. ASSUME NEW q \in Players
      PROVE  owed'[q] = Held(q)' /\ owed'[q] \in Settings
  BY Present, HeldNext DEF Lose
<1> QED BY <1>1 DEF Lose, Restored

\* So does a step that keeps it for everybody.
LEMMA QuietRestores ==
    ASSUME IInv, owed' = owed, \A q \in Players : Held(q)' = Held(q)
    PROVE  owed' \in [Players -> Settings] /\ Restored'
  BY DEF IInv, TypeOK, Restored

\* A step that changes the entry of p, and what is owed to p with it.
LEMMA EntryChanges ==
    ASSUME IInv, NEW p \in Players, NEW v, HasSession(p), EntryOf(p, v),
           session' = With(session, p, v), UNCHANGED <<loaded, connections, row>>,
           owed' \in [Players -> Settings], owed'[p] = v.set,
           \A q \in Players : q # p => owed'[q] = owed[q]
    PROVE  Tables(session', row') /\ Entries' /\ Restored'
<1>1. v \in PlayerState /\ v # NoSession
  BY Special DEF EntryOf
<1>2. Tables(session, row)
  BY DEF IInv, TypeOK, Tables
<1>3. /\ Tables(session', row') /\ session'[p] = v
      /\ \A q \in Players : q # p => session'[q] = session[q]
  BY <1>1, <1>2 DEF Tables, With
<1>4. ASSUME NEW q \in Players
      PROVE  /\ HasSession(q)' =>
                   /\ loaded' /\ Online(q)'
                   /\ session'[q].in.active \in session'[q].in.joined \cup {Normal}
                   /\ q \notin session'[q].set.ignored
             /\ row'[q] # NoRow => q \notin row'[q].set.ignored
             /\ Held(q)' = owed'[q]
  <2>1. CASE q = p
    BY <1>1, <1>3, <2>1, Present DEF IInv, Entries, EntryOf, HasSession, Held, Online
  <2>2. CASE q # p
    <3>1. Held(q)' = Held(q)
      BY <1>3, <2>2 DEF Held, HasSession, Online
    <3> QED BY <1>3, <2>2, <3>1, Present DEF IInv, Entries, HasSession, Online
  <2> QED BY <2>1, <2>2
<1> QED BY <1>3, <1>4 DEF Entries, Restored

-----------------------------------------------------------------------------
(* Logins and logouts *)

\* TypeOK but for the tables, and Restored: what each step shows separately.
Rest ==
    /\ config \in Configurations /\ loaded \in BOOLEAN
    /\ connections \in [Players -> 0..2]
    /\ globalMute \in BOOLEAN /\ now \in 1..(MaxTime + 1)
    /\ orders \in 0..MaxOrders /\ faults \in 0..MaxFaults

RowsMarked ==
    \A p \in Players : row[p] # NoRow => row[p].in.active \in row[p].in.joined \cup {NoChannel}

\* The pieces make the invariant, before and after a step.
LEMMA Pieces ==
    /\ IInv <=> Rest /\ Tables(session, row) /\ RowsMarked
                  /\ owed \in [Players -> Settings] /\ Entries /\ Restored
    /\ IInv' <=> Rest' /\ Tables(session', row') /\ RowsMarked'
                  /\ owed' \in [Players -> Settings] /\ Entries' /\ Restored'
  BY DEF IInv, TypeOK, Rest, Tables, RowsMarked

\* A fault is within its bound.
LEMMA FaultBound ==
    ASSUME IInv, NEW n \in Nat, Fault(n) PROVE faults' \in 0..MaxFaults
  BY SessionAssumption DEF IInv, TypeOK, Fault

\* Initially nobody is there and nothing is stored.
LEMMA InvInit == Init => IInv
<1> SUFFICES ASSUME Init PROVE IInv
  OBVIOUS
<1>1. Rest
  <2>1. connections \in [Players -> 0..2]
    BY DEF Init
  <2>2. now \in 1..(MaxTime + 1) /\ orders \in 0..MaxOrders /\ faults \in 0..MaxFaults
    BY SessionAssumption DEF Init
  <2> QED BY <2>1, <2>2 DEF Init, Rest
<1>2. Tables(session, row) /\ RowsMarked /\ Entries
  BY DEF Init, Tables, RowsMarked, Entries, HasSession
<1>3. owed \in [Players -> Settings] /\ Restored
  BY BlankIsState DEF Init, Restored, Held, HasSession, Online
<1> QED BY <1>1, <1>2, <1>3, Pieces

\* A login leaves an entry as it should be, or none, and nobody else's changed.
LEMMA JoinTables ==
    ASSUME IInv, NEW p \in Players, Join(p)
    PROVE  /\ Tables(session', row')
           /\ \A q \in Players : q # p => session'[q] = session[q]
           /\ session'[p] # NoSession => loaded /\ EntryOf(p, session'[p])
           /\ HasSession(p) => session'[p] # NoSession /\ session'[p].set = session[p].set
<1>1. Tables(session, row) /\ row' = row
  BY Pieces DEF Join
<1>2. CASE ~loaded
  BY <1>1, <1>2, Present DEF Join, IInv, Entries, HasSession
<1>3. CASE loaded
  <2>1. PICK outcome \in {"restored", "unread", "unopened"} : Restore(p, outcome)
    BY <1>3 DEF Join
  <2>2. ASSUME NEW v \in PlayerState \cup {NoSession}, session' = With(session, p, v)
        PROVE  /\ Tables(session', row') /\ session'[p] = v
               /\ \A q \in Players : q # p => session'[q] = session[q]
    BY <1>1, <2>2 DEF Tables, With
  <2>3. CASE outcome = "unopened"
    <3>1. session' = With(session, p, session[p]) /\ session[p] \in PlayerState \cup {NoSession}
      BY <1>1, <2>1, <2>3 DEF Restore, Tables
    <3> QED BY <1>3, <2>2, <3>1, Present DEF HasSession
  <2>4. ASSUME NEW stored \in PlayerState,
               stored.in.active \in stored.in.joined \cup {NoChannel},
               p \notin stored.set.ignored,
               session' = With(session, p, JoinedWith(p, stored))
        PROVE  /\ Tables(session', row')
               /\ \A q \in Players : q # p => session'[q] = session[q]
               /\ session'[p] # NoSession => loaded /\ EntryOf(p, session'[p])
               /\ HasSession(p) => session'[p] # NoSession /\ session'[p].set = session[p].set
    <3> DEFINE v == JoinedWith(p, stored)
    <3>1. CASE HasSession(p)
      <4>1. /\ v \in PlayerState /\ v.set = session[p].set
            /\ v.in.active = session[p].in.active /\ session[p].in.joined \subseteq v.in.joined
        BY <3>1, RejoinedEntry DEF IInv
      <4>2. EntryOf(p, v)
        BY <3>1, <4>1, Present DEF EntryOf
      <4> HIDE DEF v
      <4> QED BY <1>3, <2>2, <2>4, <4>1, <4>2, Special DEF v
    <3>2. CASE ~HasSession(p)
      <4>1. v = Fresh(stored)
        BY <3>2 DEF JoinedWith
      <4>2. v \in PlayerState /\ v.set = stored.set /\ v.in.active \in v.in.joined
        BY <2>4, <4>1, FreshEntry DEF IInv
      <4>3. EntryOf(p, v)
        BY <2>4, <4>2 DEF EntryOf
      <4> HIDE DEF v
      <4> QED BY <1>3, <2>2, <2>4, <3>2, <4>2, <4>3, Special DEF v
    <3> QED BY <3>1, <3>2
  <2>5. CASE outcome = "unread"
    <3>1. session' = With(session, p, JoinedWith(p, Blank))
      BY <2>1, <2>5 DEF Restore
    <3>2. Blank.in.active = NoChannel
      BY DEF Blank
    <3> QED BY <2>4, <3>1, <3>2, BlankIsState
  <2>6. CASE outcome = "restored"
    <3>1. session' = With(session, p, JoinedWith(p, Loaded(p)))
      BY <2>1, <2>6 DEF Restore
    <3>2. CASE row[p] = NoRow
      BY <2>4, <3>1, <3>2, BlankIsState DEF Loaded, Blank
    <3>3. CASE row[p] # NoRow
      BY <2>4, <3>1, <3>3, States, Present DEF Loaded, IInv
    <3> QED BY <3>2, <3>3
  <2> QED BY <2>1, <2>3, <2>5, <2>6
<1> QED BY <1>2, <1>3 DEF IInv, TypeOK

\* A login keeps the invariant.
LEMMA JoinKeeps ==
    ASSUME IInv, NEW p \in Players, Join(p) PROVE IInv'
<1>1. /\ Tables(session', row')
      /\ \A q \in Players : q # p => session'[q] = session[q]
      /\ session'[p] # NoSession => loaded /\ EntryOf(p, session'[p])
      /\ HasSession(p) => session'[p] # NoSession /\ session'[p].set = session[p].set
  BY JoinTables
<1>2. /\ connections \in [Players -> 0..2] /\ connections[p] < 2
      /\ connections' = With(connections, p, connections[p] + 1)
      /\ row' = row /\ loaded' = loaded
  BY Pieces DEF Join, Rest
<1>3. /\ connections' \in [Players -> 0..2] /\ connections'[p] = connections[p] + 1
      /\ \A q \in Players : q # p => connections'[q] = connections[q]
      /\ connections'[p] > 0
  <2>1. connections[p] \in 0..2 /\ connections[p] + 1 \in 0..2 /\ connections[p] + 1 > 0
    BY <1>2
  <2> QED BY <1>2, <2>1 DEF With
<1>4. Rest'
  <2>1. faults' \in 0..MaxFaults
    <3>1. connections[p] \in Nat /\ connections[p] + 0 \in Nat /\ connections[p] + 1 \in Nat
      BY <1>2
    <3>2. PICK n \in Nat : Fault(n)
      BY <3>1 DEF Join
    <3> QED BY <3>2, FaultBound
  <2> QED BY <1>2, <1>3, <2>1, Pieces DEF Join, Rest
<1>5. RowsMarked'
  BY <1>2, Pieces DEF RowsMarked
<1>6. Entries'
  <2> SUFFICES ASSUME NEW q \in Players
               PROVE  /\ HasSession(q)' =>
                            /\ loaded' /\ Online(q)'
                            /\ session'[q].in.active \in session'[q].in.joined \cup {Normal}
                            /\ q \notin session'[q].set.ignored
                      /\ row'[q] # NoRow => q \notin row'[q].set.ignored
    BY DEF Entries
  <2>1. CASE q = p
    BY <1>1, <1>2, <1>3, <2>1, Present DEF HasSession, EntryOf, Online
  <2>2. CASE q # p
    BY <1>1, <1>2, <1>3, <2>2, Pieces DEF Entries, HasSession, Online
  <2> QED BY <2>1, <2>2
<1>7. ASSUME NEW q \in Players, q # p PROVE Held(q)' = Held(q)
  BY <1>1, <1>2, <1>3, <1>7 DEF Held, HasSession, Online
<1>8. HasSession(p) => Held(p)' = Held(p)
  BY <1>1 DEF Held, HasSession
<1>9. owed' \in [Players -> Settings] /\ Restored'
  <2>1. CASE ~loaded
    <3>1. owed' = owed /\ session' = session
      BY <2>1 DEF Join
    <3>2. Held(p)' = Held(p)
      BY <1>2, <2>1, <3>1 DEF Held, HasSession
    <3> QED BY <1>7, <3>1, <3>2, QuietRestores
  <2>2. CASE loaded
    <3>1. PICK outcome \in {"restored", "unread", "unopened"} :
            /\ Restore(p, outcome)
            /\ Lose(IF HasSession(p) \/ (outcome = "restored" /\ ~Online(p)) THEN {} ELSE {p})
      BY <2>2 DEF Join
    <3>2. CASE HasSession(p)
      BY <1>1, <1>7, <1>8, <3>1, <3>2, LoseRestores
    <3>3. CASE ~HasSession(p) /\ ~(outcome = "restored" /\ ~Online(p))
      <4>1. Lose({p})
        BY <3>1, <3>3
      <4> QED BY <1>1, <1>7, <4>1, LoseRestores
    <3>4. CASE ~HasSession(p) /\ outcome = "restored" /\ ~Online(p)
      <4>1. Lose({}) /\ session' = With(session, p, Fresh(Loaded(p)))
        BY <3>1, <3>4 DEF Restore, JoinedWith
      <4>2. /\ Loaded(p) \in PlayerState
            /\ Loaded(p).in.active \in Loaded(p).in.joined \cup {NoChannel}
            /\ Loaded(p).set = Held(p)
        <5>1. CASE row[p] = NoRow
          BY <3>4, <5>1, BlankIsState DEF Loaded, Held, Blank
        <5>2. CASE row[p] # NoRow
          BY <3>4, <5>2, States DEF Loaded, Held, IInv
        <5> QED BY <5>1, <5>2
      <4>3. session'[p] = Fresh(Loaded(p)) /\ Fresh(Loaded(p)).set = Held(p)
            /\ Fresh(Loaded(p)) \in PlayerState
        BY <4>1, <4>2, FreshEntry DEF With, IInv
      <4>4. Held(p)' = Held(p)
        BY <4>3, Special DEF Held, HasSession
      <4> QED BY <1>1, <1>7, <4>1, <4>4, LoseRestores
    <3> QED BY <3>2, <3>3, <3>4
  <2> QED BY <2>1, <2>2, Pieces DEF Rest
<1> QED BY <1>1, <1>4, <1>5, <1>6, <1>9, Pieces

\* What a store leaves in a table of rows.
LEMMA RowsStored ==
    ASSUME IInv, NEW p \in Players, NEW s \in PlayerState, p \notin s.set.ignored, NEW r
    PROVE  /\ Stored(s, r) \in PlayerState /\ Stored(s, r) # NoRow
           /\ Stored(s, r).set = s.set /\ p \notin Stored(s, r).set.ignored
           /\ Stored(s, r).in.active \in Stored(s, r).in.joined \cup {NoChannel}
  BY StoredIsRow, Special

\* A logout keeps the invariant.
LEMMA LeaveKeeps ==
    ASSUME IInv, NEW p \in Players, Leave(p) PROVE IInv'
<1>1. /\ connections \in [Players -> 0..2] /\ connections[p] > 0
      /\ connections' = With(connections, p, connections[p] - 1)
      /\ loaded' = loaded /\ Tables(session, row) /\ RowsMarked
  BY Pieces DEF Leave, Rest, Online
<1>2. /\ connections' \in [Players -> 0..2] /\ connections'[p] = connections[p] - 1
      /\ \A q \in Players : q # p => connections'[q] = connections[q]
  <2>1. connections[p] \in 0..2 /\ connections[p] - 1 \in 0..2
    BY <1>1
  <2> QED BY <1>1, <2>1 DEF With
<1>3. CASE ~loaded
  <2>1. UNCHANGED <<session, row, faults, owed>>
    BY <1>3 DEF Leave
  <2>2. \A q \in Players : ~HasSession(q) /\ ~HasSession(q)' /\ Held(q)' = Held(q)
    BY <1>1, <1>3, <2>1, Pieces DEF Entries, HasSession, Held
  <2>3. Entries'
    BY <2>1, <2>2, Pieces DEF Entries
  <2>4. Rest' /\ RowsMarked' /\ Tables(session', row')
    BY <1>1, <1>2, <2>1, Pieces DEF Leave, Rest, RowsMarked, Tables
  <2> QED BY <2>1, <2>2, <2>3, <2>4, QuietRestores, Pieces
<1>4. CASE loaded
  <2> DEFINE s == IF HasSession(p) THEN session[p] ELSE Blank
  <2>1. PICK saved \in BOOLEAN :
          /\ Fault(IF saved THEN 0 ELSE 1)
          /\ row' = IF saved THEN With(row, p, Stored(s, row[p])) ELSE row
          /\ Lose(IF HasSession(p) /\ saved /\ connections[p] = 1 THEN {} ELSE {p})
    BY <1>4 DEF Leave
  <2>2. s \in PlayerState /\ p \notin s.set.ignored
    BY Present, BlankIsState DEF EntryOf
  <2>3. /\ session' = With(session, p, NoSession) /\ session'[p] = NoSession
        /\ \A q \in Players : q # p => session'[q] = session[q]
    BY <1>4 DEF Leave, With
  <2> HIDE DEF s
  <2>4. /\ Stored(s, row[p]) \in PlayerState /\ Stored(s, row[p]) # NoRow
        /\ Stored(s, row[p]).set = s.set /\ p \notin Stored(s, row[p]).set.ignored
        /\ Stored(s, row[p]).in.active \in Stored(s, row[p]).in.joined \cup {NoChannel}
    BY <2>2, RowsStored
  <2>5. /\ row' \in [Players -> PlayerState \cup {NoRow}]
        /\ saved => row'[p] = Stored(s, row[p])
        /\ ~saved => row'[p] = row[p]
        /\ \A q \in Players : q # p => row'[q] = row[q]
    BY <1>1, <2>1, <2>4 DEF Tables, With
  <2>6. Tables(session', row') /\ RowsMarked'
    <3>1. session' \in [Players -> PlayerState \cup {NoSession}]
      BY <1>1, <2>3 DEF Tables, With
    <3>2. ASSUME NEW q \in Players, row'[q] # NoRow
          PROVE  row'[q].in.active \in row'[q].in.joined \cup {NoChannel}
      BY <1>1, <2>4, <2>5, <3>2 DEF RowsMarked
    <3> QED BY <2>5, <3>1, <3>2 DEF Tables, RowsMarked
  <2>7. Rest'
    <3>1. PICK n \in Nat : Fault(n)
      BY <2>1
    <3>2. faults' \in 0..MaxFaults
      BY <3>1, FaultBound
    <3> QED BY <1>1, <1>2, <3>2, Pieces DEF Leave, Rest
  <2>8. Entries'
    <3> SUFFICES ASSUME NEW q \in Players
                 PROVE  /\ HasSession(q)' =>
                              /\ loaded' /\ Online(q)'
                              /\ session'[q].in.active \in session'[q].in.joined \cup {Normal}
                              /\ q \notin session'[q].set.ignored
                        /\ row'[q] # NoRow => q \notin row'[q].set.ignored
      BY DEF Entries
    <3>1. CASE q = p
      BY <2>3, <2>4, <2>5, <3>1, Present DEF HasSession
    <3>2. CASE q # p
      BY <1>1, <1>2, <2>3, <2>5, <3>2, Pieces DEF Entries, HasSession, Online
    <3> QED BY <3>1, <3>2
  <2>9. ASSUME NEW q \in Players, q # p PROVE Held(q)' = Held(q)
    BY <1>1, <1>2, <2>3, <2>5, <2>9 DEF Held, HasSession, Online
  <2>10. owed' \in [Players -> Settings] /\ Restored'
    <3>1. CASE HasSession(p) /\ saved /\ connections[p] = 1
      <4>1. Lose({})
        BY <2>1, <3>1
      <4>2. ~Online(p)'
        BY <1>2, <3>1 DEF Online
      <4>3. Held(p)' = s.set /\ Held(p) = session[p].set
        BY <2>3, <2>4, <2>5, <3>1, <4>2 DEF Held, HasSession
      <4>4. Held(p)' = Held(p)
        BY <3>1, <4>3 DEF s
      <4> QED BY <2>6, <2>9, <4>1, <4>4, LoseRestores
    <3>2. CASE ~(HasSession(p) /\ saved /\ connections[p] = 1)
      <4>1. Lose({p})
        BY <2>1, <3>2
      <4> QED BY <2>6, <2>9, <4>1, LoseRestores
    <3> QED BY <3>1, <3>2
  <2> QED BY <2>6, <2>7, <2>8, <2>10, Pieces
<1> QED BY <1>3, <1>4, Pieces DEF Rest

-----------------------------------------------------------------------------
(* The plugin, and the machine, stopping and starting *)

\* A step after which nobody has an entry keeps Entries if it keeps the rows good.
LEMMA NoEntries ==
    ASSUME IInv, \A q \in Players : session'[q] = NoSession,
           \A q \in Players : row'[q] # NoRow => q \notin row'[q].set.ignored
    PROVE  Entries'
  BY DEF Entries, HasSession

\* Unloading stores the entries and forgets them.
LEMMA UnloadKeeps == ASSUME IInv, Unload PROVE IInv'
<1>1. PICK saved \in SUBSET {p \in Players : HasSession(p)} :
        /\ Fault(IF \A p \in Players : HasSession(p) => p \in saved THEN 0 ELSE 1)
        /\ row' = [p \in Players |-> IF p \in saved THEN Stored(session[p], row[p]) ELSE row[p]]
        /\ Lose({p \in Players : Online(p)} \ saved)
  BY DEF Unload
<1>2. Tables(session, row) /\ RowsMarked
  BY Pieces
<1>3. ASSUME NEW p \in Players
      PROVE  /\ row'[p] \in PlayerState \cup {NoRow}
             /\ row'[p] # NoRow => /\ row'[p].in.active \in row'[p].in.joined \cup {NoChannel}
                                   /\ p \notin row'[p].set.ignored
             /\ p \in saved => HasSession(p) /\ row'[p] # NoRow /\ row'[p].set = session[p].set
             /\ p \notin saved => row'[p] = row[p]
  <2>1. CASE p \in saved
    <3>1. HasSession(p) /\ EntryOf(p, session[p]) /\ row'[p] = Stored(session[p], row[p])
      BY <1>1, <2>1, Present
    <3> QED BY <2>1, <3>1, RowsStored DEF EntryOf
  <2>2. CASE p \notin saved
    BY <1>1, <1>2, <2>2, Present DEF Tables, RowsMarked
  <2> QED BY <2>1, <2>2
<1>4. session' = [p \in Players |-> NoSession] /\ loaded /\ ~loaded'
  BY DEF Unload
<1>5. Tables(session', row') /\ RowsMarked' /\ Entries'
  <2>1. row' \in [Players -> PlayerState \cup {NoRow}]
    BY <1>1, <1>3
  <2>2. session' \in [Players -> PlayerState \cup {NoSession}]
    BY <1>4
  <2> QED BY <1>3, <1>4, <2>1, <2>2, NoEntries DEF Tables, RowsMarked
<1>6. Rest'
  <2>1. PICK n \in Nat : Fault(n)
    BY <1>1
  <2> QED BY <2>1, FaultBound, Pieces DEF Unload, Rest
<1>7. ASSUME NEW q \in Players, q \notin {p \in Players : Online(p)} \ saved
      PROVE  Held(q)' = Held(q)
  <2>1. CASE q \in saved
    BY <1>3, <1>4, <2>1 DEF Held, HasSession
  <2>2. CASE q \notin saved
    <3>1. ~Online(q) /\ ~HasSession(q) /\ row'[q] = row[q]
      BY <1>3, <1>7, <2>2, Pieces DEF Entries
    <3> QED BY <1>4, <3>1 DEF Held, HasSession
  <2> QED BY <2>1, <2>2
<1>8. owed' \in [Players -> Settings] /\ Restored'
  BY <1>1, <1>5, <1>7, LoseRestores
<1> QED BY <1>5, <1>6, <1>8, Pieces

\* Loading finds nobody with an entry, and gives none.
LEMMA LoadKeeps == ASSUME IInv, Load PROVE IInv'
<1>1. /\ UNCHANGED <<connections, session, row, globalMute, now, orders>>
      /\ ~loaded /\ loaded' = TRUE /\ config' \in Configurations
      /\ Lose({p \in Players : Online(p)})
  BY DEF Load
<1>2. \A q \in Players : ~HasSession(q)
  BY <1>1, Pieces DEF Entries
<1>3. Tables(session', row') /\ RowsMarked' /\ Entries'
  BY <1>1, <1>2, Pieces DEF Tables, RowsMarked, Entries, HasSession
<1>4. Rest'
  <2>1. PICK n \in Nat : Fault(n)
    BY DEF Load
  <2> QED BY <1>1, <2>1, FaultBound, Pieces DEF Rest
<1>5. ASSUME NEW q \in Players, q \notin {p \in Players : Online(p)} PROVE Held(q)' = Held(q)
  BY <1>1, <1>2, <1>5 DEF Held, HasSession, Online
<1>6. owed' \in [Players -> Settings] /\ Restored'
  BY <1>1, <1>3, <1>5, LoseRestores
<1> QED BY <1>3, <1>4, <1>6, Pieces

\* After a crash the rows are all there is.
LEMMA CrashKeeps == ASSUME IInv, Crash PROVE IInv'
<1>1. /\ UNCHANGED <<config, row, now, orders>> /\ globalMute' = FALSE
      /\ loaded' = FALSE /\ connections' = [p \in Players |-> 0]
      /\ session' = [p \in Players |-> NoSession]
      /\ Lose({p \in Players : Online(p)}) /\ Fault(1)
  BY DEF Crash
<1>2. Tables(session', row') /\ RowsMarked'
  BY <1>1, Pieces DEF Tables, RowsMarked
<1>3. Entries'
  BY <1>1, NoEntries, Pieces DEF Entries
<1>4. Rest'
  <2>1. connections' \in [Players -> 0..2]
    BY <1>1
  <2> QED BY <1>1, <2>1, FaultBound, Pieces DEF Rest
<1>5. ASSUME NEW q \in Players, q \notin {p \in Players : Online(p)} PROVE Held(q)' = Held(q)
  <2>1. ~HasSession(q) /\ ~Online(q)
    BY <1>5, Pieces DEF Entries
  <2> QED BY <1>1, <2>1 DEF Held, HasSession
<1>6. owed' \in [Players -> Settings] /\ Restored'
  BY <1>1, <1>2, <1>5, LoseRestores
<1> QED BY <1>2, <1>3, <1>4, <1>6, Pieces

\* A step that touches neither players nor tables.
LEMMA AsideKeeps ==
    ASSUME IInv, UNCHANGED <<loaded, connections, session, row, owed>>, Rest' PROVE IInv'
<1>1. Tables(session', row') /\ RowsMarked' /\ Entries'
  BY Pieces DEF Tables, RowsMarked, Entries, HasSession, Online
<1>2. \A q \in Players : Held(q)' = Held(q)
  BY DEF Held, HasSession, Online
<1> QED BY <1>1, <1>2, QuietRestores, Pieces

-----------------------------------------------------------------------------
(* Commands and messages *)

\* A command uses one of its bound and leaves the players and the rows.
LEMMA CommandRest ==
    ASSUME IInv, Command, globalMute' \in BOOLEAN
    PROVE  Rest' /\ RowsMarked' /\ UNCHANGED <<loaded, connections, row>>
<1>1. orders' \in 0..MaxOrders
  BY SessionAssumption, Pieces DEF Command, Rest
<1> QED BY <1>1, Pieces DEF Command, Rest, RowsMarked

\* An order to a player who has an entry, none of whose settings ignores the player.
LEMMA OrderKeeps ==
    ASSUME IInv, NEW p \in Players, NEW set, Order(p, set),
           HasSession(p) => set \in Settings /\ p \notin set.ignored
    PROVE  IInv'
<1>1. /\ Command /\ globalMute' = globalMute /\ HasSession(p)
      /\ session' = With(session, p, [session[p] EXCEPT !.set = set])
      /\ owed' = With(owed, p, set)
  BY DEF Order
<1> DEFINE v == [session[p] EXCEPT !.set = set]
<1>2. EntryOf(p, session[p]) /\ set \in Settings /\ p \notin set.ignored
  BY <1>1, Present
<1>3. EntryOf(p, v) /\ v.set = set
  <2>1. session[p] \in PlayerState /\ session[p].in \in Membership
    BY <1>2 DEF EntryOf, PlayerState
  <2>2. v \in PlayerState /\ v.set = set /\ v.in = session[p].in
    BY <1>2, <2>1, NewParts
  <2> QED BY <1>2, <2>2 DEF EntryOf
<1> HIDE DEF v
<1>4. /\ owed' \in [Players -> Settings] /\ owed'[p] = set
      /\ \A q \in Players : q # p => owed'[q] = owed[q]
  BY <1>1, <1>2, Pieces DEF With
<1>5. Rest' /\ RowsMarked' /\ UNCHANGED <<loaded, connections, row>>
  BY <1>1, CommandRest, Pieces DEF Rest
<1>6. session' = With(session, p, v)
  BY <1>1 DEF v
<1>7. Tables(session', row') /\ Entries' /\ Restored'
  BY <1>1, <1>3, <1>4, <1>5, <1>6, EntryChanges
<1> QED BY <1>4, <1>5, <1>7, Pieces

\* The orders.
LEMMA OrdersKeep ==
    ASSUME IInv, NEW p \in Players,
           MutePlayer(p) \/ UnmutePlayer(p) \/ ShadowMute(p) \/ Spy(p) \/ Color(p) \/ Ignore(p)
    PROVE  IInv'
<1> DEFINE set == session[p].set
<1>1. HasSession(p) => set \in Settings /\ p \notin set.ignored
  BY Present DEF EntryOf, PlayerState
<1>2. now \in Int /\ \A d \in Lengths : now + d \in Int
  BY SessionAssumption, Pieces DEF Rest
<1>3. CASE MutePlayer(p)
  <2>1. PICK until \in {-1} \cup {now + d : d \in Lengths} : Order(p, [set EXCEPT !.until = until])
    BY <1>3 DEF MutePlayer
  <2>2. until \in Int
    BY <1>2
  <2>3. HasSession(p) => [set EXCEPT !.until = until] \in Settings
                         /\ p \notin [set EXCEPT !.until = until].ignored
    BY <1>1, <2>2 DEF Settings
  <2> QED BY <2>1, <2>3, OrderKeeps
<1>4. CASE UnmutePlayer(p)
  <2>1. HasSession(p) => [set EXCEPT !.until = 0] \in Settings
                         /\ p \notin [set EXCEPT !.until = 0].ignored
    BY <1>1 DEF Settings
  <2> QED BY <1>4, <2>1, OrderKeeps DEF UnmutePlayer
<1>5. CASE ShadowMute(p)
  <2>1. PICK on \in BOOLEAN : Order(p, [set EXCEPT !.shadow = on])
    BY <1>5 DEF ShadowMute
  <2>2. HasSession(p) => [set EXCEPT !.shadow = on] \in Settings
                         /\ p \notin [set EXCEPT !.shadow = on].ignored
    BY <1>1 DEF Settings
  <2> QED BY <2>1, <2>2, OrderKeeps
<1>6. CASE Spy(p)
  <2>1. HasSession(p) => [set EXCEPT !.spy = ~@] \in Settings
                         /\ p \notin [set EXCEPT !.spy = ~@].ignored
    BY <1>1 DEF Settings
  <2> QED BY <1>6, <2>1, OrderKeeps DEF Spy
<1>7. CASE Color(p)
  <2>1. PICK c \in Colours \cup {NoColour} : Order(p, [set EXCEPT !.colour = c])
    BY <1>7 DEF Color
  <2>2. HasSession(p) => [set EXCEPT !.colour = c] \in Settings
                         /\ p \notin [set EXCEPT !.colour = c].ignored
    BY <1>1 DEF Settings
  <2> QED BY <2>1, <2>2, OrderKeeps
<1>8. CASE Ignore(p)
  <2>1. PICK q \in Players \ {p} :
          Order(p, [set EXCEPT !.ignored = IF q \in @ THEN @ \ {q} ELSE @ \cup {q}])
    BY <1>8 DEF Ignore
  <2> DEFINE list == IF q \in set.ignored THEN set.ignored \ {q} ELSE set.ignored \cup {q}
  <2>2. HasSession(p) => list \in SUBSET Players /\ p \notin list
    BY <1>1 DEF Settings
  <2>3. Order(p, [set EXCEPT !.ignored = list])
    BY <2>1
  <2> HIDE DEF list
  <2>4. HasSession(p) => [set EXCEPT !.ignored = list] \in Settings
                         /\ p \notin [set EXCEPT !.ignored = list].ignored
    BY <1>1, <2>2 DEF Settings
  <2> QED BY <2>3, <2>4, OrderKeeps
<1> QED BY <1>3, <1>4, <1>5, <1>6, <1>7, <1>8

\* A change of membership that leaves the player speaking where they should.
LEMMA MoveKeeps ==
    ASSUME IInv, NEW p \in Players, NEW in, Move(p, in),
           HasSession(p) => in \in Membership /\ in.active \in in.joined \cup {Normal}
    PROVE  IInv'
<1>1. /\ Command /\ globalMute' = globalMute /\ owed' = owed /\ HasSession(p)
      /\ session' = With(session, p, [session[p] EXCEPT !.in = in])
  BY DEF Move
<1> DEFINE v == [session[p] EXCEPT !.in = in]
<1>2. EntryOf(p, session[p]) /\ in \in Membership /\ in.active \in in.joined \cup {Normal}
  BY <1>1, Present
<1>3. EntryOf(p, v) /\ v.set = session[p].set
  <2>1. session[p] \in PlayerState /\ session[p].set \in Settings
    BY <1>2 DEF EntryOf, PlayerState
  <2>2. v \in PlayerState /\ v.set = session[p].set /\ v.in = in
    BY <1>2, <2>1, NewParts
  <2> QED BY <1>2, <2>2 DEF EntryOf
<1> HIDE DEF v
<1>4. owed' \in [Players -> Settings] /\ owed'[p] = v.set
  BY <1>1, <1>3, Present, Pieces
<1>5. Rest' /\ RowsMarked' /\ UNCHANGED <<loaded, connections, row>>
  BY <1>1, CommandRest, Pieces DEF Rest
<1>6. session' = With(session, p, v)
  BY <1>1 DEF v
<1>7. Tables(session', row') /\ Entries' /\ Restored'
  BY <1>1, <1>3, <1>4, <1>5, <1>6, EntryChanges
<1> QED BY <1>4, <1>5, <1>7, Pieces

\* Joining, quitting and the alias are such changes.
LEMMA MovesKeep ==
    ASSUME IInv, NEW p \in Players, NEW s \in Players, NEW c \in Channels,
           ChannelJoin(s, p, c) \/ ChannelQuit(s, p) \/ BoundAlias(p, c)
    PROVE  IInv'
<1> DEFINE in == session[p].in
<1>1. HasSession(p) => /\ in.active \in Channels \cup {NoChannel} /\ in.joined \in SUBSET Channels
                       /\ in.active \in in.joined \cup {Normal}
  BY Present DEF EntryOf, PlayerState, Membership
<1>2. config.default \in Channels /\ config.channels \subseteq Channels
  BY Defaults, SessionAssumption DEF IInv, TypeOK, Configuration
<1>3. CASE ChannelJoin(s, p, c)
  <2>1. Move(p, [active |-> c, joined |-> in.joined \cup {c}])
    BY <1>3 DEF ChannelJoin
  <2>2. HasSession(p) => [active |-> c, joined |-> in.joined \cup {c}] \in Membership
    BY <1>1 DEF Membership
  <2> QED BY <2>1, <2>2, MoveKeeps
<1>4. CASE ChannelQuit(s, p)
  <2>1. Move(p, Quit(p))
    BY <1>4 DEF ChannelQuit
  <2>2. HasSession(p) => Quit(p) \in Membership /\ Quit(p).active \in Quit(p).joined
    BY <1>1, <1>2 DEF Quit, Membership
  <2> QED BY <2>1, <2>2, MoveKeeps
<1>5. CASE BoundAlias(p, c)
  <2>1. Move(p, Toggled(in, c))
    BY <1>5 DEF BoundAlias
  <2>2. HasSession(p) => /\ Toggled(in, c) \in Membership
                         /\ Toggled(in, c).active \in Toggled(in, c).joined \cup {Normal}
    BY <1>1, Special DEF Toggled, Membership
  <2> QED BY <2>1, <2>2, MoveKeeps
<1> QED BY <1>3, <1>4, <1>5

\* A message drops a mute that is over, and nothing else.
LEMMA ChatKeeps == ASSUME IInv, NEW p \in Players, Chat(p) PROVE IInv'
<1>1. /\ loaded /\ Online(p)
      /\ session' = With(session, p, Expired(p))
      /\ owed' = With(owed, p, [owed[p] EXCEPT !.until = IF MuteInForce(@) THEN @ ELSE 0])
      /\ UNCHANGED <<config, loaded, connections, row, globalMute, now, orders, faults>>
  BY DEF Chat, MaySpeak
<1>2. Rest' /\ RowsMarked'
  BY <1>1, Pieces DEF Rest, RowsMarked
<1>3. owed[p] \in Settings /\ owed[p] = Held(p) /\ now \in Nat /\ now > 0
  BY Present, SessionAssumption, Pieces DEF Rest
<1> DEFINE left == [owed[p] EXCEPT !.until = IF MuteInForce(@) THEN @ ELSE 0]
<1>4. /\ left \in Settings
      /\ MuteInForce(owed[p].until) => left = owed[p]
      /\ ~MuteInForce(owed[p].until) => left = [owed[p] EXCEPT !.until = 0]
  BY <1>3 DEF Settings
<1>5. owed' = With(owed, p, left)
  BY <1>1
<1> HIDE DEF left
<1>6. /\ owed' \in [Players -> Settings] /\ owed'[p] = left
      /\ \A q \in Players : q # p => owed'[q] = owed[q]
  BY <1>4, <1>5, Pieces DEF With
<1>7. CASE HasSession(p)
  <2>1. session[p] \in PlayerState /\ session[p].set = owed[p] /\ EntryOf(p, session[p])
    BY <1>3, <1>7, Present DEF EntryOf
  <2>2. Expired(p) \in PlayerState /\ Expired(p).in = session[p].in
        /\ Expired(p).set = left
    <3>1. session[p] = [set |-> owed[p], in |-> session[p].in] /\ session[p].in \in Membership
      BY <2>1 DEF PlayerState
    <3>2. CASE owed[p].until > 0 /\ owed[p].until <= now
      <4>1. Expired(p) = [session[p] EXCEPT !.set = [owed[p] EXCEPT !.until = 0]]
        BY <1>7, <2>1, <3>2 DEF Expired
      <4>2. left = [owed[p] EXCEPT !.until = 0]
        BY <1>3, <1>4, <3>2 DEF MuteInForce, Settings
      <4> QED BY <1>4, <2>1, <3>1, <4>1, <4>2, NewParts
    <3>3. CASE ~(owed[p].until > 0 /\ owed[p].until <= now)
      <4>1. Expired(p) = session[p]
        BY <2>1, <3>3 DEF Expired
      <4>2. left = owed[p]
        BY <1>3, <1>4, <3>3 DEF MuteInForce, Settings
      <4> QED BY <2>1, <4>1, <4>2
    <3> QED BY <3>2, <3>3
  <2>3. left.ignored = owed[p].ignored
    BY <1>3, <1>4 DEF Settings
  <2>4. EntryOf(p, Expired(p))
    BY <2>1, <2>2, <2>3 DEF EntryOf
  <2>5. Tables(session', row') /\ Entries' /\ Restored'
    BY <1>1, <1>6, <1>7, <2>2, <2>4, EntryChanges
  <2> QED BY <1>2, <1>6, <2>5, Pieces
<1>8. CASE ~HasSession(p)
  <2>1. session' = session
    BY <1>1, <1>8, Pieces DEF Expired, With, Tables
  <2>2. owed[p] = Blank.set
    BY <1>1, <1>3, <1>8 DEF Held
  <2>3. left = owed[p]
    BY <1>3, <1>4, <2>2 DEF Blank, MuteInForce
  <2>4. owed' = owed
    BY <1>5, <2>3, Pieces DEF With
  <2> QED BY <1>1, <1>2, <2>1, <2>4, AsideKeeps
<1> QED BY <1>7, <1>8

-----------------------------------------------------------------------------
(* The invariant, and what it gives *)

\* Every step keeps the invariant.
LEMMA InvStep == ASSUME IInv, [Next]_vars PROVE IInv'
<1>1. CASE \E p \in Players : PlayerStep(p)
  BY <1>1, JoinKeeps, LeaveKeeps, OrdersKeep, MovesKeep, ChatKeeps, Special DEF PlayerStep
<1>2. CASE Unload \/ Load \/ Crash
  BY <1>2, UnloadKeeps, LoadKeeps, CrashKeeps
<1>3. CASE Reload
  BY <1>3, AsideKeeps, Pieces DEF Reload, Rest
<1>4. CASE Tick
  <2>1. now' \in 1..(MaxTime + 1)
    BY <1>4, SessionAssumption, Pieces DEF Tick, Rest
  <2> QED BY <1>4, <2>1, AsideKeeps, Pieces DEF Tick, Rest
<1>5. CASE \E on \in BOOLEAN : SetGlobalMute(on)
  <2>1. Command /\ globalMute' \in BOOLEAN /\ UNCHANGED <<session, owed>>
    BY <1>5 DEF SetGlobalMute
  <2> QED BY <2>1, CommandRest, AsideKeeps
<1>6. CASE UNCHANGED vars
  BY <1>6, AsideKeeps, Pieces DEF vars, Rest
<1> QED BY <1>1, <1>2, <1>3, <1>4, <1>5, <1>6 DEF Next

\* The invariant holds of every state.
LEMMA Invariant == Spec => []IInv
  BY InvInit, InvStep, PTL DEF Spec

\* Every variable has its type, and a row names an active channel only if joined.
THEOREM TypeCorrect == Spec => []TypeOK
<1>1. IInv => TypeOK
  BY DEF IInv
<1> QED BY <1>1, Invariant, PTL

\* An entry is only there for who is there, and names where they may speak.
THEOREM EntriesAreSound == Spec => []Entries
<1>1. IInv => Entries
  BY DEF IInv
<1> QED BY <1>1, Invariant, PTL

\* What was ordered for a player is what is in force, but for the losses named.
THEOREM OrdersAreRestored == Spec => []Restored
<1>1. IInv => Restored
  BY DEF IInv
<1> QED BY <1>1, Invariant, PTL

\* What is owed to who is online while the handlers run.
LEMMA OwedOnline ==
    ASSUME IInv, NEW p \in Players, loaded, Online(p)
    PROVE  /\ HasSession(p) => owed[p] = session[p].set /\ session[p].set \in Settings
           /\ ~HasSession(p) => owed[p] = Blank.set
  BY Present DEF Held

\* No message passes a mute, whatever session it was ordered in.
THEOREM MutesHold == Spec => []MuteEnforced
<1>1. ASSUME IInv PROVE MuteEnforced
  <2> SUFFICES ASSUME NEW p \in Players, NEW c \in Channels, Delivered(p, c) # {}
               PROVE  ~MuteInForce(owed[p].until) /\ (globalMute => p \in Ops)
    BY DEF MuteEnforced
  <2>1. loaded /\ Online(p) /\ ~Muted(p)
    BY DEF Delivered, MaySpeak
  <2>2. ~MuteInForce(0)
    BY <1>1, SessionAssumption, Pieces DEF Rest, MuteInForce
  <2>3. ~HasSession(p) => owed[p].until = 0
    BY <1>1, <2>1, OwedOnline DEF Blank
  <2> QED BY <1>1, <2>1, <2>2, <2>3, OwedOnline DEF Muted
<1> QED BY <1>1, Invariant, PTL

\* No message reaches who ignores its sender, or passes a shadow mute.
THEOREM SilenceHolds == Spec => []SilenceEnforced
<1>1. ASSUME IInv PROVE SilenceEnforced
  <2> SUFFICES ASSUME NEW p \in Players, NEW c \in Channels
               PROVE  /\ \A q \in Delivered(p, c) : q # p => p \notin owed[q].ignored
                      /\ owed[p].shadow => Delivered(p, c) \subseteq {p}
    BY DEF SilenceEnforced
  <2>1. CASE Delivered(p, c) = {}
    BY <2>1
  <2>2. CASE Delivered(p, c) # {}
    <3>1. loaded /\ Online(p) /\ Delivered(p, c) = Audience(p, c)
      BY <2>2 DEF Delivered, MaySpeak
    <3>2. ASSUME NEW q \in Delivered(p, c), q # p PROVE p \notin owed[q].ignored
      <4>1. q \in Players /\ Online(q) /\ ~(HasSession(q) /\ p \in session[q].set.ignored)
        BY <3>1, <3>2 DEF Audience, Receivers
      <4> QED BY <1>1, <3>1, <4>1, OwedOnline DEF Blank
    <3>3. owed[p].shadow => HasSession(p) /\ session[p].set.shadow
      BY <1>1, <3>1, OwedOnline DEF Blank
    <3>4. owed[p].shadow => Delivered(p, c) \subseteq {p}
      BY <3>1, <3>3 DEF Audience
    <3> QED BY <3>2, <3>4
  <2> QED BY <2>1, <2>2
<1> QED BY <1>1, Invariant, PTL

\* A player hears what they say where they speak, but for the two exceptions.
THEOREM SpeakersHear == Spec => []HearThemselves
<1>1. ASSUME IInv PROVE HearThemselves
  <2> SUFFICES ASSUME NEW p \in Players, HasSession(p), MaySpeak(p, Routed(p)),
                      Routed(p) # Normal, Routed(p) # config.default
               PROVE  p \in Receivers(p, Routed(p))
    BY DEF HearThemselves
  <2>1. Routed(p) = session[p].in.active
    BY DEF Routed
  <2>2. session[p].in.active \in session[p].in.joined \cup {Normal} /\ p \notin session[p].set.ignored
    BY <1>1, Pieces DEF Entries
  <2> QED BY <2>1, <2>2 DEF Receivers, MaySpeak
<1> QED BY <1>1, Invariant, PTL

\* Mutes, ignores and shadow mutes hold for every message, which its speaker hears.
THEOREM TalkGoesWhereAllowed == Spec => []ReachesThoseAllowed
<1>1. MuteEnforced /\ SilenceEnforced /\ HearThemselves => ReachesThoseAllowed
  BY DEF ReachesThoseAllowed
<1> QED BY <1>1, MutesHold, SilenceHolds, SpeakersHear, PTL
=============================================================================
