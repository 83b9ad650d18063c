------------------------ MODULE CrossServerChat_proofs ------------------------
(***************************************************************************)
(* Proofs about CrossServerChat, for every set of servers and messages.    *)
(***************************************************************************)
EXTENDS CrossServerChat, TLAPS, SequenceTheorems

-----------------------------------------------------------------------------
(* The payloads' way: five things a step can do to the log and the buffers *)

Quiet == UNCHANGED <<log, inbox, heard>>
Push(p) == Pushed(p) /\ UNCHANGED heard
Handle(s) ==
    /\ heard' = Set(heard, s, heard[s] \o inbox[s])
    /\ inbox' = Set(inbox, s, <<>>)
    /\ UNCHANGED log
Discard(s) == inbox' = Set(inbox, s, <<>>) /\ UNCHANGED <<log, heard>>
Shorten(s) ==
    /\ \E n \in 0..Len(inbox[s]) : inbox' = Set(inbox, s, SubSeq(inbox[s], 1, n))
    /\ UNCHANGED <<log, heard>>

FlowStep ==
    \/ Quiet
    \/ \E p \in Payloads : Push(p)
    \/ \E s \in Servers : Handle(s) \/ Discard(s) \/ Shorten(s)

\* What the two publishing commands publish.
LEMMA PayloadsOf ==
    /\ \A m \in Messages : Said(m) \in Payloads
    /\ \A v \in {"on", "off"} : MuteSet(v) \in Payloads
  BY DEF Payloads

\* Every step does one of the five.
LEMMA StepsFlow ==
    ASSUME [Next]_vars PROVE FlowStep
<1>1. ASSUME NEW s \in Servers, NEW m \in Messages, Chat(s, m) PROVE FlowStep
  <2>1. CASE PublishAccepted(s, Said(m))
    BY <1>1, <2>1, PayloadsOf DEF Chat, PublishAccepted, FlowStep, Push
  <2>2. CASE PublishRefused(s)
    BY <1>1, <2>2 DEF Chat, PublishRefused, FlowStep, Quiet
  <2>3. CASE PublishDoubtful(s, Said(m))
    BY <1>1, <2>3, PayloadsOf DEF Chat, PublishDoubtful, FlowStep, Push
  <2> QED BY <1>1, <2>1, <2>2, <2>3 DEF Chat
<1>2. ASSUME NEW s \in Servers, NEW v \in {"on", "off"}, Mute(s, v) PROVE FlowStep
  <2>1. CASE PublishAccepted(s, MuteSet(v))
    BY <1>2, <2>1, PayloadsOf DEF Mute, PublishAccepted, FlowStep, Push
  <2>2. CASE PublishRefused(s)
    BY <1>2, <2>2 DEF Mute, PublishRefused, FlowStep, Quiet
  <2>3. CASE PublishDoubtful(s, MuteSet(v))
    BY <1>2, <2>3, PayloadsOf DEF Mute, PublishDoubtful, FlowStep, Push
  <2> QED BY <1>2, <2>1, <2>2, <2>3 DEF Mute
<1>3. ASSUME NEW s \in Servers, Subscribe(s) PROVE FlowStep
  BY <1>3 DEF Subscribe, FlowStep, Quiet, connections
<1>4. ASSUME NEW s \in Servers, SubscribeFails(s) PROVE FlowStep
  BY <1>4 DEF SubscribeFails, FlowStep, Quiet, connections
<1>5. ASSUME NEW s \in Servers, Pump(s) PROVE FlowStep
  BY <1>5 DEF Pump, FlowStep, Handle
<1>6. ASSUME NEW s \in Servers, DelayElapses(s) PROVE FlowStep
  BY <1>6 DEF DelayElapses, FlowStep, Quiet, connections
<1>7. ASSUME NEW s \in Servers, PublishNames(s) PROVE FlowStep
  BY <1>7 DEF PublishNames, FlowStep, Quiet, PublishRefused
<1>8. ASSUME NEW x \in wire, Deliver(x) PROVE FlowStep
  BY <1>8 DEF Deliver, FlowStep, Quiet, connections
<1>9. ASSUME NEW s \in Servers, Reload(s) PROVE FlowStep
  BY <1>9 DEF Reload, FlowStep, Quiet, connections
<1>10. ASSUME NEW s \in Servers, Reconnect(s) PROVE FlowStep
  BY <1>10 DEF Reconnect, Fresh, FlowStep, Discard
<1>11. ASSUME NEW s \in Servers, Restart(s) PROVE FlowStep
  BY <1>11 DEF Restart, Fresh, FlowStep, Discard
<1>12. ASSUME NEW s \in Servers, CutSubscriber(s) PROVE FlowStep
  BY <1>12 DEF CutSubscriber, FlowStep, Shorten
<1>13. ASSUME NEW s \in Servers, CutPublisher(s) PROVE FlowStep
  BY <1>13 DEF CutPublisher, FlowStep, Quiet, connections
<1>14. CASE RedisStops
  BY <1>14 DEF RedisStops, FlowStep, Quiet, connections
<1>15. CASE RedisStarts
  BY <1>15 DEF RedisStarts, FlowStep, Quiet, connections
<1>16. CASE UNCHANGED vars
  BY <1>16 DEF vars, connections, FlowStep, Quiet
<1> QED
  BY <1>1, <1>2, <1>3, <1>4, <1>5, <1>6, <1>7, <1>8, <1>9, <1>10, <1>11, <1>12, <1>13, <1>14, <1>15, <1>16 DEF Next, Tick

\* The log and the buffers have their types, the buffers in the bounds of the log.
FlowTypes ==
    /\ log \in Seq(Payloads)
    /\ inbox \in [Servers -> Seq(1..Len(log))]
    /\ heard \in [Servers -> Seq(1..Len(log))]

Flow == FlowTypes /\ InOrder

\* Initially the log and every buffer are empty.
LEMMA FlowInit == Init => Flow
<1> SUFFICES ASSUME Init PROVE Flow
  OBVIOUS
<1>1. log = <<>> /\ \A s \in Servers : inbox[s] = <<>> /\ heard[s] = <<>>
  BY DEF Init
<1>2. FlowTypes
  BY EmptySeq DEF Init, FlowTypes
<1>3. \A s \in Servers : Len(inbox[s]) = 0 /\ Len(heard[s]) = 0
  BY <1>1, EmptySeq
<1> QED BY <1>2, <1>3 DEF Flow, InOrder, Ascending

\* What appending a payload does to the log and to a buffer.
LEMMA AppendedTo ==
    ASSUME NEW S, NEW q \in Seq(S), NEW x \in S
    PROVE  /\ Append(q, x) \in Seq(S) /\ Len(Append(q, x)) = Len(q) + 1 /\ Len(q) \in Nat
           /\ \A i \in 1..Len(q) : Append(q, x)[i] = q[i]
           /\ Append(q, x)[Len(q) + 1] = x
  BY AppendProperties, LenProperties

\* A sequence of places stays one when the log is longer.
LEMMA WiderSeq ==
    ASSUME NEW m \in Nat, NEW n \in Nat, m <= n, NEW q \in Seq(1..m)
    PROVE  q \in Seq(1..n)
<1>1. 1..m \subseteq 1..n
  OBVIOUS
<1> QED BY <1>1, SeqMonotonic

\* A publication appends to the log and, place by place, to the buffers it reaches.
LEMMA PushKeepsTypes ==
    ASSUME FlowTypes, NEW p \in Payloads, Push(p)
    PROVE  /\ FlowTypes' /\ Len(log) \in Nat /\ Len(log') = Len(log) + 1
           /\ \A i \in 1..Len(log) : log'[i] = log[i]
           /\ log'[Len(log) + 1] = p
           /\ heard' = heard
           /\ \A s \in Servers :
                 \/ inbox'[s] = inbox[s]
                 \/ /\ Len(inbox'[s]) = Len(inbox[s]) + 1 /\ Len(inbox[s]) \in Nat
                    /\ \A i \in 1..Len(inbox[s]) : inbox'[s][i] = inbox[s][i]
                    /\ inbox'[s][Len(inbox[s]) + 1] = Len(log) + 1
<1>1. log' = Append(log, p) /\ heard' = heard
  BY DEF Push, Pushed
<1>2. /\ log' \in Seq(Payloads) /\ Len(log') = Len(log) + 1 /\ Len(log) \in Nat
      /\ \A i \in 1..Len(log) : log'[i] = log[i]
      /\ log'[Len(log) + 1] = p
  BY <1>1, AppendedTo DEF FlowTypes
<1>3. \A s \in Servers : inbox[s] \in Seq(1..Len(log')) /\ heard[s] \in Seq(1..Len(log'))
  BY <1>2, WiderSeq DEF FlowTypes
<1>4. ASSUME NEW s \in Servers
      PROVE  /\ Append(inbox[s], Len(log) + 1) \in Seq(1..Len(log'))
             /\ Len(Append(inbox[s], Len(log) + 1)) = Len(inbox[s]) + 1 /\ Len(inbox[s]) \in Nat
             /\ \A i \in 1..Len(inbox[s]) : Append(inbox[s], Len(log) + 1)[i] = inbox[s][i]
             /\ Append(inbox[s], Len(log) + 1)[Len(inbox[s]) + 1] = Len(log) + 1
  <2>1. Len(log) + 1 \in 1..Len(log')
    BY <1>2
  <2> QED BY <1>3, <2>1, AppendedTo
<1>5. inbox' = [t \in Servers |-> IF Live(t) THEN Append(inbox[t], Len(log) + 1) ELSE inbox[t]]
  BY DEF Push, Pushed
<1>6. inbox' \in [Servers -> Seq(1..Len(log'))]
  BY <1>3, <1>4, <1>5
<1>7. heard' \in [Servers -> Seq(1..Len(log'))]
  BY <1>1, <1>3 DEF FlowTypes
<1>8. ASSUME NEW s \in Servers PROVE inbox'[s] = inbox[s] \/ inbox'[s] = Append(inbox[s], Len(log) + 1)
  BY <1>5
<1> QED BY <1>1, <1>2, <1>4, <1>6, <1>7, <1>8 DEF FlowTypes

\* The place published comes after every place handled or buffered.
LEMMA PushKeepsOrder ==
    ASSUME Flow, NEW p \in Payloads, Push(p)
    PROVE  InOrder'
<1> SUFFICES ASSUME NEW s \in Servers
             PROVE  /\ Ascending(heard'[s]) /\ Ascending(inbox'[s])
                    /\ \A i \in 1..Len(heard'[s]), j \in 1..Len(inbox'[s]) : heard'[s][i] < inbox'[s][j]
  BY DEF InOrder, Ascending
<1>1. /\ Ascending(heard[s]) /\ Ascending(inbox[s])
      /\ \A i \in 1..Len(heard[s]), j \in 1..Len(inbox[s]) : heard[s][i] < inbox[s][j]
  BY DEF InOrder, Flow
<1>2. CASE inbox'[s] = inbox[s]
  <2>1. heard' = heard
    BY DEF Push
  <2> QED BY <1>1, <1>2, <2>1
<1>3. CASE inbox'[s] # inbox[s]
  <2>1. /\ Len(inbox'[s]) = Len(inbox[s]) + 1 /\ Len(inbox[s]) \in Nat
        /\ \A i \in 1..Len(inbox[s]) : inbox'[s][i] = inbox[s][i]
        /\ inbox'[s][Len(inbox[s]) + 1] = Len(log) + 1
        /\ heard' = heard /\ Len(log) \in Nat
    BY <1>3, PushKeepsTypes DEF Flow
  <2>2. /\ \A i \in 1..Len(inbox[s]) : inbox[s][i] \in 1..Len(log)
        /\ \A i \in 1..Len(heard[s]) : heard[s][i] \in 1..Len(log)
    BY ElementOfSeq DEF Flow, FlowTypes
  <2>3. \A j \in 1..Len(inbox'[s]) : j \in 1..Len(inbox[s]) \/ j = Len(inbox[s]) + 1
    BY <2>1
  <2>4. ASSUME NEW i \in 1..Len(inbox'[s]), NEW j \in 1..Len(inbox'[s]), i < j
        PROVE  inbox'[s][i] < inbox'[s][j]
    <3>1. i \in 1..Len(inbox[s]) /\ inbox'[s][i] = inbox[s][i]
      BY <2>1, <2>3, <2>4
    <3>2. CASE j \in 1..Len(inbox[s])
      <4>1. inbox[s][i] < inbox[s][j] /\ inbox'[s][j] = inbox[s][j]
        BY <1>1, <2>1, <2>4, <3>1, <3>2 DEF Ascending
      <4> QED BY <3>1, <4>1
    <3>3. CASE j = Len(inbox[s]) + 1
      <4>1. inbox'[s][j] = Len(log) + 1 /\ inbox[s][i] \in 1..Len(log)
        BY <2>1, <2>2, <3>1, <3>3
      <4> QED BY <2>1, <3>1, <4>1
    <3> QED BY <2>3, <3>2, <3>3
  <2>5. ASSUME NEW i \in 1..Len(heard[s]), NEW j \in 1..Len(inbox'[s])
        PROVE  heard[s][i] < inbox'[s][j]
    <3>1. CASE j \in 1..Len(inbox[s])
      <4>1. heard[s][i] < inbox[s][j] /\ inbox'[s][j] = inbox[s][j]
        BY <1>1, <2>1, <3>1
      <4> QED BY <4>1
    <3>2. CASE j = Len(inbox[s]) + 1
      <4>1. inbox'[s][j] = Len(log) + 1 /\ heard[s][i] \in 1..Len(log)
        BY <2>1, <2>2, <3>2
      <4> QED BY <2>1, <4>1
    <3> QED BY <2>3, <3>1, <3>2
  <2>6. Ascending(inbox'[s])
    BY <2>4 DEF Ascending
  <2> QED BY <1>1, <2>1, <2>5, <2>6
<1> QED BY <1>2, <1>3

\* A prefix of a buffer, the empty one included.
LEMMA PrefixIs ==
    ASSUME NEW S, NEW q \in Seq(S), NEW n \in 0..Len(q)
    PROVE  /\ SubSeq(q, 1, n) \in Seq(S) /\ Len(SubSeq(q, 1, n)) = n
           /\ \A i \in 1..n : SubSeq(q, 1, n)[i] = q[i]
<1>1. Len(q) \in Nat
  BY LenProperties
<1>2. \A i \in 1..n : q[i] \in S
  BY <1>1, ElementOfSeq
<1> QED BY <1>1, <1>2, SubSeqProperties

\* Both ways of losing buffered payloads leave a prefix.
Shortened(s) ==
    /\ inbox' \in [Servers -> Seq(1..Len(log))]
    /\ \A t \in Servers \ {s} : inbox'[t] = inbox[t]
    /\ Len(inbox'[s]) \in 0..Len(inbox[s])
    /\ \A i \in 1..Len(inbox'[s]) : inbox'[s][i] = inbox[s][i]
    /\ log' = log /\ heard' = heard

\* Dropping a buffer, or its end, leaves a prefix of it.
LEMMA LossShortens ==
    ASSUME FlowTypes, NEW s \in Servers, Discard(s) \/ Shorten(s)
    PROVE  Shortened(s)
<1>1. Len(inbox[s]) \in Nat
  BY LenProperties DEF FlowTypes
<1>2. CASE Discard(s)
  <2>1. <<>> \in Seq(1..Len(log)) /\ Len(<<>>) = 0
    BY EmptySeq
  <2>2. inbox' = Set(inbox, s, <<>>) /\ log' = log /\ heard' = heard
    BY <1>2 DEF Discard
  <2>3. /\ inbox' \in [Servers -> Seq(1..Len(log))] /\ inbox'[s] = <<>>
        /\ \A t \in Servers \ {s} : inbox'[t] = inbox[t]
    BY <2>1, <2>2 DEF FlowTypes, Set
  <2>4. Len(inbox'[s]) = 0
    BY <2>1, <2>3
  <2> QED BY <1>1, <2>2, <2>3, <2>4 DEF Shortened
<1>3. CASE Shorten(s)
  <2>1. PICK n \in 0..Len(inbox[s]) : inbox' = Set(inbox, s, SubSeq(inbox[s], 1, n))
    BY <1>3 DEF Shorten
  <2>2. /\ SubSeq(inbox[s], 1, n) \in Seq(1..Len(log)) /\ Len(SubSeq(inbox[s], 1, n)) = n
        /\ \A i \in 1..n : SubSeq(inbox[s], 1, n)[i] = inbox[s][i]
    BY PrefixIs DEF FlowTypes
  <2>3. /\ inbox' \in [Servers -> Seq(1..Len(log))] /\ inbox'[s] = SubSeq(inbox[s], 1, n)
        /\ \A t \in Servers \ {s} : inbox'[t] = inbox[t]
    BY <2>1, <2>2 DEF FlowTypes, Set
  <2> QED BY <1>3, <2>2, <2>3 DEF Shortened, Shorten
<1> QED BY <1>2, <1>3

\* A prefix of a buffer is in the order of the channel as the buffer was.
LEMMA ShortenedKeepsFlow ==
    ASSUME Flow, NEW s \in Servers, Shortened(s)
    PROVE  Flow'
<1>1. FlowTypes'
  BY DEF Flow, FlowTypes, Shortened
<1>2. ASSUME NEW t \in Servers
      PROVE  /\ Ascending(heard'[t]) /\ Ascending(inbox'[t])
             /\ \A i \in 1..Len(heard'[t]), j \in 1..Len(inbox'[t]) : heard'[t][i] < inbox'[t][j]
  <2>1. /\ Ascending(heard[t]) /\ Ascending(inbox[t])
        /\ \A i \in 1..Len(heard[t]), j \in 1..Len(inbox[t]) : heard[t][i] < inbox[t][j]
    BY DEF Flow, InOrder
  <2>2. CASE t # s
    BY <2>1, <2>2 DEF Shortened
  <2>3. CASE t = s
    <3>1. Len(inbox[s]) \in Nat /\ Len(inbox'[s]) \in 0..Len(inbox[s]) /\ heard' = heard
          /\ \A i \in 1..Len(inbox'[s]) : i \in 1..Len(inbox[s]) /\ inbox'[s][i] = inbox[s][i]
      BY LenProperties DEF Flow, FlowTypes, Shortened
    <3> QED BY <2>1, <2>3, <3>1 DEF Ascending
  <2> QED BY <2>2, <2>3
<1>3. InOrder'
  BY <1>2 DEF InOrder, Ascending
<1> QED BY <1>1, <1>3 DEF Flow

\* A place in the concatenation of a sequences of lengths a and b.
LEMMA Places ==
    ASSUME NEW a \in Nat, NEW b \in Nat
    PROVE  /\ a <= a + b
           /\ \A i \in 1..a : i \in 1..(a + b) /\ i <= a
           /\ \A i \in (a + 1)..(a + b) : i \in 1..(a + b) /\ ~(i <= a) /\ i - a \in 1..b
           /\ \A i \in 1..(a + b) : i <= a => i \in 1..a
           /\ \A i \in 1..(a + b) : i > a => i \in (a + 1)..(a + b)
           /\ \A i \in 1..(a + b), j \in 1..(a + b) : i < j => (j <= a => i <= a) /\ i - a < j - a
  OBVIOUS

\* What handling the buffer of a server does.
LEMMA HandledIs ==
    ASSUME Flow, NEW s \in Servers, Handle(s)
    PROVE  /\ log' = log
           /\ heard' \in [Servers -> Seq(1..Len(log))] /\ inbox' \in [Servers -> Seq(1..Len(log))]
           /\ \A t \in Servers \ {s} : heard'[t] = heard[t] /\ inbox'[t] = inbox[t]
           /\ inbox'[s] = <<>> /\ Len(inbox'[s]) = 0
           /\ Len(heard[s]) \in Nat /\ Len(inbox[s]) \in Nat
           /\ Len(heard'[s]) = Len(heard[s]) + Len(inbox[s])
           /\ \A i \in 1..Len(heard[s]) : heard'[s][i] = heard[s][i]
           /\ \A i \in (Len(heard[s]) + 1)..Len(heard'[s]) :
                 i - Len(heard[s]) \in 1..Len(inbox[s]) /\ heard'[s][i] = inbox[s][i - Len(heard[s])]
<1>1. heard[s] \in Seq(1..Len(log)) /\ inbox[s] \in Seq(1..Len(log))
      /\ Len(heard[s]) \in Nat /\ Len(inbox[s]) \in Nat
  BY LenProperties DEF Flow, FlowTypes
<1>2. /\ heard[s] \o inbox[s] \in Seq(1..Len(log))
      /\ Len(heard[s] \o inbox[s]) = Len(heard[s]) + Len(inbox[s])
      /\ \A i \in 1..(Len(heard[s]) + Len(inbox[s])) :
            (heard[s] \o inbox[s])[i] = IF i <= Len(heard[s]) THEN heard[s][i]
                                                              ELSE inbox[s][i - Len(heard[s])]
  BY <1>1, ConcatProperties
<1>3. <<>> \in Seq(1..Len(log)) /\ Len(<<>>) = 0
  BY EmptySeq
<1>4. /\ heard' \in [Servers -> Seq(1..Len(log))] /\ heard'[s] = heard[s] \o inbox[s]
      /\ inbox' \in [Servers -> Seq(1..Len(log))] /\ inbox'[s] = <<>> /\ log' = log
      /\ \A t \in Servers \ {s} : heard'[t] = heard[t] /\ inbox'[t] = inbox[t]
  <2> DEFINE q == heard[s] \o inbox[s]
             e == <<>>
  <2>1. /\ heard' = [t \in Servers |-> IF t = s THEN q ELSE heard[t]]
        /\ inbox' = [t \in Servers |-> IF t = s THEN e ELSE inbox[t]] /\ log' = log
    BY DEF Handle, Set
  <2>2. q \in Seq(1..Len(log)) /\ e \in Seq(1..Len(log))
    BY <1>2, <1>3
  <2> HIDE DEF q, e
  <2>3. /\ heard' \in [Servers -> Seq(1..Len(log))] /\ heard'[s] = q
        /\ inbox' \in [Servers -> Seq(1..Len(log))] /\ inbox'[s] = e /\ log' = log
        /\ \A t \in Servers \ {s} : heard'[t] = heard[t] /\ inbox'[t] = inbox[t]
    BY <2>1, <2>2 DEF Flow, FlowTypes
  <2> QED BY <2>3 DEF q, e
<1>5. Len(inbox'[s]) = 0
  BY <1>3, <1>4
<1>6. Len(heard'[s]) = Len(heard[s]) + Len(inbox[s])
  BY <1>2, <1>4
<1>7. ASSUME NEW i \in 1..Len(heard[s]) PROVE heard'[s][i] = heard[s][i]
  <2>1. i \in 1..(Len(heard[s]) + Len(inbox[s])) /\ i <= Len(heard[s])
    BY <1>1, Places
  <2>2. (heard[s] \o inbox[s])[i] = heard[s][i]
    BY <1>2, <2>1
  <2> QED BY <1>4, <2>2
<1>8. ASSUME NEW i \in (Len(heard[s]) + 1)..Len(heard'[s])
      PROVE  i - Len(heard[s]) \in 1..Len(inbox[s]) /\ heard'[s][i] = inbox[s][i - Len(heard[s])]
  <2>1. i \in (Len(heard[s]) + 1)..(Len(heard[s]) + Len(inbox[s]))
    BY <1>6
  <2>2. /\ i \in 1..(Len(heard[s]) + Len(inbox[s])) /\ ~(i <= Len(heard[s]))
        /\ i - Len(heard[s]) \in 1..Len(inbox[s])
    BY <1>1, <2>1, Places
  <2>3. (heard[s] \o inbox[s])[i] = inbox[s][i - Len(heard[s])]
    BY <1>2, <2>2
  <2> QED BY <1>4, <2>2, <2>3
<1> QED BY <1>1, <1>4, <1>5, <1>6, <1>7, <1>8

\* What was handled, with the buffer after it, is in the order of the channel.
LEMMA HandleKeepsFlow ==
    ASSUME Flow, NEW s \in Servers, Handle(s)
    PROVE  Flow' /\ Ascending(heard'[s])
<1>0. /\ log' = log
      /\ heard' \in [Servers -> Seq(1..Len(log))] /\ inbox' \in [Servers -> Seq(1..Len(log))]
      /\ \A t \in Servers \ {s} : heard'[t] = heard[t] /\ inbox'[t] = inbox[t]
      /\ inbox'[s] = <<>> /\ Len(inbox'[s]) = 0
      /\ Len(heard[s]) \in Nat /\ Len(inbox[s]) \in Nat
      /\ Len(heard'[s]) = Len(heard[s]) + Len(inbox[s])
  BY HandledIs
<1>6. \A i \in 1..Len(heard[s]) : heard'[s][i] = heard[s][i]
  BY HandledIs
<1>7. \A i \in (Len(heard[s]) + 1)..Len(heard'[s]) :
         i - Len(heard[s]) \in 1..Len(inbox[s]) /\ heard'[s][i] = inbox[s][i - Len(heard[s])]
  BY HandledIs
<1>1. FlowTypes'
  BY <1>0 DEF Flow, FlowTypes
<1>2. \A t \in Servers :
        /\ Ascending(heard[t]) /\ Ascending(inbox[t])
        /\ \A i \in 1..Len(heard[t]), j \in 1..Len(inbox[t]) : heard[t][i] < inbox[t][j]
  BY DEF Flow, InOrder
<1>3. Ascending(heard'[s])
  <2> SUFFICES ASSUME NEW i \in 1..Len(heard'[s]), NEW j \in 1..Len(heard'[s]), i < j
               PROVE  heard'[s][i] < heard'[s][j]
    BY DEF Ascending
  <2> DEFINE a == Len(heard[s])
             b == Len(inbox[s])
  <2>0. a \in Nat /\ b \in Nat /\ i \in 1..(a + b) /\ j \in 1..(a + b) /\ Len(heard'[s]) = a + b
    BY <1>0
  <2>1. CASE j <= Len(heard[s])
    <3>1. i \in 1..Len(heard[s]) /\ j \in 1..Len(heard[s])
      BY <2>0, <2>1, Places
    <3>2. heard'[s][i] = heard[s][i] /\ heard'[s][j] = heard[s][j]
      BY <1>6, <3>1
    <3> QED BY <1>2, <3>1, <3>2 DEF Ascending
  <2>2. CASE i <= Len(heard[s]) /\ j > Len(heard[s])
    <3>1. i \in 1..Len(heard[s]) /\ j \in (Len(heard[s]) + 1)..Len(heard'[s])
      BY <2>0, <2>2, Places
    <3>2. /\ heard'[s][i] = heard[s][i]
          /\ j - Len(heard[s]) \in 1..Len(inbox[s]) /\ heard'[s][j] = inbox[s][j - Len(heard[s])]
      BY <1>6, <1>7, <3>1
    <3> QED BY <1>2, <3>1, <3>2
  <2>3. CASE i > Len(heard[s])
    <3>0. j > Len(heard[s])
      BY <2>0, <2>3
    <3>1. i \in (Len(heard[s]) + 1)..Len(heard'[s]) /\ j \in (Len(heard[s]) + 1)..Len(heard'[s])
      BY <2>0, <2>3, <3>0, Places
    <3>2. /\ i - Len(heard[s]) \in 1..Len(inbox[s]) /\ heard'[s][i] = inbox[s][i - Len(heard[s])]
          /\ j - Len(heard[s]) \in 1..Len(inbox[s]) /\ heard'[s][j] = inbox[s][j - Len(heard[s])]
      BY <1>7, <3>1
    <3>3. i - Len(heard[s]) < j - Len(heard[s])
      BY <2>0, Places
    <3>4. inbox[s][i - Len(heard[s])] < inbox[s][j - Len(heard[s])]
      BY <1>2, <3>2, <3>3 DEF Ascending
    <3> QED BY <3>2, <3>4
  <2>4. j <= a \/ (i <= a /\ j > a) \/ i > a
    BY <2>0
  <2> QED BY <2>1, <2>2, <2>3, <2>4
<1>4. ASSUME NEW t \in Servers
      PROVE  /\ Ascending(heard'[t]) /\ Ascending(inbox'[t])
             /\ \A i \in 1..Len(heard'[t]), j \in 1..Len(inbox'[t]) : heard'[t][i] < inbox'[t][j]
  <2>1. CASE t # s
    BY <1>0, <1>2, <2>1
  <2>2. CASE t = s
    <3>1. /\ Ascending(heard'[s]) /\ inbox'[s] = <<>> /\ 1..Len(inbox'[s]) = {}
      BY <1>0, <1>3
    <3> QED BY <2>2, <3>1 DEF Ascending
  <2> QED BY <2>1, <2>2
<1>5. InOrder'
  BY <1>4 DEF InOrder, Ascending
<1> QED BY <1>1, <1>3, <1>5 DEF Flow

\* Types and order survive every one of the five steps.
LEMMA FlowKept == Flow /\ FlowStep => Flow'
<1> SUFFICES ASSUME Flow, FlowStep PROVE Flow'
  OBVIOUS
<1>1. CASE Quiet
  BY <1>1 DEF Quiet, Flow, FlowTypes, InOrder, Ascending
<1>2. ASSUME NEW p \in Payloads, Push(p) PROVE Flow'
  BY <1>2, PushKeepsTypes, PushKeepsOrder DEF Flow
<1>3. ASSUME NEW s \in Servers, Handle(s) PROVE Flow'
  BY <1>3, HandleKeepsFlow
<1>4. ASSUME NEW s \in Servers, Discard(s) \/ Shorten(s) PROVE Flow'
  <2>1. Shortened(s)
    BY <1>4, LossShortens DEF Flow
  <2> QED BY <2>1, ShortenedKeepsFlow
<1> QED BY <1>1, <1>2, <1>3, <1>4 DEF FlowStep

\* Every server handles what Redis took in the one order Redis took it.
THEOREM OrderKept == Spec => []InOrder
<1>1. Init => Flow
  BY FlowInit
<1>2. Flow /\ [Next]_vars => Flow'
  BY StepsFlow, FlowKept
<1>3. Flow => InOrder
  BY DEF Flow
<1> QED BY <1>1, <1>2, <1>3, PTL DEF Spec

-----------------------------------------------------------------------------
(* The channel is an ordered broadcast *)

\* Publishing is the abstract Publish, handling a buffer the abstract Hear; every
\* other step leaves the log and what was handled alone.
LEMMA FlowIsChannel ==
    ASSUME Flow, Flow', FlowStep
    PROVE  Channel!Next \/ UNCHANGED <<log, heard>>
<1>1. CASE Quiet
  BY <1>1 DEF Quiet
<1>2. ASSUME NEW p \in Payloads, Push(p) PROVE Channel!Next
  BY <1>2 DEF Push, Pushed, Channel!Next, Channel!Publish
<1>3. ASSUME NEW s \in Servers, Handle(s) PROVE Channel!Next
  <2>1. /\ log' = log
        /\ \A t \in Servers \ {s} : heard'[t] = heard[t]
        /\ Len(heard[s]) <= Len(heard'[s])
    <3>1. /\ log' = log
          /\ \A t \in Servers \ {s} : heard'[t] = heard[t]
          /\ Len(heard[s]) \in Nat /\ Len(inbox[s]) \in Nat
          /\ Len(heard'[s]) = Len(heard[s]) + Len(inbox[s])
      BY <1>3, HandledIs
    <3>2. Len(heard[s]) <= Len(heard[s]) + Len(inbox[s])
      BY <3>1, Places
    <3> QED BY <3>1, <3>2
  <2>2. \A i \in 1..Len(heard[s]) : heard'[s][i] = heard[s][i]
    BY <1>3, HandledIs
  <2>3. Channel!Extends(heard[s], heard'[s])
    BY <2>1, <2>2 DEF Channel!Extends
  <2>4. Channel!Ascending(heard'[s]) /\ heard' \in [Servers -> Seq(1..Len(log))]
    BY <1>3, <2>1, HandleKeepsFlow DEF Channel!Ascending, Ascending, Flow, FlowTypes
  <2>5. Channel!Hear(s)
    BY <2>1, <2>3, <2>4 DEF Channel!Hear
  <2> QED BY <2>5 DEF Channel!Next
<1>4. ASSUME NEW s \in Servers, Discard(s) \/ Shorten(s) PROVE UNCHANGED <<log, heard>>
  BY <1>4 DEF Discard, Shorten
<1> QED BY <1>1, <1>2, <1>3, <1>4 DEF FlowStep

\* Whatever breaks, is restarted or reconnected, the channel keeps its promise: the
\* detailed specification implements OrderedBroadcast.
THEOREM ChannelImplemented == Spec => ImplementsChannel
<1>1. Init => Channel!Init
  BY DEF Init, Channel!Init
<1>2. Init => Flow
  BY FlowInit
<1>3. Flow /\ [Next]_vars => Flow'
  BY StepsFlow, FlowKept
<1>4. Flow /\ Flow' /\ [Next]_vars => [Channel!Next]_(Channel!vars)
  BY StepsFlow, FlowIsChannel DEF Channel!vars
<1> QED BY <1>1, <1>2, <1>3, <1>4, PTL DEF Spec, ImplementsChannel, Channel!Spec

-----------------------------------------------------------------------------
(* One route for every message *)

\* What a message's route depends on, with its types.
ChatTypes ==
    /\ fate \in [Messages -> {"unsaid", "redis", "proxy", "refused", "local"}]
    /\ origin \in [Messages -> Servers \cup {None}] /\ doubtful \subseteq Messages
    /\ wire \subseteq [to : Servers, id : Nat, item : Payloads] /\ relays \in Nat
    /\ carried \subseteq Servers \X Messages

\* A step that says nothing and hands nothing over.
Beside == UNCHANGED <<log, fate, origin, doubtful, wire, relays, carried>>

\* A payload tells its message, and a global mute is no message.
LEMMA SaidApart ==
    /\ \A m, n \in Messages : Said(m) = Said(n) => m = n
    /\ \A m \in Messages, v \in {"on", "off"} : Said(m) # MuteSet(v)
    /\ \A m \in Messages : Said(m).act # "GlobalMute" /\ Said(m).body = m
    /\ \A v \in {"on", "off"} : MuteSet(v).act = "GlobalMute" /\ MuteSet(v).body = v
  BY DEF Said, MuteSet

\* Only the two publishing commands and the proxy's deliveries are not beside.
LEMMA StepsRoute ==
    ASSUME [Next]_vars
    PROVE  \/ Beside
           \/ \E s \in Servers, m \in Messages : Chat(s, m)
           \/ \E s \in Servers, v \in {"on", "off"} : Mute(s, v)
           \/ \E x \in wire : Deliver(x)
<1> DEFINE Goal ==
        \/ Beside
        \/ \E s \in Servers, m \in Messages : Chat(s, m)
        \/ \E s \in Servers, v \in {"on", "off"} : Mute(s, v)
        \/ \E x \in wire : Deliver(x)
<1> SUFFICES Goal
  OBVIOUS
<1>1. ASSUME NEW s \in Servers, NEW m \in Messages, Chat(s, m) PROVE Goal
  BY <1>1
<1>2. ASSUME NEW s \in Servers, NEW v \in {"on", "off"}, Mute(s, v) PROVE Goal
  BY <1>2
<1>3. ASSUME NEW s \in Servers, Subscribe(s) PROVE Goal
  BY <1>3 DEF Subscribe, Beside, connections, counters, muting, proxied, chat
<1>4. ASSUME NEW s \in Servers, SubscribeFails(s) PROVE Goal
  BY <1>4 DEF SubscribeFails, Beside, connections, counters, muting, proxied, chat
<1>5. ASSUME NEW s \in Servers, Pump(s) PROVE Goal
  BY <1>5 DEF Pump, Beside, connections, counters, muting, proxied, chat
<1>6. ASSUME NEW s \in Servers, DelayElapses(s) PROVE Goal
  BY <1>6 DEF DelayElapses, Beside, connections, counters, muting, proxied, chat
<1>7. ASSUME NEW s \in Servers, PublishNames(s) PROVE Goal
  BY <1>7 DEF PublishNames, Beside, connections, counters, muting, proxied, chat, PublishRefused
<1>8. ASSUME NEW x \in wire, Deliver(x) PROVE Goal
  BY <1>8
<1>9. ASSUME NEW s \in Servers, Reload(s) PROVE Goal
  BY <1>9 DEF Reload, Beside, connections, counters, muting, proxied, chat
<1>10. ASSUME NEW s \in Servers, Reconnect(s) PROVE Goal
  BY <1>10 DEF Reconnect, Beside, connections, counters, muting, proxied, chat, Fresh
<1>11. ASSUME NEW s \in Servers, Restart(s) PROVE Goal
  BY <1>11 DEF Restart, Beside, connections, counters, muting, proxied, chat, Fresh
<1>12. ASSUME NEW s \in Servers, CutSubscriber(s) PROVE Goal
  BY <1>12 DEF CutSubscriber, Beside, connections, counters, muting, proxied, chat
<1>13. ASSUME NEW s \in Servers, CutPublisher(s) PROVE Goal
  BY <1>13 DEF CutPublisher, Beside, connections, counters, muting, proxied, chat
<1>14. CASE RedisStops
  BY <1>14 DEF RedisStops, Beside, connections, counters, muting, proxied, chat
<1>15. CASE RedisStarts
  BY <1>15 DEF RedisStarts, Beside, connections, counters, muting, proxied, chat
<1>16. CASE UNCHANGED vars
  BY <1>16 DEF vars, Beside, connections, counters, muting, proxied, chat
<1> QED
  BY <1>1, <1>2, <1>3, <1>4, <1>5, <1>6, <1>7, <1>8, <1>9, <1>10, <1>11, <1>12, <1>13, <1>14, <1>15, <1>16 DEF Next, Tick

\* A payload handed to the proxy, or none.
LEMMA RelayTypes ==
    ASSUME ChatTypes, NEW s, NEW p \in Payloads, Relayed(s, p) \/ NotRelayed
    PROVE  wire' \subseteq [to : Servers, id : Nat, item : Payloads] /\ relays' \in Nat
<1>1. CASE NotRelayed
  BY <1>1 DEF NotRelayed, ChatTypes
<1>2. CASE Relayed(s, p)
  <2>1. ChatAssumption
    BY ChatAssumption
  <2> QED BY <1>2, <2>1 DEF Relayed, ChatTypes, ChatAssumption
<1> QED BY <1>1, <1>2

\* What saying m does to its fate, in the three ways it can go.
LEMMA ChatEffect ==
    ASSUME NEW s \in Servers, NEW m \in Messages, Chat(s, m)
    PROVE  /\ fate[m] = "unsaid" /\ origin' = [origin EXCEPT ![m] = s] /\ carried' = carried
           /\ \/ /\ Push(Said(m)) /\ fate' = [fate EXCEPT ![m] = "redis"]
                 /\ NotRelayed /\ doubtful' = doubtful
              \/ /\ log' = log /\ Fallback(s, m) /\ doubtful' = doubtful
              \/ /\ Push(Said(m)) /\ Fallback(s, m) /\ doubtful' = doubtful \cup {m}
<1>1. fate[m] = "unsaid" /\ origin' = [origin EXCEPT ![m] = s] /\ carried' = carried /\ heard' = heard
  BY DEF Chat
<1>2. CASE PublishAccepted(s, Said(m)) /\ fate' = [fate EXCEPT ![m] = "redis"]
           /\ NotRelayed /\ doubtful' = doubtful
  BY <1>1, <1>2 DEF PublishAccepted, Push
<1>3. CASE PublishRefused(s) /\ Fallback(s, m) /\ doubtful' = doubtful
  BY <1>1, <1>3 DEF PublishRefused
<1>4. CASE PublishDoubtful(s, Said(m)) /\ Fallback(s, m) /\ doubtful' = doubtful \cup {m}
  BY <1>1, <1>4 DEF PublishDoubtful, Push
<1> QED BY <1>1, <1>2, <1>3, <1>4 DEF Chat

\* The fallback tells the sender where the message went.
LEMMA FallbackEffect ==
    ASSUME ChatTypes, NEW s \in Servers, NEW m \in Messages, Fallback(s, m)
    PROVE  /\ fate' \in [Messages -> {"unsaid", "redis", "proxy", "refused", "local"}]
           /\ fate'[m] # "unsaid" /\ \A n \in Messages \ {m} : fate'[n] = fate[n]
           /\ Relayed(s, Said(m)) \/ NotRelayed
           /\ \A x \in wire' : x \in wire \/ (x.item = Said(m) /\ fate'[m] = "proxy")
<1>1. CASE Relayed(s, Said(m)) /\ fate' = [fate EXCEPT ![m] = "proxy"]
  <2>1. fate'[m] = "proxy" /\ fate' \in [Messages -> {"unsaid", "redis", "proxy", "refused", "local"}]
        /\ \A n \in Messages \ {m} : fate'[n] = fate[n]
    BY <1>1 DEF ChatTypes
  <2>2. \A x \in wire' : x \in wire \/ x.item = Said(m)
    BY <1>1 DEF Relayed
  <2> QED BY <1>1, <2>1, <2>2
<1>2. CASE NotRelayed /\ (fate' = [fate EXCEPT ![m] = "refused"] \/ fate' = [fate EXCEPT ![m] = "local"])
  <2>1. wire' = wire
    BY <1>2 DEF NotRelayed
  <2> QED BY <1>2, <2>1 DEF ChatTypes
<1> QED BY <1>1, <1>2 DEF Fallback

\* The types of what a route depends on.
LEMMA ChatTypesKept ==
    ASSUME ChatTypes, [Next]_vars PROVE ChatTypes'
<1>1. CASE Beside
  BY <1>1 DEF Beside, ChatTypes
<1>2. ASSUME NEW s \in Servers, NEW m \in Messages, Chat(s, m) PROVE ChatTypes'
  <2>1. /\ origin' = [origin EXCEPT ![m] = s] /\ carried' = carried
        /\ doubtful' = doubtful \/ doubtful' = doubtful \cup {m}
        /\ \/ fate' = [fate EXCEPT ![m] = "redis"] /\ NotRelayed
           \/ Fallback(s, m)
    BY <1>2, ChatEffect
  <2>2. fate' \in [Messages -> {"unsaid", "redis", "proxy", "refused", "local"}]
        /\ (Relayed(s, Said(m)) \/ NotRelayed)
    <3>1. CASE fate' = [fate EXCEPT ![m] = "redis"] /\ NotRelayed
      BY <3>1 DEF ChatTypes
    <3>2. CASE Fallback(s, m)
      BY <3>2, FallbackEffect
    <3> QED BY <2>1, <3>1, <3>2
  <2>3. wire' \subseteq [to : Servers, id : Nat, item : Payloads] /\ relays' \in Nat
    BY <2>2, RelayTypes, PayloadsOf
  <2> QED BY <2>1, <2>2, <2>3 DEF ChatTypes
<1>3. ASSUME NEW s \in Servers, NEW v \in {"on", "off"}, Mute(s, v) PROVE ChatTypes'
  <2>1. UNCHANGED <<fate, origin, doubtful, carried>> /\ (Relayed(s, MuteSet(v)) \/ NotRelayed)
    BY <1>3 DEF Mute, chat
  <2>2. wire' \subseteq [to : Servers, id : Nat, item : Payloads] /\ relays' \in Nat
    BY <2>1, RelayTypes, PayloadsOf
  <2> QED BY <2>1, <2>2 DEF ChatTypes
<1>4. ASSUME NEW x \in wire, Deliver(x) PROVE ChatTypes'
  <2>1. UNCHANGED <<fate, origin, doubtful, relays>> /\ wire' \subseteq wire
    BY <1>4 DEF Deliver, chat
  <2>2. carried' \subseteq Servers \X Messages
    <3>1. x.to \in Servers /\ x.item \in Payloads
      BY DEF ChatTypes
    <3>2. CASE carried' = carried
      BY <3>2 DEF ChatTypes
    <3>3. CASE carried' = carried \cup {<<x.to, x.item.body>>} /\ x.item.act # "GlobalMute"
      <4>1. PICK m \in Messages : x.item = Said(m)
        BY <3>1, <3>3, SaidApart DEF Payloads
      <4>2. x.item.body = m
        BY <4>1, SaidApart
      <4> QED BY <3>1, <3>3, <4>2 DEF ChatTypes
    <3> QED BY <1>4, <3>2, <3>3 DEF Deliver
  <2> QED BY <2>1, <2>2 DEF ChatTypes
<1> QED BY <1>1, <1>2, <1>3, <1>4, StepsRoute

\* A step that appends p to the log and may hand p to the proxy: the log and the
\* wire of every other message are what they were.
LEMMA OthersApart ==
    ASSUME FlowTypes, NEW p \in Payloads, Push(p), NEW q, q # p
    PROVE  \A i \in 1..Len(log') : log'[i] = q => i \in 1..Len(log) /\ log[i] = q
<1>1. /\ Len(log) \in Nat /\ Len(log') = Len(log) + 1
      /\ \A i \in 1..Len(log) : log'[i] = log[i]
      /\ log'[Len(log) + 1] = p
  BY PushKeepsTypes
<1>2. \A i \in 1..Len(log') : i \in 1..Len(log) \/ i = Len(log) + 1
  BY <1>1
<1> QED BY <1>1, <1>2

\* OneRoute for one message.
RouteOf(m) ==
    /\ \A i, j \in 1..Len(log) : log[i] = Said(m) /\ log[j] = Said(m) => i = j
    /\ \A i \in 1..Len(log) : log[i] = Said(m) => fate[m] = "redis" \/ m \in doubtful
    /\ \A x \in wire : x.item = Said(m) => fate[m] = "proxy"
    /\ \A s \in Servers : <<s, m>> \in carried => fate[m] = "proxy"
    /\ fate[m] = "unsaid" => m \notin doubtful

\* Saying m finds it nowhere, and leaves it on one route.
LEMMA ChatRoutes ==
    ASSUME FlowTypes, ChatTypes, OneRoute, NEW s \in Servers, NEW m \in Messages, Chat(s, m)
    PROVE  OneRoute'
<1>1. /\ fate[m] = "unsaid" /\ carried' = carried
      /\ \/ /\ Push(Said(m)) /\ fate' = [fate EXCEPT ![m] = "redis"]
            /\ NotRelayed /\ doubtful' = doubtful
         \/ /\ log' = log /\ Fallback(s, m) /\ doubtful' = doubtful
         \/ /\ Push(Said(m)) /\ Fallback(s, m) /\ doubtful' = doubtful \cup {m}
  BY ChatEffect
<1>2. /\ \A i \in 1..Len(log) : log[i] # Said(m)
      /\ \A x \in wire : x.item # Said(m)
      /\ \A t \in Servers : <<t, m>> \notin carried
      /\ m \notin doubtful
  BY <1>1 DEF OneRoute
<1>3. /\ fate'[m] # "unsaid" /\ \A n \in Messages \ {m} : fate'[n] = fate[n]
      /\ \A x \in wire' : x \in wire \/ (x.item = Said(m) /\ fate'[m] = "proxy")
  <2>1. CASE fate' = [fate EXCEPT ![m] = "redis"] /\ NotRelayed
    <3>1. wire' = wire
      BY <2>1 DEF NotRelayed
    <3> QED BY <2>1, <3>1 DEF ChatTypes
  <2>2. CASE Fallback(s, m)
    BY <2>2, FallbackEffect
  <2> QED BY <1>1, <2>1, <2>2
<1>4. \/ Push(Said(m)) /\ (fate'[m] = "redis" \/ m \in doubtful')
      \/ log' = log
  <2>1. CASE fate' = [fate EXCEPT ![m] = "redis"]
    <3>1. fate'[m] = "redis"
      BY <2>1 DEF ChatTypes
    <3> QED BY <1>1, <3>1
  <2> QED BY <1>1, <2>1
<1>5. \A n \in Messages \ {m} : n \in doubtful' <=> n \in doubtful
  BY <1>1
<1>6. RouteOf(m)'
  <2>1. \A i, j \in 1..Len(log') : log'[i] = Said(m) /\ log'[j] = Said(m) => i = j
    <3>1. CASE log' = log
      BY <1>2, <3>1
    <3>2. CASE Push(Said(m))
      <4>1. /\ Len(log) \in Nat /\ Len(log') = Len(log) + 1
            /\ \A i \in 1..Len(log) : log'[i] = log[i]
        BY <3>2, PushKeepsTypes, PayloadsOf
      <4>2. \A i \in 1..Len(log') : i \in 1..Len(log) \/ i = Len(log) + 1
        BY <4>1
      <4> QED BY <1>2, <4>1, <4>2
    <3> QED BY <1>4, <3>1, <3>2
  <2>2. \A i \in 1..Len(log') : log'[i] = Said(m) => fate'[m] = "redis" \/ m \in doubtful'
    BY <1>2, <1>4
  <2>3. \A x \in wire' : x.item = Said(m) => fate'[m] = "proxy"
    BY <1>2, <1>3
  <2> QED BY <1>1, <1>2, <1>3, <2>1, <2>2, <2>3 DEF RouteOf
<1>7. ASSUME NEW n \in Messages \ {m} PROVE RouteOf(n)'
  <2>1. Said(n) # Said(m)
    BY SaidApart
  <2>2. \A i \in 1..Len(log') : log'[i] = Said(n) => i \in 1..Len(log) /\ log[i] = Said(n)
    <3>1. CASE log' = log
      BY <3>1
    <3>2. CASE Push(Said(m))
      BY <2>1, <3>2, OthersApart, PayloadsOf
    <3> QED BY <1>4, <3>1, <3>2
  <2>3. \A x \in wire' : x.item = Said(n) => x \in wire
    BY <1>3, <2>1
  <2>4. RouteOf(n)
    BY DEF OneRoute, RouteOf
  <2>5. fate'[n] = fate[n] /\ (n \in doubtful' <=> n \in doubtful)
    BY <1>3, <1>5
  <2> QED BY <1>1, <2>2, <2>3, <2>4, <2>5 DEF RouteOf
<1> QED BY <1>6, <1>7 DEF OneRoute, RouteOf

\* Every step keeps every message on one route.
LEMMA RouteKept ==
    ASSUME FlowTypes, ChatTypes, OneRoute, [Next]_vars PROVE OneRoute'
<1>1. CASE Beside
  BY <1>1 DEF Beside, OneRoute
<1>2. ASSUME NEW s \in Servers, NEW m \in Messages, Chat(s, m) PROVE OneRoute'
  BY <1>2, ChatRoutes
<1>3. ASSUME NEW s \in Servers, NEW v \in {"on", "off"}, Mute(s, v) PROVE OneRoute'
  <2>1. /\ UNCHANGED <<fate, origin, doubtful, carried>> /\ (Relayed(s, MuteSet(v)) \/ NotRelayed)
        /\ log' = log \/ Push(MuteSet(v))
    BY <1>3 DEF Mute, chat, PublishAccepted, PublishRefused, PublishDoubtful, Push
  <2>2. ASSUME NEW n \in Messages PROVE RouteOf(n)'
    <3>1. Said(n) # MuteSet(v)
      BY SaidApart
    <3>2. \A i \in 1..Len(log') : log'[i] = Said(n) => i \in 1..Len(log) /\ log[i] = Said(n)
      <4>1. CASE log' = log
        BY <4>1
      <4>2. CASE Push(MuteSet(v))
        BY <3>1, <4>2, OthersApart, PayloadsOf
      <4> QED BY <2>1, <4>1, <4>2
    <3>3. \A x \in wire' : x \in wire \/ x.item = MuteSet(v)
      BY <2>1 DEF Relayed, NotRelayed
    <3>4. RouteOf(n)
      BY DEF OneRoute, RouteOf
    <3> QED BY <2>1, <3>1, <3>2, <3>3, <3>4 DEF RouteOf
  <2> QED BY <2>2 DEF OneRoute, RouteOf
<1>4. ASSUME NEW x \in wire, Deliver(x) PROVE OneRoute'
  <2>1. UNCHANGED <<log, fate, origin, doubtful>> /\ wire' \subseteq wire
    BY <1>4 DEF Deliver, chat
  <2>2. ASSUME NEW n \in Messages, NEW t \in Servers, <<t, n>> \in carried', <<t, n>> \notin carried
        PROVE  fate[n] = "proxy"
    <3>1. x.item.act # "GlobalMute" /\ x.item.body = n
      BY <1>4, <2>2 DEF Deliver
    <3>2. x.item \in Payloads
      BY DEF ChatTypes
    <3>3. PICK m \in Messages : x.item = Said(m)
      BY <3>1, <3>2, SaidApart DEF Payloads
    <3>4. m = n
      BY <3>1, <3>3, SaidApart
    <3> QED BY <3>3, <3>4 DEF OneRoute
  <2>3. ASSUME NEW n \in Messages PROVE RouteOf(n)'
    <3>1. RouteOf(n)
      BY DEF OneRoute, RouteOf
    <3> QED BY <2>1, <2>2, <3>1 DEF RouteOf
  <2> QED BY <2>3 DEF OneRoute, RouteOf
<1> QED BY <1>1, <1>2, <1>3, <1>4, StepsRoute

Routed == Flow /\ ChatTypes /\ OneRoute

\* Initially nothing has been said.
LEMMA RoutedInit == Init => Routed
<1> SUFFICES ASSUME Init PROVE Routed
  OBVIOUS
<1>1. ChatTypes
  BY DEF Init, ChatTypes
<1>2. Len(log) = 0
  BY EmptySeq DEF Init
<1>3. OneRoute
  BY <1>2 DEF Init, OneRoute
<1> QED BY <1>1, <1>3, FlowInit DEF Routed

\* Places handled in ascending order that hold the same message are one place.
LEMMA RoutedShowsOnce == Routed => ShownOnce /\ RefusedIsUnseen
<1> SUFFICES ASSUME Routed PROVE ShownOnce /\ RefusedIsUnseen
  OBVIOUS
<1>1. \A s \in Servers : /\ Len(heard[s]) \in Nat
                         /\ \A i \in 1..Len(heard[s]) : heard[s][i] \in 1..Len(log)
  BY LenProperties, ElementOfSeq DEF Routed, Flow, FlowTypes
<1>2. ASSUME NEW s \in Servers, NEW m \in Messages, HeardOf(s, m)
      PROVE  fate[m] = "redis" \/ m \in doubtful
  BY <1>1, <1>2 DEF HeardOf, Routed, OneRoute
<1>3. ASSUME NEW s \in Servers, NEW m \in Messages,
             NEW i \in 1..Len(heard[s]), NEW j \in 1..Len(heard[s]),
             log[heard[s][i]] = Said(m), log[heard[s][j]] = Said(m)
      PROVE  i = j
  <2>1. heard[s][i] = heard[s][j]
    BY <1>1, <1>3 DEF Routed, OneRoute
  <2>2. Ascending(heard[s])
    BY DEF Routed, Flow, InOrder
  <2>3. heard[s][i] \in Nat /\ i \in Nat /\ j \in Nat
    <3>1. Len(log) \in Nat
      BY LenProperties DEF Routed, Flow, FlowTypes
    <3> QED BY <1>1, <3>1
  <2>4. ~(i < j) /\ ~(j < i)
    BY <2>1, <2>2, <2>3 DEF Ascending
  <2> QED BY <2>3, <2>4
<1>4. ShownOnce
  BY <1>2, <1>3 DEF ShownOnce, Routed, OneRoute, SaidHere
<1>5. RefusedIsUnseen
  BY <1>2 DEF RefusedIsUnseen, Routed, OneRoute
<1> QED BY <1>4, <1>5

\* A message is shown to the players of a server once, and a refused one to nobody,
\* unless the reply to its PUBLISH was lost.
THEOREM MessagesShownOnce == Spec => []ShownOnce /\ []RefusedIsUnseen
<1>1. Init => Routed
  BY RoutedInit
<1>2. Routed /\ [Next]_vars => Routed'
  BY StepsFlow, FlowKept, ChatTypesKept, RouteKept DEF Routed, Flow
<1>3. Routed => ShownOnce /\ RefusedIsUnseen
  BY RoutedShowsOnce
<1> QED BY <1>1, <1>2, <1>3, PTL DEF Spec

-----------------------------------------------------------------------------
(* The global mute *)

MuteTypes == muted \in [Servers -> {"on", "off"}] /\ verdict \in {"on", "off"} /\ missed \subseteq Servers

\* A step that gives no command, hands over no mute and loses nothing buffered:
\* whoever may have missed the verdict stays so, and what is buffered is kept.
Keeps ==
    /\ UNCHANGED <<log, inbox, muted, verdict>>
    /\ missed' = missed

\* A step after which s may have missed the verdict, the others' buffers kept.
Loses(s) ==
    /\ log' = log /\ verdict' = verdict /\ missed' = missed \cup {s}
    /\ \A t \in Servers \ {s} : inbox'[t] = inbox[t] /\ muted'[t] = muted[t]
    /\ muted' \in [Servers -> {"on", "off"}]

\* What a step does to the global mute and to what may change it.
LEMMA StepsMute ==
    ASSUME FlowTypes, MuteTypes, [Next]_vars
    PROVE  \/ Keeps
           \/ \E s \in Servers : Loses(s)
           \/ \E s \in Servers, m \in Messages : Chat(s, m)
           \/ \E s \in Servers, v \in {"on", "off"} : Mute(s, v)
           \/ \E s \in Servers : Pump(s)
           \/ \E x \in wire : Deliver(x)
<1> DEFINE Goal ==
        \/ Keeps
        \/ \E s \in Servers : Loses(s)
        \/ \E s \in Servers, m \in Messages : Chat(s, m)
        \/ \E s \in Servers, v \in {"on", "off"} : Mute(s, v)
        \/ \E s \in Servers : Pump(s)
        \/ \E x \in wire : Deliver(x)
<1> SUFFICES Goal
  OBVIOUS
<1>1. ASSUME NEW s \in Servers, NEW m \in Messages, Chat(s, m) PROVE Goal
  BY <1>1
<1>2. ASSUME NEW s \in Servers, NEW v \in {"on", "off"}, Mute(s, v) PROVE Goal
  BY <1>2
<1>3. ASSUME NEW s \in Servers, Subscribe(s) PROVE Goal
  BY <1>3 DEF Subscribe, Keeps, connections, counters, muting, proxied, chat
<1>4. ASSUME NEW s \in Servers, SubscribeFails(s) PROVE Goal
  BY <1>4 DEF SubscribeFails, Keeps, connections, counters, muting, proxied, chat
<1>5. ASSUME NEW s \in Servers, Pump(s) PROVE Goal
  BY <1>5
<1>6. ASSUME NEW s \in Servers, DelayElapses(s) PROVE Goal
  BY <1>6 DEF DelayElapses, Keeps, connections, counters, muting, proxied, chat
<1>7. ASSUME NEW s \in Servers, PublishNames(s) PROVE Goal
  BY <1>7 DEF PublishNames, Keeps, connections, counters, muting, proxied, chat, PublishRefused
<1>8. ASSUME NEW x \in wire, Deliver(x) PROVE Goal
  BY <1>8
<1>9. ASSUME NEW s \in Servers, Reload(s) PROVE Goal
  BY <1>9 DEF Reload, Keeps, connections, counters, muting, proxied, chat
<1>10. ASSUME NEW s \in Servers, Reconnect(s) PROVE Goal
  <2>1. Loses(s)
    BY <1>10 DEF Reconnect, Fresh, Set, Loses, FlowTypes, MuteTypes
  <2> QED BY <2>1
<1>11. ASSUME NEW s \in Servers, Restart(s) PROVE Goal
  <2>1. Loses(s)
    BY <1>11 DEF Restart, Fresh, Set, Loses, FlowTypes, MuteTypes
  <2> QED BY <2>1
<1>12. ASSUME NEW s \in Servers, CutSubscriber(s) PROVE Goal
  <2>1. Loses(s)
    BY <1>12 DEF CutSubscriber, Set, Loses, FlowTypes, MuteTypes
  <2> QED BY <2>1
<1>13. ASSUME NEW s \in Servers, CutPublisher(s) PROVE Goal
  BY <1>13 DEF CutPublisher, Keeps, connections, counters, muting, proxied, chat
<1>14. CASE RedisStops
  BY <1>14 DEF RedisStops, Keeps, connections, counters, muting, proxied, chat
<1>15. CASE RedisStarts
  BY <1>15 DEF RedisStarts, Keeps, connections, counters, muting, proxied, chat
<1>16. CASE UNCHANGED vars
  BY <1>16 DEF vars, Keeps, connections, counters, muting, proxied, chat
<1> QED
  BY <1>1, <1>2, <1>3, <1>4, <1>5, <1>6, <1>7, <1>8, <1>9, <1>10, <1>11, <1>12, <1>13, <1>14, <1>15, <1>16 DEF Next, Tick

\* Settles, of a log of one's choice.
SettlesIn(L, q, v, w) ==
    \/ w = v /\ \A i \in 1..Len(q) : L[q[i]].act # "GlobalMute"
    \/ \E i \in 1..Len(q) :
          /\ L[q[i]] = MuteSet(w)
          /\ \A j \in (i + 1)..Len(q) : L[q[j]].act # "GlobalMute"

\* A buffer settles as before when the log grows.
LEMMA SettlesLater ==
    ASSUME NEW L, NEW M, NEW q, NEW v, NEW w, Len(q) \in Nat,
           \A i \in 1..Len(q) : M[q[i]] = L[q[i]], SettlesIn(L, q, v, w)
    PROVE  SettlesIn(M, q, v, w)
<1>1. CASE w = v /\ \A i \in 1..Len(q) : L[q[i]].act # "GlobalMute"
  BY <1>1 DEF SettlesIn
<1>2. CASE \E i \in 1..Len(q) : /\ L[q[i]] = MuteSet(w)
                                /\ \A j \in (i + 1)..Len(q) : L[q[j]].act # "GlobalMute"
  <2>1. PICK i \in 1..Len(q) : /\ L[q[i]] = MuteSet(w)
                               /\ \A j \in (i + 1)..Len(q) : L[q[j]].act # "GlobalMute"
    BY <1>2
  <2>2. \A j \in (i + 1)..Len(q) : j \in 1..Len(q)
    OBVIOUS
  <2>3. M[q[i]] = MuteSet(w) /\ \A j \in (i + 1)..Len(q) : M[q[j]].act # "GlobalMute"
    BY <2>1, <2>2
  <2> QED BY <2>3 DEF SettlesIn
<1> QED BY <1>1, <1>2 DEF SettlesIn

\* A payload that is no global mute changes nothing in how a buffer settles.
LEMMA SettlesPast ==
    ASSUME NEW M, NEW q, NEW r, NEW v, NEW w, Len(q) \in Nat, Len(r) = Len(q) + 1,
           \A i \in 1..Len(q) : r[i] = q[i],
           M[r[Len(q) + 1]].act # "GlobalMute", SettlesIn(M, q, v, w)
    PROVE  SettlesIn(M, r, v, w)
<1>0. \A i \in 1..Len(r) : i \in 1..Len(q) \/ i = Len(q) + 1
  OBVIOUS
<1>1. CASE w = v /\ \A i \in 1..Len(q) : M[q[i]].act # "GlobalMute"
  <2>1. \A i \in 1..Len(r) : M[r[i]].act # "GlobalMute"
    BY <1>0, <1>1
  <2> QED BY <1>1, <2>1 DEF SettlesIn
<1>2. CASE \E i \in 1..Len(q) : /\ M[q[i]] = MuteSet(w)
                                /\ \A j \in (i + 1)..Len(q) : M[q[j]].act # "GlobalMute"
  <2>1. PICK i \in 1..Len(q) : /\ M[q[i]] = MuteSet(w)
                               /\ \A j \in (i + 1)..Len(q) : M[q[j]].act # "GlobalMute"
    BY <1>2
  <2>2. i \in 1..Len(r) /\ \A j \in (i + 1)..Len(r) : j \in (i + 1)..Len(q) \/ j = Len(q) + 1
    OBVIOUS
  <2>3. \A j \in (i + 1)..Len(q) : j \in 1..Len(q)
    OBVIOUS
  <2>4. \A j \in (i + 1)..Len(r) : M[r[j]].act # "GlobalMute"
    BY <2>1, <2>2, <2>3
  <2>5. M[r[i]] = MuteSet(w)
    BY <2>1
  <2> QED BY <2>2, <2>4, <2>5 DEF SettlesIn
<1> QED BY <1>1, <1>2 DEF SettlesIn

\* A buffer that ends in a global mute settles to it.
LEMMA SettlesLast ==
    ASSUME NEW M, NEW r, NEW v, NEW w, NEW n \in Nat, Len(r) = n + 1, M[r[n + 1]] = MuteSet(w)
    PROVE  SettlesIn(M, r, v, w)
<1>1. n + 1 \in 1..Len(r) /\ (n + 1 + 1)..Len(r) = {}
  OBVIOUS
<1> QED BY <1>1 DEF SettlesIn

\* A buffer settles to one value.
LEMMA SettlesOnce ==
    ASSUME NEW L, NEW q, NEW v, NEW w \in {"on", "off"}, NEW u \in {"on", "off"}, Len(q) \in Nat,
           SettlesIn(L, q, v, w), SettlesIn(L, q, v, u)
    PROVE  w = u
<1>1. \A x \in {"on", "off"} : MuteSet(x).act = "GlobalMute" /\ MuteSet(x).body = x
  BY SaidApart
<1>2. CASE w = v /\ \A i \in 1..Len(q) : L[q[i]].act # "GlobalMute"
  BY <1>1, <1>2 DEF SettlesIn
<1>3. CASE \E i \in 1..Len(q) : /\ L[q[i]] = MuteSet(w)
                                /\ \A j \in (i + 1)..Len(q) : L[q[j]].act # "GlobalMute"
  <2>1. PICK i \in 1..Len(q) : /\ L[q[i]] = MuteSet(w)
                               /\ \A j \in (i + 1)..Len(q) : L[q[j]].act # "GlobalMute"
    BY <1>3
  <2>2. L[q[i]].act = "GlobalMute"
    BY <1>1, <2>1
  <2>3. PICK k \in 1..Len(q) : /\ L[q[k]] = MuteSet(u)
                               /\ \A j \in (k + 1)..Len(q) : L[q[j]].act # "GlobalMute"
    BY <2>2 DEF SettlesIn
  <2>4. L[q[k]].act = "GlobalMute"
    BY <1>1, <2>3
  <2>5. ~(i < k) /\ ~(k < i)
    <3>1. i < k => k \in (i + 1)..Len(q)
      OBVIOUS
    <3>2. k < i => i \in (k + 1)..Len(q)
      OBVIOUS
    <3> QED BY <2>1, <2>2, <2>3, <2>4, <3>1, <3>2
  <2>6. i = k
    BY <2>5
  <2> QED BY <1>1, <2>1, <2>3, <2>6
<1> QED BY <1>2, <1>3 DEF SettlesIn

\* A publication reaches a buffer or not, and the buffer settles as before, or to
\* the mute that was published.
LEMMA PushSettles ==
    ASSUME FlowTypes, NEW p \in Payloads, Push(p), NEW s \in Servers, NEW v, NEW w
    PROVE  /\ SettlesIn(log, inbox[s], v, w) /\ p.act # "GlobalMute" => SettlesIn(log', inbox'[s], v, w)
           /\ p = MuteSet(w) /\ Live(s) => SettlesIn(log', inbox'[s], v, w)
<1>1. /\ Len(log) \in Nat
      /\ \A i \in 1..Len(log) : log'[i] = log[i]
      /\ log'[Len(log) + 1] = p
      /\ \/ inbox'[s] = inbox[s]
         \/ /\ Len(inbox'[s]) = Len(inbox[s]) + 1
            /\ \A i \in 1..Len(inbox[s]) : inbox'[s][i] = inbox[s][i]
            /\ inbox'[s][Len(inbox[s]) + 1] = Len(log) + 1
  BY PushKeepsTypes
<1>2. Len(inbox[s]) \in Nat /\ \A i \in 1..Len(inbox[s]) : inbox[s][i] \in 1..Len(log)
  BY LenProperties, ElementOfSeq DEF FlowTypes
<1>3. \A i \in 1..Len(inbox[s]) : log'[inbox[s][i]] = log[inbox[s][i]]
  BY <1>1, <1>2
<1>4. ASSUME SettlesIn(log, inbox[s], v, w), p.act # "GlobalMute"
      PROVE  SettlesIn(log', inbox'[s], v, w)
  <2>1. SettlesIn(log', inbox[s], v, w)
    BY <1>2, <1>3, <1>4, SettlesLater
  <2>2. CASE inbox'[s] = inbox[s]
    BY <2>1, <2>2
  <2>3. CASE /\ Len(inbox'[s]) = Len(inbox[s]) + 1
             /\ \A i \in 1..Len(inbox[s]) : inbox'[s][i] = inbox[s][i]
             /\ inbox'[s][Len(inbox[s]) + 1] = Len(log) + 1
    <3>1. log'[inbox'[s][Len(inbox[s]) + 1]].act # "GlobalMute"
      BY <1>1, <1>4, <2>3
    <3> QED BY <1>2, <2>1, <2>3, <3>1, SettlesPast
  <2> QED BY <1>1, <2>2, <2>3
<1>5. ASSUME p = MuteSet(w), Live(s)
      PROVE  SettlesIn(log', inbox'[s], v, w)
  <2>1. inbox'[s] = Append(inbox[s], Len(log) + 1)
    BY <1>5 DEF Push, Pushed
  <2>2. inbox[s] \in Seq(Nat) /\ Len(log) + 1 \in Nat
    <3>1. 1..Len(log) \subseteq Nat
      BY <1>1
    <3> QED BY <1>1, <3>1, SeqMonotonic DEF FlowTypes
  <2>3. /\ Len(inbox'[s]) = Len(inbox[s]) + 1
        /\ inbox'[s][Len(inbox[s]) + 1] = Len(log) + 1
    BY <2>1, <2>2, AppendedTo
  <2>4. log'[inbox'[s][Len(inbox[s]) + 1]] = MuteSet(w)
    BY <1>1, <1>5, <2>3
  <2> QED BY <1>2, <2>3, <2>4, SettlesLast
<1> QED BY <1>4, <1>5

MuteInv == MuteTypes /\ \A s \in Servers \ missed : SettlesIn(log, inbox[s], muted[s], verdict)

\* The commands and the deliveries set a value of the right type.
LEMMA MuteTypesKept ==
    ASSUME FlowTypes, ChatTypes, MuteTypes, [Next]_vars PROVE MuteTypes'
<1>1. CASE Keeps
  BY <1>1 DEF Keeps, MuteTypes
<1>2. ASSUME NEW s \in Servers, Loses(s) PROVE MuteTypes'
  BY <1>2 DEF Loses, MuteTypes
<1>3. ASSUME NEW s \in Servers, NEW m \in Messages, Chat(s, m) PROVE MuteTypes'
  BY <1>3 DEF Chat, MuteTypes, muting
<1>4. ASSUME NEW s \in Servers, NEW v \in {"on", "off"}, Mute(s, v) PROVE MuteTypes'
  <2>1. muted' = Set(muted, s, v) /\ verdict' = v
        /\ (missed' = {t \in Servers : ~Live(t)} \/ missed' = Servers)
    BY <1>4 DEF Mute
  <2> QED BY <2>1 DEF MuteTypes, Set
<1>5. ASSUME NEW s \in Servers, Pump(s) PROVE MuteTypes'
  <2>1. /\ \E w \in {"on", "off"} : muted' = Set(muted, s, w)
        /\ verdict' = verdict /\ missed' = missed
    BY <1>5 DEF Pump
  <2> QED BY <2>1 DEF MuteTypes, Set
<1>6. ASSUME NEW x \in wire, Deliver(x) PROVE MuteTypes'
  <2>1. CASE x.item.act = "GlobalMute"
    <3>1. x.to \in Servers /\ x.item \in Payloads
      BY DEF ChatTypes
    <3>2. x.item.body \in {"on", "off"}
      BY <2>1, <3>1, SaidApart DEF Payloads
    <3>3. muted' = Set(muted, x.to, x.item.body) /\ missed' = missed \cup {x.to} /\ verdict' = verdict
      BY <1>6, <2>1 DEF Deliver
    <3> QED BY <3>1, <3>2, <3>3 DEF MuteTypes, Set
  <2>2. CASE x.item.act # "GlobalMute"
    BY <1>6, <2>2 DEF Deliver, MuteTypes
  <2> QED BY <2>1, <2>2
<1> QED BY <1>1, <1>2, <1>3, <1>4, <1>5, <1>6, StepsMute

\* Every step leaves whoever did not miss the verdict on the way to it.
LEMMA MuteKept ==
    ASSUME FlowTypes, ChatTypes, MuteInv, [Next]_vars PROVE MuteInv'
<1>0. MuteTypes /\ MuteTypes'
  BY MuteTypesKept DEF MuteInv
<1> DEFINE Goal == \A t \in Servers \ missed' : SettlesIn(log', inbox'[t], muted'[t], verdict')
<1>1. ASSUME Keeps PROVE Goal
  <2> SUFFICES ASSUME NEW t \in Servers \ missed
               PROVE  SettlesIn(log, inbox[t], muted[t], verdict)
    BY <1>1 DEF Keeps
  <2> QED BY DEF MuteInv
<1>2. ASSUME NEW s \in Servers, Loses(s) PROVE Goal
  <2> SUFFICES ASSUME NEW t \in Servers \ missed'
               PROVE  SettlesIn(log', inbox'[t], muted'[t], verdict')
    OBVIOUS
  <2>1. /\ t \in Servers \ missed /\ log' = log /\ verdict' = verdict
        /\ inbox'[t] = inbox[t] /\ muted'[t] = muted[t]
    BY <1>2 DEF Loses
  <2>2. SettlesIn(log, inbox[t], muted[t], verdict)
    BY <2>1 DEF MuteInv
  <2> QED BY <2>1, <2>2
<1>3. ASSUME NEW s \in Servers, NEW m \in Messages, Chat(s, m) PROVE Goal
  <2>1. (log' = log /\ inbox' = inbox) \/ Push(Said(m))
    BY <1>3 DEF Chat, PublishAccepted, PublishRefused, PublishDoubtful, Push
  <2>2. muted' = muted /\ verdict' = verdict /\ missed' = missed
    BY <1>3 DEF Chat, muting
  <2> SUFFICES ASSUME NEW t \in Servers \ missed
               PROVE  SettlesIn(log', inbox'[t], muted[t], verdict)
    BY <2>2
  <2>3. SettlesIn(log, inbox[t], muted[t], verdict)
    BY DEF MuteInv
  <2>4. CASE log' = log /\ inbox' = inbox
    BY <2>3, <2>4
  <2>5. CASE Push(Said(m))
    BY <2>3, <2>5, PushSettles, PayloadsOf, SaidApart
  <2> QED BY <2>1, <2>4, <2>5
<1>4. ASSUME NEW s \in Servers, NEW v \in {"on", "off"}, Mute(s, v) PROVE Goal
  <2>1. verdict' = v
    BY <1>4 DEF Mute
  <2>2. \/ missed' = Servers
        \/ Push(MuteSet(v)) /\ missed' = {t \in Servers : ~Live(t)}
    BY <1>4 DEF Mute, PublishAccepted, PublishDoubtful, Push
  <2> SUFFICES ASSUME NEW t \in Servers \ missed'
               PROVE  SettlesIn(log', inbox'[t], muted'[t], v)
    BY <2>1
  <2>3. Push(MuteSet(v)) /\ Live(t)
    BY <2>2
  <2> QED BY <2>3, PushSettles, PayloadsOf
<1>5. ASSUME NEW s \in Servers, Pump(s) PROVE Goal
  <2>1. PICK w \in {"on", "off"} : Settles(inbox[s], muted[s], w) /\ muted' = Set(muted, s, w)
    BY <1>5 DEF Pump
  <2>2. inbox' = Set(inbox, s, <<>>) /\ log' = log /\ verdict' = verdict /\ missed' = missed
    BY <1>5 DEF Pump
  <2> SUFFICES ASSUME NEW t \in Servers \ missed
               PROVE  SettlesIn(log, inbox'[t], muted'[t], verdict)
    BY <2>2
  <2>3. SettlesIn(log, inbox[t], muted[t], verdict)
    BY DEF MuteInv
  <2>4. CASE t # s
    <3>1. inbox'[t] = inbox[t] /\ muted'[t] = muted[t]
      BY <2>1, <2>2, <2>4 DEF Set
    <3> QED BY <2>3, <3>1
  <2>5. CASE t = s
    <3>1. inbox'[t] = <<>> /\ muted'[t] = w
      BY <2>1, <2>2, <2>5 DEF Set
    <3>2. SettlesIn(log, inbox[t], muted[t], w)
      BY <2>1, <2>5 DEF Settles, SettlesIn
    <3>3. Len(inbox[t]) \in Nat
      BY LenProperties DEF FlowTypes
    <3>4. w = verdict
      BY <2>3, <3>2, <3>3, <1>0, SettlesOnce DEF MuteTypes
    <3>5. 1..Len(inbox'[t]) = {}
      <4>1. Len(<<>>) = 0
        BY EmptySeq
      <4> QED BY <3>1, <4>1
    <3> QED BY <3>1, <3>4, <3>5 DEF SettlesIn
  <2> QED BY <2>4, <2>5
<1>6. ASSUME NEW x \in wire, Deliver(x) PROVE Goal
  <2>1. log' = log /\ inbox' = inbox /\ verdict' = verdict
        /\ \/ muted' = Set(muted, x.to, x.item.body) /\ missed' = missed \cup {x.to}
           \/ muted' = muted /\ missed' = missed
    BY <1>6 DEF Deliver, connections
  <2> SUFFICES ASSUME NEW t \in Servers \ missed'
               PROVE  SettlesIn(log, inbox[t], muted'[t], verdict)
    BY <2>1
  <2>2. t \in Servers \ missed /\ muted'[t] = muted[t]
    BY <2>1 DEF Set
  <2>3. SettlesIn(log, inbox[t], muted[t], verdict)
    BY <2>2 DEF MuteInv
  <2> QED BY <2>2, <2>3
<1>7. Goal
  BY <1>1, <1>2, <1>3, <1>4, <1>5, <1>6, StepsMute DEF MuteInv
<1> QED BY <1>0, <1>7 DEF MuteInv, SettlesIn

MuteIInv == Flow /\ ChatTypes /\ MuteInv

\* Servers that toggle the global mute at the same time end up agreeing, each once
\* its buffer is empty, unless it missed the last change.
THEOREM ServersAgree == Spec => []MuteAgreement /\ []MuteSettles
<1>1. Init => MuteIInv
  <2> SUFFICES ASSUME Init PROVE MuteIInv
    OBVIOUS
  <2>1. Flow /\ ChatTypes
    BY RoutedInit DEF Routed
  <2>2. MuteTypes
    BY DEF Init, MuteTypes
  <2>3. \A s \in Servers : 1..Len(inbox[s]) = {}
    <3>1. Len(<<>>) = 0
      BY EmptySeq
    <3>2. \A s \in Servers : inbox[s] = <<>>
      BY DEF Init
    <3>3. \A s \in Servers : Len(inbox[s]) = 0
      BY <3>1, <3>2
    <3>4. 1..0 = {}
      OBVIOUS
    <3> QED BY <3>3, <3>4, Zenon
  <2>4. \A s \in Servers : SettlesIn(log, inbox[s], muted[s], verdict)
    BY <2>3 DEF Init, SettlesIn
  <2> QED BY <2>1, <2>2, <2>4 DEF MuteIInv, MuteInv
<1>2. MuteIInv /\ [Next]_vars => MuteIInv'
  BY StepsFlow, FlowKept, ChatTypesKept, MuteKept DEF MuteIInv, Flow
<1>3. MuteIInv => MuteAgreement /\ MuteSettles
  <2> SUFFICES ASSUME MuteIInv, NEW s \in Servers \ missed
               PROVE  /\ Settles(inbox[s], muted[s], verdict)
                      /\ inbox[s] = <<>> => muted[s] = verdict
    BY DEF MuteAgreement, MuteSettles
  <2>1. SettlesIn(log, inbox[s], muted[s], verdict)
    BY DEF MuteIInv, MuteInv
  <2>2. inbox[s] = <<>> => 1..Len(inbox[s]) = {}
    <3>1. Len(<<>>) = 0
      BY EmptySeq
    <3> QED BY <3>1
  <2> QED BY <2>1, <2>2 DEF Settles, SettlesIn
<1> QED BY <1>1, <1>2, <1>3, PTL DEF Spec

-----------------------------------------------------------------------------
(* The types of the connections *)

BridgeTypes ==
    /\ enabled \in [Servers -> BOOLEAN] /\ ticking \subseteq Servers
    /\ bridge \in [Servers -> {"absent", "due", "waiting", "subscribed"}]
    /\ publisher \in [Servers -> {"none", "open", "broken"}]
    /\ cut \subseteq Servers

CountTypes == redisUp \in BOOLEAN /\ mutes \in Nat /\ faults \in Nat /\ orders \in Nat

SinceTypes == since \in [Servers -> 0..Len(log)]

\* Only a subscribed bridge has a buffer or a connection to lose, and only a bridge
\* a publisher, which is open only while Redis is up.
Coupled ==
    \A s \in Servers :
        /\ bridge[s] # "subscribed" => inbox[s] = <<>> /\ s \notin cut
        /\ bridge[s] = "absent" => publisher[s] = "none"
        /\ publisher[s] = "open" => redisUp

\* Publishing sets one publisher, and opens it only where Redis is up.
LEMMA PublishersTyped ==
    ASSUME BridgeTypes, NEW s \in Servers, NEW p,
           PublishAccepted(s, p) \/ PublishRefused(s) \/ PublishDoubtful(s, p)
    PROVE  /\ publisher' \in [Servers -> {"none", "open", "broken"}]
           /\ \A t \in Servers \ {s} : publisher'[t] = publisher[t]
           /\ bridge[s] = "absent" /\ publisher[s] = "none" => publisher'[s] = "none"
           /\ publisher'[s] = "open" => publisher[s] = "open" \/ redisUp
  BY DEF BridgeTypes, PublishAccepted, PublishRefused, PublishDoubtful, Dialled, Set, Fault

\* A publication leaves the buffers of whoever is not subscribed alone.
LEMMA PushesReach ==
    ASSUME NEW s \in Servers, NEW p,
           PublishAccepted(s, p) \/ PublishRefused(s) \/ PublishDoubtful(s, p)
    PROVE  \A t \in Servers : bridge[t] # "subscribed" /\ inbox[t] = <<>> => inbox'[t] = <<>>
  BY DEF PublishAccepted, PublishRefused, PublishDoubtful, Pushed, Live

\* The counters stay natural numbers.
LEMMA CountTypesKept ==
    ASSUME CountTypes, [Next]_vars PROVE CountTypes'
<1>1. ASSUME NEW s \in Servers, NEW m \in Messages, Chat(s, m) PROVE CountTypes'
  BY <1>1 DEF Chat, CountTypes, PublishAccepted, PublishRefused, PublishDoubtful, Fault
<1>2. ASSUME NEW s \in Servers, NEW v \in {"on", "off"}, Mute(s, v) PROVE CountTypes'
  BY <1>2 DEF Mute, CountTypes, PublishAccepted, PublishRefused, PublishDoubtful, Fault
<1>3. ASSUME NEW s \in Servers, Subscribe(s) PROVE CountTypes'
  BY <1>3 DEF Subscribe, CountTypes, counters, Fault, Order
<1>4. ASSUME NEW s \in Servers, SubscribeFails(s) PROVE CountTypes'
  BY <1>4 DEF SubscribeFails, CountTypes, counters, Fault, Order
<1>5. ASSUME NEW s \in Servers, Pump(s) PROVE CountTypes'
  BY <1>5 DEF Pump, CountTypes, counters, Fault, Order
<1>6. ASSUME NEW s \in Servers, DelayElapses(s) PROVE CountTypes'
  BY <1>6 DEF DelayElapses, CountTypes, counters, Fault, Order
<1>7. ASSUME NEW s \in Servers, PublishNames(s) PROVE CountTypes'
  BY <1>7 DEF PublishNames, CountTypes, PublishAccepted, PublishRefused, PublishDoubtful, Fault
<1>8. ASSUME NEW x \in wire, Deliver(x) PROVE CountTypes'
  BY <1>8 DEF Deliver, CountTypes, counters, Fault, Order
<1>9. ASSUME NEW s \in Servers, Reload(s) PROVE CountTypes'
  BY <1>9 DEF Reload, CountTypes, counters, Fault, Order
<1>10. ASSUME NEW s \in Servers, Reconnect(s) PROVE CountTypes'
  BY <1>10 DEF Reconnect, CountTypes, counters, Fault, Order
<1>11. ASSUME NEW s \in Servers, Restart(s) PROVE CountTypes'
  BY <1>11 DEF Restart, CountTypes, counters, Fault, Order
<1>12. ASSUME NEW s \in Servers, CutSubscriber(s) PROVE CountTypes'
  BY <1>12 DEF CutSubscriber, CountTypes, counters, Fault, Order
<1>13. ASSUME NEW s \in Servers, CutPublisher(s) PROVE CountTypes'
  BY <1>13 DEF CutPublisher, CountTypes, counters, Fault, Order
<1>14. CASE RedisStops
  <2>1. redisUp' \in BOOLEAN
    BY <1>14, Zenon DEF RedisStops
  <2>2. mutes' \in Nat /\ faults' \in Nat /\ orders' \in Nat
    BY <1>14 DEF RedisStops, CountTypes, Fault
  <2> QED BY <2>1, <2>2 DEF CountTypes
<1>15. CASE RedisStarts
  BY <1>15 DEF RedisStarts, CountTypes, counters, Fault, Order
<1>16. CASE UNCHANGED vars
  BY <1>16 DEF vars, CountTypes, counters
<1> QED
  BY <1>1, <1>2, <1>3, <1>4, <1>5, <1>6, <1>7, <1>8, <1>9, <1>10, <1>11, <1>12, <1>13, <1>14, <1>15, <1>16 DEF Next, Tick

\* The bridges and their connections keep their types.
LEMMA BridgeTypesKept ==
    ASSUME BridgeTypes, [Next]_vars PROVE BridgeTypes'
<1>1. ASSUME NEW s \in Servers, NEW m \in Messages, Chat(s, m) PROVE BridgeTypes'
  <2>1. UNCHANGED <<enabled, ticking, bridge, cut>>
    BY <1>1 DEF Chat
  <2>2. PublishAccepted(s, Said(m)) \/ PublishRefused(s) \/ PublishDoubtful(s, Said(m))
    BY <1>1 DEF Chat
  <2> QED BY <2>1, <2>2, PublishersTyped DEF BridgeTypes
<1>2. ASSUME NEW s \in Servers, NEW v \in {"on", "off"}, Mute(s, v) PROVE BridgeTypes'
  <2>1. UNCHANGED <<enabled, ticking, bridge, cut>>
    BY <1>2 DEF Mute
  <2>2. PublishAccepted(s, MuteSet(v)) \/ PublishRefused(s) \/ PublishDoubtful(s, MuteSet(v))
    BY <1>2 DEF Mute
  <2> QED BY <2>1, <2>2, PublishersTyped DEF BridgeTypes
<1>3. ASSUME NEW s \in Servers, Subscribe(s) PROVE BridgeTypes'
  BY <1>3 DEF Subscribe, BridgeTypes, connections, Set
<1>4. ASSUME NEW s \in Servers, SubscribeFails(s) PROVE BridgeTypes'
  BY <1>4 DEF SubscribeFails, BridgeTypes, connections, Set
<1>5. ASSUME NEW s \in Servers, Pump(s) PROVE BridgeTypes'
  BY <1>5 DEF Pump, BridgeTypes, connections, Set
<1>6. ASSUME NEW s \in Servers, DelayElapses(s) PROVE BridgeTypes'
  BY <1>6 DEF DelayElapses, BridgeTypes, connections, Set
<1>7. ASSUME NEW s \in Servers, PublishNames(s) PROVE BridgeTypes'
  <2>1. UNCHANGED <<enabled, ticking, bridge, cut>>
    BY <1>7 DEF PublishNames
  <2>2. PublishRefused(s) \/ publisher' = Set(publisher, s, "open")
    BY <1>7 DEF PublishNames
  <2> QED BY <2>1, <2>2, PublishersTyped DEF BridgeTypes, Set
<1>8. ASSUME NEW x \in wire, Deliver(x) PROVE BridgeTypes'
  BY <1>8 DEF Deliver, BridgeTypes, connections, Set
<1>9. ASSUME NEW s \in Servers, Reload(s) PROVE BridgeTypes'
  BY <1>9 DEF Reload, BridgeTypes, connections, Set
<1>10. ASSUME NEW s \in Servers, Reconnect(s) PROVE BridgeTypes'
  BY <1>10 DEF Reconnect, BridgeTypes, connections, Set, Fresh
<1>11. ASSUME NEW s \in Servers, Restart(s) PROVE BridgeTypes'
  BY <1>11 DEF Restart, BridgeTypes, connections, Set, Fresh
<1>12. ASSUME NEW s \in Servers, CutSubscriber(s) PROVE BridgeTypes'
  BY <1>12 DEF CutSubscriber, BridgeTypes, connections, Set
<1>13. ASSUME NEW s \in Servers, CutPublisher(s) PROVE BridgeTypes'
  BY <1>13 DEF CutPublisher, BridgeTypes, connections, Set
<1>14. CASE RedisStops
  BY <1>14 DEF RedisStops, BridgeTypes, connections, Set
<1>15. CASE RedisStarts
  BY <1>15 DEF RedisStarts, BridgeTypes, connections, Set
<1>16. CASE UNCHANGED vars
  BY <1>16 DEF vars, BridgeTypes, connections
<1> QED
  BY <1>1, <1>2, <1>3, <1>4, <1>5, <1>6, <1>7, <1>8, <1>9, <1>10, <1>11, <1>12, <1>13, <1>14, <1>15, <1>16 DEF Next, Tick

\* The log only grows, so the length it had at a subscription stays within it.
LEMMA SinceTypesKept ==
    ASSUME FlowTypes, SinceTypes, [Next]_vars PROVE SinceTypes'
<1>1. Len(log) \in Nat /\ Len(log') \in Nat /\ Len(log) <= Len(log')
  <2>1. Len(log) \in Nat
    BY LenProperties DEF FlowTypes
  <2>2. log' = log \/ \E p \in Payloads : Push(p)
    BY StepsFlow DEF FlowStep, Quiet, Handle, Discard, Shorten
  <2>3. ASSUME NEW p \in Payloads, Push(p) PROVE Len(log') = Len(log) + 1
    BY <2>3, PushKeepsTypes
  <2> QED BY <2>1, <2>2, <2>3
<1>2. since' = since \/ \E s \in Servers : since' = Set(since, s, Len(log))
  <2> DEFINE Goal == since' = since \/ \E s \in Servers : since' = Set(since, s, Len(log))
  <2> SUFFICES Goal
    OBVIOUS
  <2>1. ASSUME NEW s \in Servers, NEW m \in Messages, Chat(s, m) PROVE Goal
    BY <2>1 DEF Chat, connections
  <2>2. ASSUME NEW s \in Servers, NEW v \in {"on", "off"}, Mute(s, v) PROVE Goal
    BY <2>2 DEF Mute, connections
  <2>3. ASSUME NEW s \in Servers, Subscribe(s) PROVE Goal
    BY <2>3 DEF Subscribe, connections
  <2>4. ASSUME NEW s \in Servers, SubscribeFails(s) PROVE Goal
    BY <2>4 DEF SubscribeFails, connections
  <2>5. ASSUME NEW s \in Servers, Pump(s) PROVE Goal
    BY <2>5 DEF Pump, connections
  <2>6. ASSUME NEW s \in Servers, DelayElapses(s) PROVE Goal
    BY <2>6 DEF DelayElapses, connections
  <2>7. ASSUME NEW s \in Servers, PublishNames(s) PROVE Goal
    BY <2>7 DEF PublishNames, connections
  <2>8. ASSUME NEW x \in wire, Deliver(x) PROVE Goal
    BY <2>8 DEF Deliver, connections
  <2>9. ASSUME NEW s \in Servers, Reload(s) PROVE Goal
    BY <2>9 DEF Reload, connections
  <2>10. ASSUME NEW s \in Servers, Reconnect(s) PROVE Goal
    BY <2>10 DEF Reconnect, connections, Fresh
  <2>11. ASSUME NEW s \in Servers, Restart(s) PROVE Goal
    BY <2>11 DEF Restart, connections, Fresh
  <2>12. ASSUME NEW s \in Servers, CutSubscriber(s) PROVE Goal
    BY <2>12 DEF CutSubscriber, connections
  <2>13. ASSUME NEW s \in Servers, CutPublisher(s) PROVE Goal
    BY <2>13 DEF CutPublisher, connections
  <2>14. CASE RedisStops
    BY <2>14 DEF RedisStops, connections
  <2>15. CASE RedisStarts
    BY <2>15 DEF RedisStarts, connections
  <2>16. CASE UNCHANGED vars
    BY <2>16 DEF vars, connections
  <2> QED
    BY <2>1, <2>2, <2>3, <2>4, <2>5, <2>6, <2>7, <2>8, <2>9, <2>10, <2>11, <2>12, <2>13, <2>14, <2>15, <2>16 DEF Next, Tick
<1> QED BY <1>1, <1>2 DEF SinceTypes, Set

\* The buffers, the connections and Redis stay coupled.
LEMMA CoupledKept ==
    ASSUME FlowTypes, BridgeTypes, CountTypes, Coupled, [Next]_vars PROVE Coupled'
<1>1. ASSUME NEW s \in Servers, NEW m \in Messages, Chat(s, m) PROVE Coupled'
  <2>1. bridge' = bridge /\ cut' = cut /\ redisUp' = redisUp
    BY <1>1 DEF Chat
  <2>2. PublishAccepted(s, Said(m)) \/ PublishRefused(s) \/ PublishDoubtful(s, Said(m))
    BY <1>1 DEF Chat
  <2> SUFFICES ASSUME NEW t \in Servers
               PROVE  /\ bridge[t] # "subscribed" => inbox'[t] = <<>> /\ t \notin cut
                      /\ bridge[t] = "absent" => publisher'[t] = "none"
                      /\ publisher'[t] = "open" => redisUp
    BY <2>1 DEF Coupled
  <2>3. bridge[t] # "subscribed" => inbox'[t] = <<>> /\ t \notin cut
    BY <2>2, PushesReach DEF Coupled
  <2>4. /\ bridge[t] = "absent" => publisher'[t] = "none"
        /\ publisher'[t] = "open" => redisUp
    BY <2>2, PublishersTyped DEF Coupled
  <2> QED BY <2>3, <2>4
<1>2. ASSUME NEW s \in Servers, NEW v \in {"on", "off"}, Mute(s, v) PROVE Coupled'
  <2>1. bridge' = bridge /\ cut' = cut /\ redisUp' = redisUp
    BY <1>2 DEF Mute
  <2>2. PublishAccepted(s, MuteSet(v)) \/ PublishRefused(s) \/ PublishDoubtful(s, MuteSet(v))
    BY <1>2 DEF Mute
  <2> SUFFICES ASSUME NEW t \in Servers
               PROVE  /\ bridge[t] # "subscribed" => inbox'[t] = <<>> /\ t \notin cut
                      /\ bridge[t] = "absent" => publisher'[t] = "none"
                      /\ publisher'[t] = "open" => redisUp
    BY <2>1 DEF Coupled
  <2>3. bridge[t] # "subscribed" => inbox'[t] = <<>> /\ t \notin cut
    BY <2>2, PushesReach DEF Coupled
  <2>4. /\ bridge[t] = "absent" => publisher'[t] = "none"
        /\ publisher'[t] = "open" => redisUp
    BY <2>2, PublishersTyped DEF Coupled
  <2> QED BY <2>3, <2>4
<1>3. ASSUME NEW s \in Servers, Subscribe(s) PROVE Coupled'
  BY <1>3 DEF Subscribe, Coupled, connections, Set, BridgeTypes
<1>4. ASSUME NEW s \in Servers, SubscribeFails(s) PROVE Coupled'
  BY <1>4 DEF SubscribeFails, Coupled, connections, Set, BridgeTypes
<1>5. ASSUME NEW s \in Servers, Pump(s) PROVE Coupled'
  BY <1>5 DEF Pump, Coupled, connections, Set, BridgeTypes
<1>6. ASSUME NEW s \in Servers, DelayElapses(s) PROVE Coupled'
  BY <1>6 DEF DelayElapses, Coupled, connections, Set, BridgeTypes
<1>7. ASSUME NEW s \in Servers, PublishNames(s) PROVE Coupled'
  <2>1. bridge' = bridge /\ cut' = cut /\ redisUp' = redisUp /\ inbox' = inbox
    BY <1>7 DEF PublishNames, PublishRefused
  <2>2. CASE PublishRefused(s)
    BY <2>1, <2>2, PublishersTyped DEF Coupled
  <2>3. CASE Dialled(s) /\ publisher' = Set(publisher, s, "open")
    BY <2>1, <2>3 DEF Coupled, Dialled, Set
  <2> QED BY <1>7, <2>2, <2>3 DEF PublishNames
<1>8. ASSUME NEW x \in wire, Deliver(x) PROVE Coupled'
  BY <1>8 DEF Deliver, Coupled, connections, Set, BridgeTypes
<1>9. ASSUME NEW s \in Servers, Reload(s) PROVE Coupled'
  BY <1>9 DEF Reload, Coupled, connections, Set, BridgeTypes
<1>10. ASSUME NEW s \in Servers, Reconnect(s) PROVE Coupled'
  BY <1>10 DEF Reconnect, Coupled, connections, Set, BridgeTypes, Fresh
<1>11. ASSUME NEW s \in Servers, Restart(s) PROVE Coupled'
  BY <1>11 DEF Restart, Coupled, connections, Set, BridgeTypes, Fresh
<1>12. ASSUME NEW s \in Servers, CutSubscriber(s) PROVE Coupled'
  <2>1. /\ bridge[s] = "subscribed" /\ bridge' = bridge /\ cut' = cut \cup {s}
        /\ publisher' = publisher /\ redisUp' = redisUp
        /\ \A t \in Servers \ {s} : inbox'[t] = inbox[t]
    BY <1>12 DEF CutSubscriber, Set
  <2> QED BY <2>1 DEF Coupled
<1>13. ASSUME NEW s \in Servers, CutPublisher(s) PROVE Coupled'
  BY <1>13 DEF CutPublisher, Coupled, connections, Set, BridgeTypes
<1>14. CASE RedisStops
  BY <1>14 DEF RedisStops, Coupled, connections, Set, BridgeTypes
<1>15. CASE RedisStarts
  BY <1>15 DEF RedisStarts, Coupled, connections, Set, BridgeTypes
<1>16. CASE UNCHANGED vars
  BY <1>16 DEF vars, Coupled, connections
<1> QED
  BY <1>1, <1>2, <1>3, <1>4, <1>5, <1>6, <1>7, <1>8, <1>9, <1>10, <1>11, <1>12, <1>13, <1>14, <1>15, <1>16 DEF Next, Tick

ConnectionInv == BridgeTypes /\ CountTypes /\ SinceTypes /\ Coupled
TypeInv == Flow /\ ChatTypes /\ MuteTypes /\ ConnectionInv

\* The variables keep their types.
THEOREM TypesKept == Spec => []TypeOK
<1>1. Init => TypeInv
  <2> SUFFICES ASSUME Init PROVE TypeInv
    OBVIOUS
  <2>1. Flow /\ ChatTypes
    BY RoutedInit DEF Routed
  <2>2. MuteTypes /\ BridgeTypes /\ CountTypes /\ Coupled
    BY DEF Init, MuteTypes, BridgeTypes, CountTypes, Coupled
  <2>3. Len(log) \in Nat
    BY <2>1, LenProperties DEF Flow, FlowTypes
  <2>4. SinceTypes
    BY <2>3 DEF Init, SinceTypes
  <2> QED BY <2>1, <2>2, <2>4 DEF TypeInv, ConnectionInv
<1>2. TypeInv /\ [Next]_vars => TypeInv'
  <2> SUFFICES ASSUME TypeInv, [Next]_vars PROVE TypeInv'
    OBVIOUS
  <2>1. Flow' /\ ChatTypes' /\ MuteTypes'
    BY StepsFlow, FlowKept, ChatTypesKept, MuteTypesKept DEF TypeInv, Flow
  <2>2. BridgeTypes' /\ CountTypes' /\ SinceTypes' /\ Coupled'
    BY BridgeTypesKept, CountTypesKept, SinceTypesKept, CoupledKept DEF TypeInv, Flow, ConnectionInv
  <2> QED BY <2>1, <2>2 DEF TypeInv, ConnectionInv
<1>3. TypeInv => TypeOK
  BY DEF TypeInv, TypeOK, Flow, FlowTypes, ChatTypes, MuteTypes, ConnectionInv, BridgeTypes,
         CountTypes, SinceTypes, Coupled
<1> QED BY <1>1, <1>2, <1>3, PTL DEF Spec
-----------------------------------------------------------------------------
(* A subscription that lasts misses nothing *)

Reached(s, n) ==
    \/ \E i \in 1..Len(heard[s]) : heard[s][i] = n
    \/ \E i \in 1..Len(inbox[s]) : inbox[s][i] = n
Covered(s) == Live(s) => \A n \in (since[s] + 1)..Len(log) : Reached(s, n)

\* NothingSkipped, server by server.
LEMMA SkippedIsCovered ==
    /\ NothingSkipped <=> \A s \in Servers : Covered(s)
    /\ NothingSkipped' <=> \A s \in Servers : Covered(s)'
  BY DEF NothingSkipped, Covered, Reached, Live

\* A step in which nobody becomes subscribed.
Settled == since' = since /\ \A t \in Servers : Live(t)' => Live(t)

\* Covered survives what a subscription does not notice.
LEMMA QuietCovers ==
    ASSUME NEW s \in Servers, Covered(s), log' = log, since'[s] = since[s],
           heard'[s] = heard[s], inbox'[s] = inbox[s], Live(s)' => Live(s)
    PROVE  Covered(s)'
  BY DEF Covered, Reached

\* A publication reaches every connection that lasts.
LEMMA PushCovers ==
    ASSUME Flow, SinceTypes, NEW s \in Servers, Covered(s), NEW p \in Payloads, Push(p), Settled
    PROVE  Covered(s)'
<1> SUFFICES ASSUME Live(s), NEW n \in (since[s] + 1)..Len(log') PROVE Reached(s, n)'
  BY DEF Covered, Settled
<1>1. /\ Len(log) \in Nat /\ Len(log') = Len(log) + 1 /\ heard' = heard
      /\ inbox'[s] = Append(inbox[s], Len(log) + 1)
  BY PushKeepsTypes DEF Flow, FlowTypes, Push, Pushed
<1>2. /\ Len(inbox'[s]) = Len(inbox[s]) + 1 /\ Len(inbox[s]) \in Nat
      /\ \A i \in 1..Len(inbox[s]) : inbox'[s][i] = inbox[s][i]
      /\ inbox'[s][Len(inbox[s]) + 1] = Len(log) + 1
  <2>1. inbox[s] \in Seq(Nat) /\ Len(log) + 1 \in Nat
    <3>1. 1..Len(log) \subseteq Nat
      BY <1>1
    <3> QED BY <1>1, <3>1, SeqMonotonic DEF Flow, FlowTypes
  <2> QED BY <1>1, <2>1, AppendedTo
<1>3. since[s] \in Nat
  BY <1>1 DEF SinceTypes
<1>4. CASE n = Len(log) + 1
  <2>1. Len(inbox[s]) + 1 \in 1..Len(inbox'[s])
    BY <1>2
  <2> QED BY <1>2, <1>4, <2>1 DEF Reached
<1>5. CASE n # Len(log) + 1
  <2>1. n \in (since[s] + 1)..Len(log)
    BY <1>1, <1>3, <1>5
  <2>2. Reached(s, n)
    BY <2>1 DEF Covered
  <2>3. \A i \in 1..Len(inbox[s]) : i \in 1..Len(inbox'[s])
    BY <1>2
  <2> QED BY <1>1, <1>2, <2>2, <2>3 DEF Reached
<1> QED BY <1>4, <1>5

\* What leaves the buffer of a server has been handled there.
LEMMA HandleCovers ==
    ASSUME Flow, NEW s \in Servers, NEW t \in Servers, Covered(s), Handle(t), Settled
    PROVE  Covered(s)'
<1>1. CASE s # t
  BY <1>1, HandledIs, QuietCovers DEF Settled
<1>2. CASE s = t
  <2> SUFFICES ASSUME Live(s), NEW n \in (since[s] + 1)..Len(log) PROVE Reached(s, n)'
    BY HandledIs DEF Covered, Settled
  <2> DEFINE a == Len(heard[s])
             b == Len(inbox[s])
  <2>1. /\ a \in Nat /\ b \in Nat /\ Len(heard'[s]) = a + b
        /\ \A i \in 1..a : heard'[s][i] = heard[s][i]
        /\ \A i \in (a + 1)..(a + b) : heard'[s][i] = inbox[s][i - a]
    BY <1>2, HandledIs
  <2>2. (\E i \in 1..a : heard[s][i] = n) \/ \E i \in 1..b : inbox[s][i] = n
    BY DEF Covered, Reached
  <2> HIDE DEF a, b
  <2>3. CASE \E i \in 1..a : heard[s][i] = n
    <3>1. \A i \in 1..a : i \in 1..(a + b)
      BY <2>1
    <3> QED BY <2>1, <2>3, <3>1 DEF Reached
  <2>4. CASE \E i \in 1..b : inbox[s][i] = n
    <3>1. PICK i \in 1..b : inbox[s][i] = n
      BY <2>4
    <3>2. a + i \in (a + 1)..(a + b) /\ a + i \in 1..(a + b) /\ (a + i) - a = i
      BY <2>1
    <3>3. heard'[s][a + i] = n
      BY <2>1, <3>1, <3>2
    <3> QED BY <2>1, <3>2, <3>3 DEF Reached
  <2> QED BY <2>2, <2>3, <2>4
<1> QED BY <1>1, <1>2

\* A server whose connection is gone has nothing to miss.
LEMMA GoneCovers ==
    ASSUME NEW s \in Servers, NEW t \in Servers, Covered(s), log' = log, heard' = heard,
           since' = since, ~Live(t)', \A r \in Servers \ {t} : inbox'[r] = inbox[r],
           Live(s)' => Live(s)
    PROVE  Covered(s)'
<1>1. CASE s = t
  BY <1>1 DEF Covered
<1>2. CASE s # t
  BY <1>2, QuietCovers
<1> QED BY <1>1, <1>2

\* A publisher's command: a publication, or nothing, and no new subscription.
LEMMA PublicationCovers ==
    ASSUME Flow, SinceTypes, NEW s \in Servers, Covered(s), UNCHANGED <<bridge, cut, since, heard>>,
           NEW p \in Payloads, Pushed(p) \/ UNCHANGED <<log, inbox>>
    PROVE  Covered(s)'
<1>1. Settled
  BY DEF Settled, Live
<1>2. CASE Pushed(p)
  BY <1>1, <1>2, PushCovers DEF Push
<1>3. CASE UNCHANGED <<log, inbox>>
  BY <1>1, <1>3, QuietCovers DEF Settled
<1> QED BY <1>2, <1>3

\* Every step keeps every subscription that lasts covered.
LEMMA CoveredKept ==
    ASSUME Flow, SinceTypes, BridgeTypes, [Next]_vars, NEW t \in Servers, Covered(t)
    PROVE  Covered(t)'
<1>1. ASSUME NEW s \in Servers, NEW m \in Messages, Chat(s, m) PROVE Covered(t)'
  BY <1>1, PayloadsOf, PublicationCovers DEF Chat, PublishAccepted, PublishRefused, PublishDoubtful
<1>2. ASSUME NEW s \in Servers, NEW v \in {"on", "off"}, Mute(s, v) PROVE Covered(t)'
  BY <1>2, PayloadsOf, PublicationCovers DEF Mute, PublishAccepted, PublishRefused, PublishDoubtful
<1>3. ASSUME NEW s \in Servers, Subscribe(s) PROVE Covered(t)'
  <2>1. log' = log /\ heard' = heard /\ inbox' = inbox /\ cut' = cut
        /\ bridge' = Set(bridge, s, "subscribed") /\ since' = Set(since, s, Len(log))
    BY <1>3 DEF Subscribe
  <2>2. CASE t = s
    <3>1. since'[t] = Len(log) /\ Len(log) \in Nat
      BY <2>1, <2>2, LenProperties DEF Set, Flow, FlowTypes
    <3>2. (since'[t] + 1)..Len(log') = {}
      BY <2>1, <3>1
    <3> QED BY <3>2 DEF Covered
  <2>3. CASE t # s
    <3>1. since'[t] = since[t] /\ (Live(t)' => Live(t))
      BY <2>1, <2>3 DEF Set, Live
    <3> QED BY <2>1, <3>1, QuietCovers
  <2> QED BY <2>2, <2>3
<1>4. ASSUME NEW s \in Servers, SubscribeFails(s) PROVE Covered(t)'
  <2>1. Live(t)' => Live(t)
    BY <1>4 DEF SubscribeFails, Live, Set
  <2> QED BY <1>4, <2>1, QuietCovers DEF SubscribeFails
<1>5. ASSUME NEW s \in Servers, Pump(s) PROVE Covered(t)'
  <2>1. CASE s \notin cut
    <3>1. Handle(s) /\ Settled
      BY <1>5, <2>1 DEF Pump, Handle, Settled, Live
    <3> QED BY <3>1, HandleCovers
  <2>2. CASE s \in cut
    <3>1. ~Live(s)' /\ (t # s => (Live(t)' => Live(t)))
      BY <1>5, <2>2 DEF Pump, Set, Live, BridgeTypes
    <3>2. t # s => log' = log /\ heard'[t] = heard[t] /\ inbox'[t] = inbox[t] /\ since' = since
      BY <1>5 DEF Pump, Set
    <3>3. CASE t = s
      BY <3>1, <3>3 DEF Covered
    <3>4. CASE t # s
      BY <3>1, <3>2, <3>4, QuietCovers
    <3> QED BY <3>3, <3>4
  <2> QED BY <2>1, <2>2
<1>6. ASSUME NEW s \in Servers, DelayElapses(s) PROVE Covered(t)'
  <2>1. Live(t)' => Live(t)
    BY <1>6 DEF DelayElapses, Live, Set
  <2> QED BY <1>6, <2>1, QuietCovers DEF DelayElapses
<1>7. ASSUME NEW s \in Servers, PublishNames(s) PROVE Covered(t)'
  BY <1>7, QuietCovers DEF PublishNames, PublishRefused, Live
<1>8. ASSUME NEW x \in wire, Deliver(x) PROVE Covered(t)'
  BY <1>8, QuietCovers DEF Deliver, connections, Live
<1>9. ASSUME NEW s \in Servers, Reload(s) PROVE Covered(t)'
  BY <1>9, QuietCovers DEF Reload, connections, Live
<1>10. ASSUME NEW s \in Servers, Fresh(s, enabled[s]), UNCHANGED <<log, heard>> PROVE Covered(t)'
  <2>1. /\ ~Live(s)' /\ since' = since /\ \A r \in Servers \ {s} : inbox'[r] = inbox[r]
        /\ t # s => (Live(t)' => Live(t))
    BY <1>10 DEF Fresh, Set, Live
  <2>2. Live(t)' => Live(t)
    BY <2>1
  <2> QED BY <1>10, <2>1, <2>2, GoneCovers
<1>11. ASSUME NEW s \in Servers, CutSubscriber(s) PROVE Covered(t)'
  <2>1. /\ ~Live(s)' /\ since' = since /\ \A r \in Servers \ {s} : inbox'[r] = inbox[r]
        /\ log' = log /\ heard' = heard /\ (Live(t)' => Live(t))
    BY <1>11 DEF CutSubscriber, Set, Live
  <2> QED BY <2>1, GoneCovers
<1>12. ASSUME NEW s \in Servers, CutPublisher(s) PROVE Covered(t)'
  BY <1>12, QuietCovers DEF CutPublisher, Live
<1>13. CASE RedisStops
  <2>1. ~Live(t)'
    BY <1>13 DEF RedisStops, Live
  <2> QED BY <2>1 DEF Covered
<1>14. CASE RedisStarts
  BY <1>14, QuietCovers DEF RedisStarts, connections, Live
<1>15. CASE UNCHANGED vars
  BY <1>15, QuietCovers DEF vars, connections, Live
<1> QED
  BY <1>1, <1>2, <1>3, <1>4, <1>5, <1>6, <1>7, <1>8, <1>9, <1>10, <1>11, <1>12, <1>13, <1>14, <1>15
     DEF Next, Tick, Reconnect, Restart

\* While its connection lasts, a subscribed server misses nothing, however many
\* servers publish and whatever happens to the others.
THEOREM NothingMissed == Spec => []NothingSkipped
<1>1. Init => NothingSkipped
  BY DEF Init, NothingSkipped, Live
<1>2. Init => Flow /\ SinceTypes /\ BridgeTypes
  <2> SUFFICES ASSUME Init PROVE SinceTypes /\ BridgeTypes
    BY FlowInit
  <2>1. Len(log) \in Nat
    BY FlowInit, LenProperties DEF Flow, FlowTypes
  <2> QED BY <2>1 DEF Init, SinceTypes, BridgeTypes
<1>3. Flow /\ SinceTypes /\ BridgeTypes /\ [Next]_vars => (Flow /\ SinceTypes /\ BridgeTypes)'
  BY StepsFlow, FlowKept, SinceTypesKept, BridgeTypesKept DEF Flow
<1>4. Flow /\ SinceTypes /\ BridgeTypes /\ NothingSkipped /\ [Next]_vars => NothingSkipped'
  BY SkippedIsCovered, CoveredKept
<1> QED BY <1>1, <1>2, <1>3, <1>4, PTL DEF Spec

\* A message takes one route: the log holds it once, and the proxy only what Redis
\* refused or did not answer for.
THEOREM RoutesAreOne == Spec => []OneRoute
<1>1. Init => Routed
  BY RoutedInit
<1>2. Routed /\ [Next]_vars => Routed'
  BY StepsFlow, FlowKept, ChatTypesKept, RouteKept DEF Routed, Flow
<1>3. Routed => OneRoute
  BY DEF Routed
<1> QED BY <1>1, <1>2, <1>3, PTL DEF Spec

\* A message its sender was told is refused is shown nowhere, but for a lost reply.
THEOREM RefusalsUnseen == Spec => []RefusedIsUnseen
  BY MessagesShownOnce, PTL

\* What is in the buffers leads every server that missed nothing to the last mute set.
THEOREM MutesSettle == Spec => []MuteSettles
  BY ServersAgree, PTL

\* What its sender is told of a message is so: it is shown once, or nowhere, unless the
\* reply to its PUBLISH was lost.
THEOREM ShownWhatWasTold == Spec => []ShownAsTold
<1>1. ShownOnce /\ RefusedIsUnseen => ShownAsTold
  BY DEF ShownAsTold
<1> QED BY <1>1, MessagesShownOnce, RefusalsUnseen, PTL
=============================================================================
