--------------------------- MODULE RedisConnection ---------------------------
(***************************************************************************)
(* The two connections of a Redis bridge on the wire (resp.rs, and Bridge  *)
(* of redis.rs): the subscription, read without waiting once a tick, and   *)
(* the publisher, which waits for its answer until the timeout.  Redis is  *)
(* external: it writes the answers, and the pushes of the channel.         *)
(*                                                                         *)
(* The stream is a sequence of symbols: the markers, numbers in decimal,   *)
(* "CR", "LF", and words.  A value is <<kind, content>>, "null" a null of  *)
(* either kind.                                                            *)
(***************************************************************************)
EXTENDS Integers, Sequences, SequencesExt

CONSTANTS Alphabet,    \* the symbols
          Numerals,    \* the numbers among them: [symbol |-> number]
          Payloads,    \* what may be published, each a sequence of symbols
          Strays,      \* what else Redis may write on the subscription
          Greetings,   \* what may have arrived of an answer to AUTH or SELECT
          Channel, MaxDepth,
          MaxPushes, MaxPublishes   \* bounds of the model

ASSUME RedisAssumption ==
  /\ {"+", "-", ":", "$", "*", "CR", "LF", "message", "subscribe"} \cup DOMAIN Numerals \subseteq Alphabet
  /\ \A d \in DOMAIN Numerals : Numerals[d] \in Nat
  /\ \A n \in {0, 1, 2, 3, Len(Channel)} \cup {Len(p) : p \in Payloads} : \E d \in DOMAIN Numerals : Numerals[d] = n
  /\ Payloads \subseteq Seq(Alphabet) /\ Strays \subseteq Seq(Alphabet) /\ Greetings \subseteq Seq(Alphabet)
  /\ Channel \in Seq(Alphabet)
  /\ MaxDepth \in Nat /\ MaxPushes \in Nat /\ MaxPublishes \in Nat

VARIABLES subscription,   \* [state, wire, pending]
          publisher,      \* the same
          due,            \* the reconnect delay has elapsed
          pushed,         \* how often Redis wrote on this subscription since the acknowledgement, and what
          handled,        \* the payloads handed to the bridge since then
          said            \* the publishes, and of the last one: the answer, who it reached

redisVars == <<subscription, publisher, due, pushed, handled, said>>

(******************************** Protocol *********************************)
DigitOf(n) == CHOOSE d \in DOMAIN Numerals : Numerals[d] = n
IsNumber(text) == \/ Len(text) = 1 /\ text[1] \in DOMAIN Numerals
                  \/ Len(text) = 2 /\ text[1] = "-" /\ text[2] \in DOMAIN Numerals
NumberOf(text) == IF Len(text) = 1 THEN Numerals[text[1]] ELSE 0 - Numerals[text[2]]

From(bytes, n) == SubSeq(bytes, n + 1, Len(bytes))   \* bytes[n..]

\* The first CR LF after the marker, with find_crlf; 0 if there is none yet.
LineEnd(bytes) ==
  LET ends == {p \in 2..(Len(bytes) - 1) : bytes[p] = "CR" /\ bytes[p + 1] = "LF"}
  IN  IF ends = {} THEN 0 ELSE Min(ends)

\* What a parse answers: <<"value", the value, the symbols it took>>, <<"more">> or <<"error">>.
Answer(kind, content, used) == <<"value", <<kind, content>>, used>>

BulkAt(bytes, header, length) ==
  LET stop == header + length
  IN  IF Len(bytes) < stop + 2 THEN <<"more">>
      ELSE IF SubSeq(bytes, stop + 1, stop + 2) # <<"CR", "LF">> THEN <<"error">>
      ELSE Answer("bulk", SubSeq(bytes, header + 1, stop), stop + 2)

\* The elements of an array one after the other, each as inner has it.
ArrayAt(bytes, header, length, inner) ==
  LET Elements[i \in 0..length] ==
        IF i = 0 THEN Answer("array", <<>>, header)
        ELSE LET before == Elements[i - 1]
                 next   == inner[From(bytes, before[3])]
             IN  IF before[1] # "value" THEN before
                 ELSE IF next[1] # "value" THEN next
                 ELSE Answer("array", Append(before[2][2], next[2]), before[3] + next[3])
  IN  Elements[length]

ParseWith(bytes, inner) ==
  LET end    == LineEnd(bytes)
      text   == SubSeq(bytes, 2, end - 1)
      header == end + 1
      length == NumberOf(text)
  IN  IF bytes = <<>> THEN <<"more">>
      ELSE IF bytes[1] \notin {"+", "-", ":", "$", "*"} THEN <<"error">>
      ELSE IF end = 0 THEN <<"more">>
      ELSE IF bytes[1] = "+" THEN Answer("status", text, header)
      ELSE IF bytes[1] = "-" \/ ~IsNumber(text) THEN <<"error">>
      ELSE IF bytes[1] = ":" THEN Answer("integer", length, header)
      ELSE IF length < 0 THEN Answer(IF bytes[1] = "$" THEN "bulk" ELSE "array", "null", header)
      ELSE IF bytes[1] = "$" THEN BulkAt(bytes, header, length)
      ELSE ArrayAt(bytes, header, length, inner)

\* parse, at each depth of nesting.
Parse[depth \in 0..(MaxDepth + 1)] ==
  IF depth > MaxDepth THEN [bytes \in Seq(Alphabet) |-> <<"error">>]
  ELSE [bytes \in Seq(Alphabet) |-> ParseWith(bytes, Parse[depth + 1])]

\* What Redis writes: the inverse, for what it sends.
BulkOf(text) == <<"$", DigitOf(Len(text)), "CR", "LF">> \o text \o <<"CR", "LF">>
ArrayOf3 == <<"*", DigitOf(3), "CR", "LF">>
PushOf(payload) == ArrayOf3 \o BulkOf(<<"message">>) \o BulkOf(Channel) \o BulkOf(payload)
CountOf(n) == <<":", DigitOf(n), "CR", "LF">>
Acknowledgement == ArrayOf3 \o BulkOf(<<"subscribe">>) \o BulkOf(Channel) \o CountOf(1)

\* message_payload, as a sequence of none or one.
PayloadOf(value) ==
  IF value[1] = "array" /\ value[2] # "null" /\ Len(value[2]) >= 3
  THEN LET is(i, text) == value[2][i] \in {<<"bulk", text>>, <<"status", text>>}
           last == value[2][3]
       IN  IF is(1, <<"message">>) /\ is(2, Channel) /\ last[1] \in {"bulk", "status"} /\ last[2] # "null"
           THEN <<last[2]>> ELSE <<>>
  ELSE <<>>

\* Mutant: what was read behind a value is dropped with it.
BehindForgetting(bytes, answer) == <<>>

\* What is pending once a value is consumed.
Behind(bytes, answer) == From(bytes, answer[3])

\* pump: poll, repeated while it answers a value. The payloads, what is left, and
\* whether it failed.
Drained[bytes \in Seq(Alphabet)] ==
  LET answer == Parse[0][bytes]
      after  == Drained[Behind(bytes, answer)]
  IN  IF answer[1] = "value" THEN [after EXCEPT !.payloads = PayloadOf(answer[2]) \o @]
      ELSE [payloads |-> <<>>, rest |-> bytes, failed |-> answer[1] = "error"]

(****************************** Connections ********************************)
Closed == [state |-> "none", wire |-> <<>>, pending |-> <<>>]
IsOpen(c) == c.state # "none"

\* open_connection: whether the greeting that arrived answers with an OK.
Greeted(greeting) ==
  LET answer == Parse[0][greeting]
  IN  /\ answer[1] = "value" /\ answer[2][1] \in {"status", "bulk"}
      /\ answer[2][2] \in {<<"OK">>, <<"ok">>}

RedisInit ==
  /\ subscription = Closed /\ publisher = Closed /\ due = TRUE
  /\ pushed = [times |-> 0, stream |-> <<>>] /\ handled = <<>>
  /\ said = [times |-> 0, answer |-> FALSE, reached |-> 0]

Lost == subscription' = Closed /\ due' = FALSE

\* ensure_subscriber, Subscriber::open: n symbols of the acknowledgement arrive in time.
Subscribe(greeting, n) ==
  /\ ~IsOpen(subscription) /\ due
  /\ IF Greeted(greeting) /\ n = Len(Acknowledgement)
     THEN /\ subscription' = [state |-> "open", wire |-> <<>>, pending |-> <<>>]
          /\ pushed' = [times |-> 0, stream |-> <<>>] /\ handled' = <<>>
          /\ UNCHANGED due
     ELSE Lost /\ UNCHANGED <<pushed, handled>>
  /\ UNCHANGED <<publisher, said>>

\* Redis writes on the subscription, if there is one.
Written(bytes) ==
  IF subscription.state = "open"
  THEN /\ subscription' = [subscription EXCEPT !.wire = @ \o bytes]
       /\ pushed' = [times |-> pushed.times + 1, stream |-> pushed.stream \o bytes]
  ELSE UNCHANGED <<subscription, pushed>>

\* Mutant: one value is taken per tick.
PumpOne(n) ==
  /\ IsOpen(subscription)
  /\ LET bytes == subscription.pending \o SubSeq(subscription.wire, 1, n)
         next  == Parse[0][bytes]
     IN  /\ handled' = handled \o (IF next[1] = "value" THEN PayloadOf(next[2]) ELSE <<>>)
         /\ IF next[1] = "error" \/ subscription.state = "cut" THEN Lost
            ELSE /\ subscription' = [subscription EXCEPT !.wire = From(@, n),
                                       !.pending = IF next[1] = "value" THEN From(bytes, next[3]) ELSE bytes]
                 /\ UNCHANGED due
  /\ UNCHANGED <<publisher, pushed, said>>

\* pump, of a tick by which n more symbols have arrived, and the end of a stream
\* that was cut.
Pump(n) ==
  /\ IsOpen(subscription)
  /\ LET drained == Drained[subscription.pending \o SubSeq(subscription.wire, 1, n)]
     IN  /\ handled' = handled \o drained.payloads
         /\ IF drained.failed \/ subscription.state = "cut"
            THEN Lost
            ELSE /\ subscription' = [subscription EXCEPT !.wire = From(@, n), !.pending = drained.rest]
                 /\ UNCHANGED due
  /\ UNCHANGED <<publisher, pushed, said>>

\* The publisher dialled for this publish, if there was none.
Dialled(greeting) == IF IsOpen(publisher) \/ ~Greeted(greeting) THEN publisher
                     ELSE [Closed EXCEPT !.state = "open"]

Subscribers(others) == others + (IF subscription.state = "open" THEN 1 ELSE 0)

\* Mutant: the publisher is kept when its answer does not come in time.
PublishKept(payload, greeting, n, others) ==
  LET c == Dialled(greeting)
      reached == IF c.state = "open" THEN Subscribers(others) ELSE 0
      wire == IF c.state = "open" THEN c.wire \o CountOf(reached) ELSE c.wire
      answer == Parse[0][c.pending \o SubSeq(wire, 1, n)]
      kept == [c EXCEPT !.wire = From(wire, n), !.pending = @ \o SubSeq(wire, 1, n)]
  IN  /\ said.times < MaxPublishes /\ pushed.times < MaxPushes
      /\ n \in 0..Len(wire)
      /\ said' = [times |-> said.times + 1, reached |-> reached,
                  answer |-> IsOpen(c) /\ answer[1] = "value" /\ answer[2][1] = "integer" /\ answer[2][2] > 0]
      /\ publisher' = IF answer[1] = "value" THEN [kept EXCEPT !.pending = From(@, answer[3])] ELSE kept
      /\ IF c.state = "open" THEN Written(PushOf(payload)) ELSE UNCHANGED <<subscription, pushed>>
      /\ UNCHANGED <<due, handled>>

\* Bridge::publish: the command is written, Redis takes it and counts whom it
\* reached, the other servers among them; n symbols come back in time.
PublishMessage(payload, greeting, n, others) ==
  LET c == Dialled(greeting)
      reached == IF c.state = "open" THEN Subscribers(others) ELSE 0
      wire == IF c.state = "open" THEN c.wire \o CountOf(reached) ELSE c.wire
      answer == Parse[0][c.pending \o SubSeq(wire, 1, n)]
  IN  /\ said.times < MaxPublishes /\ pushed.times < MaxPushes
      /\ n \in 0..Len(wire)
      /\ said' = [times |-> said.times + 1, reached |-> reached,
                  answer |-> IsOpen(c) /\ answer[1] = "value" /\ answer[2][1] = "integer" /\ answer[2][2] > 0]
      /\ publisher' = IF answer[1] = "value"
                      THEN [c EXCEPT !.wire = From(wire, n), !.pending = From(@ \o SubSeq(wire, 1, n), answer[3])]
                      ELSE Closed
      /\ IF c.state = "open" THEN Written(PushOf(payload)) ELSE UNCHANGED <<subscription, pushed>>
      /\ UNCHANGED <<due, handled>>

\* Another server publishes, or Redis writes something else on the subscription.
Push(bytes) ==
  /\ subscription.state = "open" /\ pushed.times < MaxPushes
  /\ Written(bytes)
  /\ UNCHANGED <<publisher, due, handled, said>>

\* Redis closes the connections, with what was under way on them.
Cut ==
  /\ subscription.state = "open" \/ publisher.state = "open"
  /\ subscription' = IF IsOpen(subscription) THEN [subscription EXCEPT !.state = "cut"] ELSE subscription
  /\ publisher' = IF IsOpen(publisher) THEN [publisher EXCEPT !.state = "cut"] ELSE publisher
  /\ UNCHANGED <<due, pushed, handled, said>>

\* The reconnect delay elapses.
Delay == ~due /\ due' = TRUE /\ UNCHANGED <<subscription, publisher, pushed, handled, said>>

RedisNext ==
  \/ \E greeting \in Greetings, n \in {0, Len(Acknowledgement)} : Subscribe(greeting, n)
  \/ \E n \in 0..Len(subscription.wire) : Pump(n)
  \/ \E payload \in Payloads, greeting \in Greetings, n \in 0..8, others \in 0..1 :
       PublishMessage(payload, greeting, n, others)
  \/ \E bytes \in Strays \cup {PushOf(p) : p \in Payloads} : Push(bytes)
  \/ Cut \/ Delay

RedisSpec == RedisInit /\ [][RedisNext]_redisVars

(******************************* Properties ********************************)
\* The payloads of a stream.
PayloadsIn(bytes) == Drained[bytes].payloads

\* The connections keep their shape, and an open publisher has nothing to read:
\* no answer, nor part of one, waits for the next command.
RedisTypeOK ==
  /\ subscription.state \in {"none", "open", "cut"} /\ publisher.state \in {"none", "open", "cut"}
  /\ said.times \in 0..MaxPublishes /\ said.reached \in 0..2
  /\ publisher.wire = <<>> /\ publisher.pending = <<>>

\* A publish that answers true reached somebody: a late answer to an earlier
\* publish never passes for its own.
TrueMeansReached == said.answer => said.reached > 0

\* However the stream is cut into reads, the bridge is handed the payloads that
\* were published, whole, in order and once, CR LF within them included.
PayloadsInOrder == IsPrefix(handled, PayloadsIn(pushed.stream))

\* Nothing that arrived whole waits for what comes after it: what is buffered is
\* the beginning of a value, and with what is under way exactly the rest of the
\* stream, none of it read twice or skipped.
NothingHeldBack ==
  subscription.state = "open" =>
    /\ Parse[0][subscription.pending][1] = "more"
    /\ handled \o PayloadsIn(subscription.pending \o subscription.wire) = PayloadsIn(pushed.stream)

\* However the streams are cut, delayed and broken off, each end says what was said.
StreamExact == RedisTypeOK /\ TrueMeansReached /\ PayloadsInOrder /\ NothingHeldBack
===============================================================================
