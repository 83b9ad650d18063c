---------------------------- MODULE OrderedBroadcast ----------------------------
(***************************************************************************)
(* What the servers are promised of a Redis channel: one log, appended to, *)
(* of which every server hears some entries, each at most once and in the  *)
(* order of the log.  An entry may be missed; none is heard late, out of   *)
(* turn or twice.                                                          *)
(***************************************************************************)
EXTENDS Integers, Sequences

CONSTANTS Servers, Payloads

VARIABLES
    log,    \* what was published, in the order Redis ran the commands
    heard   \* the places in the log each server has handled, in the order it did

vars == <<log, heard>>

Ascending(q) == \A i, j \in 1..Len(q) : i < j => q[i] < q[j]

\* q goes on where h ended.
Extends(h, q) ==
    /\ Len(h) <= Len(q)
    /\ \A i \in 1..Len(h) : q[i] = h[i]

Init ==
    /\ log = <<>>
    /\ heard = [s \in Servers |-> <<>>]

Publish(p) ==
    /\ log' = Append(log, p)
    /\ UNCHANGED heard

\* Server s handles entries later than every one it has handled.
Hear(s) ==
    /\ heard' \in [Servers -> Seq(1..Len(log))]
    /\ Extends(heard[s], heard'[s]) /\ Ascending(heard'[s])
    /\ \A t \in Servers \ {s} : heard'[t] = heard[t]
    /\ UNCHANGED log

Next == (\E p \in Payloads : Publish(p)) \/ (\E s \in Servers : Hear(s))

Spec == Init /\ [][Next]_vars
=============================================================================
