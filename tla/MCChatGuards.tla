------------------------------ MODULE MCChatGuards ------------------------------
(* ChatGuards on a small instance for TLC. *)
EXTENDS ChatGuards

\* The replacement of the filter is longer than the word: stars is too long to be typed.
CONSTANTS hello, hehe, swear, stars

MCAlike == {<<t, t>> : t \in Texts} \cup {<<hello, hehe>>, <<hehe, hello>>}
MCFiltered == [t \in Texts |-> IF t = swear THEN stars ELSE t]
MCBlanked == [t \in Texts |-> IF t = swear THEN stars ELSE t]

\* An operator has the trchat.bypass.* permissions unless they were taken away.
Config(port, similarity, maxSimilar, compareAll, cooldown, maxFrequent, ops, bypass) ==
    [port |-> port, similarity |-> similarity, maxSimilar |-> maxSimilar, compareAll |-> compareAll,
     cooldown |-> cooldown, maxFrequent |-> maxFrequent, ops |-> ops, bypass |-> bypass]

\* Each guard alone and in each other's way, and the exemptions, on both ports.
MCConfigurations ==
    UNION {{Config(port, 1, 1, FALSE, 1, 2, {}, {}), Config(port, 0, 0, FALSE, 1, 0, {}, {}),
            Config(port, 1, 1, TRUE, 1, 2, {}, {}),
            Config(port, 1, 0, FALSE, 2, 2, Players, {}), Config(port, 1, 0, FALSE, 2, 1, {}, Players)}
           : port \in {"mod", "plugin"}}
=============================================================================
