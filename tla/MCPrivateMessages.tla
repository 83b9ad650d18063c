--------------------------- MODULE MCPrivateMessages ---------------------------
EXTENDS PrivateMessages

CONSTANTS s1, s2, alice, bob, eve

\* bob is shown as alice and eve as bob, and eve ignores alice.
MCDisplay == [p \in Players |-> IF p = bob THEN alice ELSE IF p = eve THEN bob ELSE p]
MCIgnores == [p \in Players |-> IF p = eve THEN {alice} ELSE {}]
\* The players are apart, with bob on either side, or bob alone is there and
\* somebody may come.
MCStarts == {[p \in Players |-> IF p = alice THEN s1 ELSE s2],
             [p \in Players |-> IF p = eve THEN s2 ELSE s1],
             [p \in Players |-> IF p = bob THEN s2 ELSE Nowhere]}
===============================================================================
