------------------------------ MODULE TextScan ------------------------------
(***************************************************************************)
(* How functions.rs and filter.rs walk through a text: symbol by symbol    *)
(* from the left, a find being passed over as a whole.                     *)
(***************************************************************************)
EXTENDS Integers, Sequences, SequencesExt

Positions(n) == [i \in 1..n |-> i]

\* A non-empty word stands in the text at position i.
StandsAt(word, text, i) ==
  /\ word # <<>>
  /\ i + Len(word) - 1 <= Len(text)
  /\ SubSeq(text, i, i + Len(word) - 1) = word

\* Of the finds [start, end (exclusive), rank], those a walk takes: it resumes at
\* the end of the last one, and of those that start together takes the first rank.
LeftToRight(finds, n) ==
  LET Visit(taken, i) ==
        LET here == {h \in finds : h.start = i}
        IN  IF here = {} \/ (taken # <<>> /\ Last(taken).end > i) THEN taken
            ELSE Append(taken, CHOOSE h \in here : \A g \in here : g.rank <= h.rank)
  IN  FoldLeft(Visit, <<>>, Positions(n))
=============================================================================
