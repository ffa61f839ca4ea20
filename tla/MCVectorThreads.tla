--------------------------- MODULE MCVectorThreads ---------------------------
(* Three identifiers for one text, so that a text could be stored more often  *)
(* than there are threads, and one for another.                               *)
EXTENDS VectorThreads, TLC
CONSTANTS i1, i2, i3, i4, t1, t2, p1, p2
MCIds == {i1, i2, i3, i4}
MCTexts == {t1, t2}
MCTextsOf == (i1 :> {t1}) @@ (i2 :> {t1}) @@ (i3 :> {t1}) @@ (i4 :> {t2})
MCTimes == {1}
MCTwoThreads == {p1, p2}
Symmetry == Permutations(MCTwoThreads)
==============================================================================
