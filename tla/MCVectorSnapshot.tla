--------------------------- MODULE MCVectorSnapshot ---------------------------
(* Two notes with different texts, a third identifier for the first text.     *)
EXTENDS VectorSnapshot, TLC
CONSTANTS i1, i2, i3, t1, t2
MCIds == {i1, i2, i3}
MCTexts == {t1, t2}
MCTextsOf == (i1 :> {t1}) @@ (i2 :> {t1}) @@ (i3 :> {t2})
MCTimes == {1, 2}
==============================================================================
