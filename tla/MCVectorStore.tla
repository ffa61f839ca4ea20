--------------------------- MODULE MCVectorStore ---------------------------
(* Every identifier stands for one text, as identifiers drawn at random or   *)
(* from a digest do; i1 and i2 are two identifiers for the same text.        *)
EXTENDS VectorStore, TLC
CONSTANTS i1, i2, i3, i4, t1, t2, t3
MCIds == {i1, i2, i3, i4}
MCTexts == {t1, t2, t3}
MCTextsOf == (i1 :> {t1}) @@ (i2 :> {t1}) @@ (i3 :> {t2}) @@ (i4 :> {t3})
MCTimes == 1..2
==============================================================================
