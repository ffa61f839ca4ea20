--------------------------- MODULE MCEpisodeStore ---------------------------
(* Two threads, two episodes, and a version that expires beside one that     *)
(* does not.                                                                 *)
EXTENDS EpisodeStore, TLC
CONSTANTS t1, t2, e1, e2, v1, v2

MCThreads == {t1, t2}
MCIds == {e1, e2}
MCVersions == {v1, v2}
MCFlaws == {"none", "refs"}
MCExpiring == {v2}

\* EpisodesKept says nothing of an identifier that is spoiled.
OneUnspoiled == spoiled # MCIds

Symmetry == Permutations(MCThreads) \cup Permutations(MCIds)
=============================================================================
