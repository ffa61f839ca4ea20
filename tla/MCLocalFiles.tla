---------------------------- MODULE MCLocalFiles ----------------------------
(* Two processes, two identifiers used in each file; of the files, facts.json   
   and one of the two others, which are kept in the same way as each other.   *)
EXTENDS LocalFiles, TLC
CONSTANTS p1, p2, i1, i2

MCProcesses == {p1, p2}
MCFiles == <<"facts", "decisions">>
MCIds == {i1, i2}

\* Both properties of facts.json are void once it is disturbed.
FactsUndisturbed == "facts" \notin disturbed

Symmetry == Permutations(MCProcesses) \cup Permutations(MCIds)
=============================================================================
