----------------------------- MODULE MCFactStore -----------------------------
(* One predicate; a subject in two spellings; two objects, one of them in two *)
(* spellings.  One fact expires before collections run, one as they run.       *)
EXTENDS FactStore, TLC
CONSTANTS a, b, c, s, S, p, x, X, y

MCIds == {a, b, c}
MCSubjects == {s, S}
MCPredicates == {p}
MCObjects == {x, X, y}
Says(subject, object, exp) ==
  [subject |-> subject, predicate |-> p, object |-> object, until |-> None, exp |-> exp]
MCClaims == {Says(s, x, None), Says(s, y, 2), Says(S, X, 1)}
MCTimes == {1, 2}
MCNows == {2}
MCCanon == (s :> s) @@ (S :> s) @@ (p :> p) @@ (x :> x) @@ (X :> x) @@ (y :> y)
Symmetry == Permutations(MCIds)
==============================================================================
