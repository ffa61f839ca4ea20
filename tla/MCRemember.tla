----------------------------- MODULE MCRemember -----------------------------
(* Facts that repeat, contradict or rewrite one another, also with another    *)
(* slot, alone and in pairs; notes that repeat within a batch and under the   *)
(* identifier of a fact, with two texts that agree or not; a decision; and    *)
(* an item for each flaw.                                                     *)
EXTENDS Remember, TLC
CONSTANTS r1, r2, a, b, s, t, x, y

MCIds == {a, b}
MCSlots == {s, t}
MCValues == {x, y}
MCTexts == {x, y}

Fact(i, slot, v) ==
  [kind |-> "fact", id |-> i, slot |-> slot, value |-> v, flaw |-> "none"]
Note(i, text, key) ==
  [kind |-> "note", id |-> i, text |-> text, key |-> key, flaw |-> "none"]
Flawed(item, f) == [item EXCEPT !.flaw = f]
Decision == [kind |-> "decision", id |-> b, flaw |-> "none"]

FactBatches ==
  {<<Fact(a, s, x)>>, <<Fact(b, s, x)>>, <<Fact(b, s, y)>>,
   <<Fact(a, s, x), Fact(a, s, y)>>, <<Fact(b, s, x), Fact(a, s, y)>>,
   <<Fact(a, t, x), Fact(b, s, y)>>}

MixedBatches ==
  {<<>>, <<Note(a, x, x)>>,
   <<Note(b, y, x), Note(a, x, x)>>,
   <<Note(a, x, x), Note(b, x, x), Fact(b, s, y)>>,
   <<Decision, Fact(a, s, x)>>,
   <<Flawed(Fact(a, s, x), "low_confidence"), Note(b, x, x)>>,
   <<Flawed(Note(a, x, x), "pii"), Note(b, x, x)>>,
   <<Flawed(Fact(a, s, y), "malformed"), Fact(a, s, x)>>}

MCBatches == FactBatches \cup MixedBatches
TwoRequests == {r1, r2}
AllModes == {"permissive", "strict", "review"}
Both == {TRUE, FALSE}
Symmetry == Permutations(TwoRequests)
==============================================================================
