----------------------------- MODULE MCPrograms -----------------------------
(* Two values of one slot under two identifiers, open and closed; two texts   *)
(* for two identifiers, and one that no policy lets pass.                     *)
EXTENDS Programs, TLC
CONSTANTS f1, f2, n1, n2, e1, x, y, t1, t2, t3, s1

MCFactIds == {f1, f2}
MCNoteIds == {n1, n2}
MCEpisodeIds == {e1}
MCTriples == {x, y}
MCTexts == {t1, t2, t3}
MCSlotOf == [t \in MCTriples |-> "slot"]
MCRefusable == {t3}
MCStatements == {s1}

Fact(i, t, open) == [kind |-> "fact", id |-> i, triple |-> t, open |-> open]
Note(i, t) == [kind |-> "note", id |-> i, text |-> t]
Episode == [kind |-> "episode", id |-> e1]

MCWriteItems ==
  [server |-> {Fact(f1, x, TRUE), Fact(f1, y, FALSE), Fact(f2, y, TRUE),
               Note(n1, t1), Note(n1, t2), Note(n2, t1), Episode},
   agent |-> {Fact(f1, x, TRUE), Fact(f1, y, TRUE), Note(n1, t1), Note(n1, t2)}]
  @@ ("strict agent" :> {Fact(f1, y, TRUE), Fact(f2, x, TRUE), Note(n2, t3)})

Candidate(item, sound) == [item |-> item, quote |-> s1, sound |-> sound]
MCDistillations ==
  {{Candidate(Fact(Fresh, x, TRUE), TRUE), Candidate(Note(Fresh, t1), TRUE)},
   {Candidate(Fact(Fresh, y, TRUE), FALSE)}}
==============================================================================
