--------------------------- MODULE FactStoreProofs ---------------------------
(***************************************************************************)
(* Theorems about FactStore for any identifiers, names, claims and times.  *)
(* They rest on one lemma: over a graph with one edge per identifier,      *)
(* save_fact is an update of the map from identifiers to facts (PutUpdate).*)
(***************************************************************************)
EXTENDS FactStore, TLAPS

\* A graph of facts with one edge per identifier.
Tidy(es) ==
  /\ es \subseteq Facts
  /\ \A e, f \in es : e.id = f.id => e = f

Bar(es) == [i \in Ids |-> IF Has(es, i) THEN Find(es, i) ELSE None]

By(es, i) == IF Has(es, i) THEN Find(es, i).by ELSE None

LoopFree(es) == \A S \in SUBSET Ids : S # {} => \E i \in S : By(es, i) \notin S

LEMMA FindIs ==
  ASSUME NEW es, NEW i, Has(es, i)
  PROVE  Find(es, i) \in es /\ Find(es, i).id = i
BY Zenon DEF Has, Find

LEMMA FindOnly ==
  ASSUME NEW es, Tidy(es), NEW e \in es
  PROVE  Has(es, e.id) /\ Find(es, e.id) = e
<1>1. Has(es, e.id)
  BY DEF Has
<1> QED BY <1>1, FindIs DEF Tidy

\* Saving a fact removes whatever had its identifier and nothing else.
LEMMA PutIs ==
  ASSUME NEW es, Tidy(es), NEW f \in Facts
  PROVE  Put(es, f) = {e \in es : e.id # f.id} \cup {f}
<1> DEFINE stale == IF Has(es, f.id) /\ Ends(Find(es, f.id)) # Ends(f)
                    THEN {Find(es, f.id)} ELSE {}
<1>1. ASSUME NEW e \in es, e.id = f.id
      PROVE  e \in stale \/ Key(e) = Key(f)
  <2>1. Has(es, f.id) /\ Find(es, f.id) = e
    BY <1>1, FindOnly
  <2>2. CASE Ends(e) # Ends(f)
    BY <2>1, <2>2
  <2>3. CASE Ends(e) = Ends(f)
    BY <1>1, <2>3 DEF Ends, Key
  <2> QED BY <2>2, <2>3
<1>2. ASSUME NEW e \in es, e.id # f.id
      PROVE  e \notin stale /\ Key(e) # Key(f)
  <2>1. Has(es, f.id) => Find(es, f.id) # e
    BY <1>2, FindIs
  <2> QED BY <1>2, <2>1 DEF Key
<1>3. Put(es, f) = {e \in es \ stale : Key(e) # Key(f)} \cup {f}
  BY DEF Put
<1> HIDE DEF stale
<1> QED BY <1>1, <1>2, <1>3

LEMMA PutTidy ==
  ASSUME NEW es, Tidy(es), NEW f \in Facts
  PROVE  Tidy(Put(es, f))
BY PutIs DEF Tidy

LEMMA SubsetTidy ==
  ASSUME NEW es, Tidy(es), NEW rest \in SUBSET es
  PROVE  Tidy(rest)
BY DEF Tidy

\* What is found under an identifier after a save.
LEMMA PutFind ==
  ASSUME NEW es, Tidy(es), NEW f \in Facts, NEW i
  PROVE  /\ i = f.id => Has(Put(es, f), i) /\ Find(Put(es, f), i) = f
         /\ i # f.id => /\ Has(Put(es, f), i) <=> Has(es, i)
                        /\ Has(es, i) => Find(Put(es, f), i) = Find(es, i)
<1> DEFINE new == Put(es, f)
<1>1. Tidy(new) /\ new = {e \in es : e.id # f.id} \cup {f}
  BY PutTidy, PutIs
<1>2. f \in new
  BY <1>1
<1>3. ASSUME i = f.id PROVE Has(new, i) /\ Find(new, i) = f
  BY <1>1, <1>2, <1>3, FindOnly
<1>4. ASSUME i # f.id PROVE Has(new, i) <=> Has(es, i)
  BY <1>1, <1>4 DEF Has
<1>5. ASSUME i # f.id, Has(es, i) PROVE Find(new, i) = Find(es, i)
  <2>1. Find(es, i) \in es /\ Find(es, i).id = i
    BY <1>5, FindIs
  <2>2. Find(es, i) \in new
    BY <1>1, <1>5, <2>1
  <2> QED BY <1>1, <2>1, <2>2, FindOnly
<1> QED BY <1>3, <1>4, <1>5

LEMMA PutUpdate ==
  ASSUME NEW es, Tidy(es), NEW f \in Facts
  PROVE  Bar(Put(es, f)) = [Bar(es) EXCEPT ![f.id] = f]
<1>1. f.id \in Ids
  BY DEF Facts
<1>2. ASSUME NEW i \in Ids
      PROVE  Bar(Put(es, f))[i] = IF i = f.id THEN f ELSE Bar(es)[i]
  BY PutFind DEF Bar
<1>3. Bar(Put(es, f)) = [i \in Ids |-> Bar(Put(es, f))[i]]
  BY DEF Bar
<1>4. Bar(es) = [i \in Ids |-> Bar(es)[i]]
  BY DEF Bar
<1> QED BY <1>1, <1>2, <1>3, <1>4

\* What is found under an identifier when edges are removed.
LEMMA SubsetFind ==
  ASSUME NEW es, Tidy(es), NEW rest \in SUBSET es, NEW i, Has(rest, i)
  PROVE  Has(es, i) /\ Find(rest, i) = Find(es, i)
<1>1. Find(rest, i) \in es /\ Find(rest, i).id = i
  BY FindIs
<1> QED BY <1>1, FindOnly

-------------------------------------------------------------------------------
(* The facts the operations save.                                          *)

LEMMA FoundTyped ==
  ASSUME NEW es, Tidy(es), NEW i, Has(es, i)
  PROVE  Find(es, i) \in Facts /\ Find(es, i).id = i
BY FindIs DEF Tidy

LEMMA MadeTyped ==
  ASSUME NEW i \in Ids, NEW c, NEW status \in Statuses, NEW by \in Ids \cup {None},
         c.subject \in Subjects, c.predicate \in Predicates, c.object \in Objects,
         c.until \in Instants, c.exp \in Instants
  PROVE  /\ Make(i, c, status, by) \in Facts
         /\ Make(i, c, status, by).id = i
         /\ Make(i, c, status, by).by = by
BY DEF Make, Facts

LEMMA ClaimMadeTyped ==
  ASSUME NEW i \in Ids, NEW c \in Claims, NEW status \in Statuses,
         NEW by \in Ids \cup {None}
  PROVE  /\ Make(i, c, status, by) \in Facts
         /\ Make(i, c, status, by).id = i
         /\ Make(i, c, status, by).by = by
<1>1. c \in [subject : Subjects, predicate : Predicates, object : Objects,
             until : Instants, exp : Instants]
  BY FactConstants
<1>2. /\ c.subject \in Subjects /\ c.predicate \in Predicates
      /\ c.object \in Objects /\ c.until \in Instants /\ c.exp \in Instants
  BY <1>1
<1> QED BY <1>2, MadeTyped

LEMMA ClosedTyped ==
  ASSUME NEW f \in Facts, NEW j \in Ids, NEW now \in Nows
  PROVE  /\ Closed(f, j, now) \in Facts
         /\ Closed(f, j, now).id = f.id
         /\ Closed(f, j, now).by = j
<1>1. now \in Instants
  BY FactConstants DEF Instants
<1> QED BY <1>1 DEF Closed, Facts, Statuses

LEMMA RetractedTyped ==
  ASSUME NEW f \in Facts
  PROVE  /\ [f EXCEPT !.status = "retracted"] \in Facts
         /\ [f EXCEPT !.status = "retracted"].id = f.id
         /\ [f EXCEPT !.status = "retracted"].by = f.by
BY DEF Facts, Statuses

-------------------------------------------------------------------------------
(* One edge per identifier.                                                *)

LEMMA TidyStep ==
  ASSUME Tidy(edges), [Next]_edges
  PROVE  Tidy(edges')
<1>1. ASSUME NEW i \in Ids, NEW c \in Claims, NEW strict \in BOOLEAN, Write(i, c, strict)
      PROVE  Tidy(edges')
  BY <1>1, ClaimMadeTyped, PutTidy DEF Write, Statuses
<1>2. ASSUME NEW i \in Ids, NEW c \in Claims, NEW status \in Statuses, Patch(i, c, status)
      PROVE  Tidy(edges')
  <2>1. Has(edges, i) /\ edges' = Put(edges, Make(i, c, status, Find(edges, i).by))
    BY <1>2 DEF Patch
  <2>2. Find(edges, i).by \in Ids \cup {None}
    BY <2>1, FoundTyped DEF Facts
  <2> QED BY <2>1, <2>2, ClaimMadeTyped, PutTidy
<1>3. ASSUME NEW i \in Ids, NEW j \in Ids, NEW c \in Claims, NEW now \in Nows,
             Supersede(i, j, c, now)
      PROVE  Tidy(edges')
  <2>1. /\ Has(edges, i)
        /\ edges' = Put(Put(edges, Closed(Find(edges, i), j, now)),
                        Make(j, c, "current", None))
    BY <1>3 DEF Supersede
  <2>2. Closed(Find(edges, i), j, now) \in Facts
    BY <2>1, FoundTyped, ClosedTyped
  <2>3. Make(j, c, "current", None) \in Facts
    BY ClaimMadeTyped DEF Statuses
  <2> QED BY <2>1, <2>2, <2>3, PutTidy
<1>4. ASSUME NEW i \in Ids, Retract(i) PROVE Tidy(edges')
  BY <1>4, FoundTyped, RetractedTyped, PutTidy DEF Retract
<1>5. ASSUME NEW i \in Ids, HardDelete(i) PROVE Tidy(edges')
  BY <1>5, SubsetTidy DEF HardDelete
<1>6. ASSUME NEW now \in Nows, GcExpired(now) PROVE Tidy(edges')
  BY <1>6, SubsetTidy DEF GcExpired
<1>7. ASSUME Clear PROVE Tidy(edges')
  BY <1>7, SubsetTidy DEF Clear
<1> QED BY <1>1, <1>2, <1>3, <1>4, <1>5, <1>6, <1>7 DEF Next

LEMMA TidyAlways == Spec => []Tidy(edges)
<1>1. Init => Tidy(edges)
  BY DEF Init, Tidy
<1>2. Tidy(edges) /\ [Next]_edges => Tidy(edges)'
  BY TidyStep
<1> QED BY <1>1, <1>2, PTL DEF Spec

\* The graph holds facts only, whatever is written, patched or superseded.
THEOREM TypeCorrect == Spec => []TypeOK
<1>1. Tidy(edges) => TypeOK
  BY DEF Tidy, TypeOK
<1> QED BY <1>1, TidyAlways, PTL

\* save_fact keeps one edge per identifier although the graph would take one
\* for each pair of ends, so a fact that moved is never found in its old place.
THEOREM OneEdgeAlways == Spec => []OneEdgePerId
<1>1. Tidy(edges) => OneEdgePerId
  BY DEF Tidy, OneEdgePerId
<1> QED BY <1>1, TidyAlways, PTL

-------------------------------------------------------------------------------
(* Histories end.                                                          *)

LEMMA PutBy ==
  ASSUME NEW es, Tidy(es), NEW f \in Facts, NEW i
  PROVE  By(Put(es, f), i) = IF i = f.id THEN f.by ELSE By(es, i)
<1>1. CASE i = f.id
  BY <1>1, PutFind DEF By
<1>2. CASE i # f.id
  BY <1>2, PutFind DEF By
<1> QED BY <1>1, <1>2

\* Saving a fact that nothing supersedes cannot close a loop, nor can saving
\* one that keeps its successor.
LEMMA PutLoopFree ==
  ASSUME NEW es, Tidy(es), LoopFree(es), NEW f \in Facts,
         f.by = None \/ f.by = By(es, f.id)
  PROVE  LoopFree(Put(es, f))
<1> SUFFICES ASSUME NEW S \in SUBSET Ids, S # {}
             PROVE  \E i \in S : By(Put(es, f), i) \notin S
  BY DEF LoopFree
<1>1. CASE f.by = None /\ f.id \in S
  <2>1. By(Put(es, f), f.id) = None
    BY <1>1, PutBy
  <2>2. None \notin S
    BY FactConstants
  <2> QED BY <1>1, <2>1, <2>2
<1>2. CASE ~(f.by = None /\ f.id \in S)
  <2>1. \A i \in S : By(Put(es, f), i) = By(es, i)
    BY <1>2, PutBy
  <2>2. \E i \in S : By(es, i) \notin S
    BY DEF LoopFree
  <2> QED BY <2>1, <2>2
<1> QED BY <1>1, <1>2

LEMMA SubsetLoopFree ==
  ASSUME NEW es, Tidy(es), LoopFree(es), NEW rest \in SUBSET es
  PROVE  LoopFree(rest)
<1> SUFFICES ASSUME NEW S \in SUBSET Ids, S # {}
             PROVE  \E i \in S : By(rest, i) \notin S
  BY DEF LoopFree
<1>1. PICK i \in S : By(es, i) \notin S
  BY DEF LoopFree
<1>2. CASE Has(rest, i)
  BY <1>1, <1>2, SubsetFind DEF By
<1>3. CASE ~Has(rest, i)
  BY <1>1, <1>3, FactConstants DEF By
<1> QED BY <1>2, <1>3

\* The new fact is saved last, so it has no successor, even where it takes
\* the identifier of the fact it supersedes.
LEMMA SupersedeLoopFree ==
  ASSUME NEW es, Tidy(es), LoopFree(es), NEW f \in Facts, NEW g \in Facts,
         f.by = g.id, g.by = None
  PROVE  LoopFree(Put(Put(es, f), g))
<1> DEFINE new == Put(Put(es, f), g)
<1>1. Tidy(Put(es, f))
  BY PutTidy
<1>2. ASSUME NEW i
      PROVE  By(new, i) = IF i = g.id THEN None
                          ELSE IF i = f.id THEN g.id ELSE By(es, i)
  <2>1. By(new, i) = IF i = g.id THEN g.by ELSE By(Put(es, f), i)
    BY <1>1, PutBy
  <2>2. By(Put(es, f), i) = IF i = f.id THEN f.by ELSE By(es, i)
    BY PutBy
  <2> QED BY <2>1, <2>2
<1> HIDE DEF new
<1> SUFFICES ASSUME NEW S \in SUBSET Ids, S # {}
             PROVE  \E i \in S : By(new, i) \notin S
  BY DEF LoopFree, new
<1>3. None \notin S
  BY FactConstants
<1>4. CASE g.id \in S
  BY <1>2, <1>3, <1>4
<1>5. CASE g.id \notin S /\ f.id \in S
  BY <1>2, <1>5
<1>6. CASE g.id \notin S /\ f.id \notin S
  <2>1. PICK i \in S : By(es, i) \notin S
    BY DEF LoopFree
  <2>2. By(new, i) = By(es, i)
    BY <1>2, <1>6, <2>1
  <2> QED BY <2>1, <2>2
<1> QED BY <1>4, <1>5, <1>6

LEMMA LoopFreeStep ==
  ASSUME Tidy(edges), LoopFree(edges), [Next]_edges
  PROVE  LoopFree(edges')
<1>1. ASSUME NEW i \in Ids, NEW c \in Claims, NEW strict \in BOOLEAN, Write(i, c, strict)
      PROVE  LoopFree(edges')
  <2>1. Make(i, c, "current", None) \in Facts /\ Make(i, c, "current", None).by = None
    BY ClaimMadeTyped DEF Statuses
  <2> QED BY <1>1, <2>1, PutLoopFree DEF Write
<1>2. ASSUME NEW i \in Ids, NEW c \in Claims, NEW status \in Statuses, Patch(i, c, status)
      PROVE  LoopFree(edges')
  <2> DEFINE by == Find(edges, i).by
             f == Make(i, c, status, by)
  <2>1. Has(edges, i) /\ edges' = Put(edges, f)
    BY <1>2 DEF Patch
  <2>2. by \in Ids \cup {None}
    BY <2>1, FoundTyped DEF Facts
  <2>3. f \in Facts /\ f.id = i /\ f.by = by
    BY <2>2, ClaimMadeTyped
  <2>4. f.by = By(edges, f.id)
    BY <2>1, <2>3 DEF By
  <2> QED BY <2>1, <2>3, <2>4, PutLoopFree
<1>3. ASSUME NEW i \in Ids, NEW j \in Ids, NEW c \in Claims, NEW now \in Nows,
             Supersede(i, j, c, now)
      PROVE  LoopFree(edges')
  <2> DEFINE f == Closed(Find(edges, i), j, now)
             g == Make(j, c, "current", None)
  <2>1. Has(edges, i) /\ edges' = Put(Put(edges, f), g)
    BY <1>3 DEF Supersede
  <2>2. f \in Facts /\ f.by = j
    BY <2>1, FoundTyped, ClosedTyped
  <2>3. g \in Facts /\ g.id = j /\ g.by = None
    BY ClaimMadeTyped DEF Statuses
  <2> HIDE DEF f, g
  <2> QED BY <2>1, <2>2, <2>3, SupersedeLoopFree
<1>4. ASSUME NEW i \in Ids, Retract(i) PROVE LoopFree(edges')
  <2> DEFINE f == [Find(edges, i) EXCEPT !.status = "retracted"]
  <2>1. Has(edges, i) /\ edges' = Put(edges, f)
    BY <1>4 DEF Retract
  <2>2. f \in Facts /\ f.id = i /\ f.by = Find(edges, i).by
    BY <2>1, FoundTyped, RetractedTyped
  <2>3. f.by = By(edges, f.id)
    BY <2>1, <2>2 DEF By
  <2> HIDE DEF f
  <2> QED BY <2>1, <2>2, <2>3, PutLoopFree
<1>5. ASSUME NEW i \in Ids, HardDelete(i) PROVE LoopFree(edges')
  BY <1>5, SubsetLoopFree DEF HardDelete
<1>6. ASSUME NEW now \in Nows, GcExpired(now) PROVE LoopFree(edges')
  BY <1>6, SubsetLoopFree DEF GcExpired
<1>7. ASSUME Clear PROVE LoopFree(edges')
  BY <1>7, SubsetLoopFree DEF Clear
<1> QED BY <1>1, <1>2, <1>3, <1>4, <1>5, <1>6, <1>7 DEF Next

\* Whatever is superseded by whatever, under new or reused identifiers, the
\* chain of superseded_by that starts at a fact ends.
THEOREM HistoryAlwaysEnds == Spec => []HistoryNeverLoops
<1>1. Init => LoopFree(edges)
  <2>1. Init => \A i : By(edges, i) = None
    BY DEF Init, By, Has
  <2>2. ASSUME NEW S \in SUBSET Ids, S # {} PROVE None \notin S
    BY FactConstants
  <2> QED BY <2>1, <2>2 DEF LoopFree
<1>2. Tidy(edges) /\ LoopFree(edges) /\ [Next]_edges => LoopFree(edges)'
  BY LoopFreeStep
<1>3. LoopFree(edges) => HistoryNeverLoops
  BY DEF LoopFree, HistoryNeverLoops, By, Successor
<1> QED BY <1>1, <1>2, <1>3, TidyAlways, PTL DEF Spec

-------------------------------------------------------------------------------
(* The graph implements the map.                                           *)

LEMMA BarOf == factsBar = Bar(edges) /\ factsBar' = Bar(edges')
BY DEF factsBar, Bar

\* A save is a save of the map.
LEMMA PutSaves ==
  ASSUME Tidy(edges), NEW f \in Facts, edges' = Put(edges, f)
  PROVE  Promise!Next
<1>1. f.id \in Ids
  BY DEF Facts
<1>2. factsBar' = [factsBar EXCEPT ![f.id] = f]
  BY PutUpdate, BarOf
<1>3. factsBar'[f.id] = f /\ \A k \in Ids \ {f.id} : factsBar'[k] = factsBar[k]
  BY <1>1, <1>2 DEF factsBar
<1>4. Promise!Save(f.id)
  BY <1>3 DEF Promise!Save, Promise!Others
<1> QED BY <1>1, <1>4 DEF Promise!Next

LEMMA SubsetBar ==
  ASSUME NEW es, Tidy(es), NEW rest \in SUBSET es, NEW i \in Ids
  PROVE  Bar(rest)[i] = IF Has(rest, i) THEN Bar(es)[i] ELSE None
BY SubsetFind DEF Bar

LEMMA SupersedeMaps ==
  ASSUME Tidy(edges), NEW i \in Ids, NEW j \in Ids, NEW c \in Claims, NEW now \in Nows,
         Supersede(i, j, c, now)
  PROVE  Promise!Next
<1> DEFINE old == Find(edges, i)
           f == Closed(old, j, now)
           g == Make(j, c, "current", None)
<1>1. Has(edges, i) /\ edges' = Put(Put(edges, f), g)
  BY DEF Supersede
<1>2. old \in Facts /\ old.id = i /\ factsBar[i] = old
  BY <1>1, FoundTyped DEF factsBar
<1>3. f \in Facts /\ f.id = i
  BY <1>2, ClosedTyped
<1>4. g \in Facts /\ g.id = j /\ g.by = None
  BY ClaimMadeTyped DEF Statuses
<1>5. f = [old EXCEPT !.status = "historical", !.by = j,
                      !.until = IF @ = None THEN now ELSE @]
  BY DEF Closed
<1> HIDE DEF f, g, old
<1>6. factsBar' = [[factsBar EXCEPT ![i] = f] EXCEPT ![j] = g]
  <2>1. Tidy(Put(edges, f))
    BY <1>3, PutTidy
  <2>2. Bar(Put(edges, f)) = [factsBar EXCEPT ![i] = f]
    BY <1>3, PutUpdate, BarOf
  <2>3. Bar(edges') = [Bar(Put(edges, f)) EXCEPT ![j] = g]
    BY <1>1, <1>4, <2>1, PutUpdate
  <2> QED BY <2>2, <2>3, BarOf
<1>7. /\ factsBar'[j] = g
      /\ i # j => factsBar'[i] = f
      /\ \A k \in Ids \ {i, j} : factsBar'[k] = factsBar[k]
  BY <1>6 DEF factsBar
<1>8. CASE i = j
  <2>1. Promise!Save(j)
    BY <1>4, <1>7, <1>8 DEF Promise!Save, Promise!Others
  <2> QED BY <2>1 DEF Promise!Next
<1>9. CASE i # j
  <2>1. factsBar[i] # None
    BY <1>2, FactConstants
  <2>2. now \in Times
    BY FactConstants
  <2>3. Promise!Supersede(i, j)
    BY <1>2, <1>4, <1>5, <1>7, <1>9, <2>1, <2>2 DEF Promise!Supersede, Promise!Others
  <2> QED BY <1>9, <2>3 DEF Promise!Next
<1> QED BY <1>8, <1>9

LEMMA DeleteMaps ==
  ASSUME Tidy(edges), NEW i \in Ids, HardDelete(i)
  PROVE  Promise!Next
<1>1. Has(edges, i) /\ edges' = edges \ {Find(edges, i)}
  BY DEF HardDelete
<1>2. ~Has(edges', i)
  BY <1>1, FoundTyped, FindOnly DEF Has
<1>3. ASSUME NEW k \in Ids \ {i} PROVE Has(edges', k) <=> Has(edges, k)
  BY <1>1, FoundTyped DEF Has
<1>4. ASSUME NEW k \in Ids
      PROVE  factsBar'[k] = IF Has(edges', k) THEN factsBar[k] ELSE None
  <2>1. edges' \in SUBSET edges
    BY <1>1
  <2> QED BY <2>1, SubsetBar, BarOf
<1>5. Promise!Remove(i)
  <2>1. factsBar'[i] = None
    BY <1>2, <1>4
  <2>2. ASSUME NEW k \in Ids \ {i} PROVE factsBar'[k] = factsBar[k]
    BY <1>3, <1>4, <2>2 DEF factsBar
  <2> QED BY <2>1, <2>2 DEF Promise!Remove, Promise!Others
<1> QED BY <1>5 DEF Promise!Next

LEMMA GcMaps ==
  ASSUME Tidy(edges), NEW now \in Nows, GcExpired(now)
  PROVE  Promise!Next
<1>1. edges' = {e \in edges : ~IsExpired(e, now)}
  BY DEF GcExpired
<1>2. ASSUME NEW k \in Ids
      PROVE  factsBar'[k] = IF Has(edges', k) THEN factsBar[k] ELSE None
  <2>1. edges' \in SUBSET edges
    BY <1>1
  <2> QED BY <2>1, SubsetBar, BarOf
<1>3. ASSUME NEW k \in Ids
      PROVE  factsBar'[k] = IF /\ factsBar[k] # None
                               /\ factsBar[k].exp # None
                               /\ factsBar[k].exp < now
                            THEN None ELSE factsBar[k]
  <2>1. CASE ~Has(edges, k)
    BY <1>1, <1>2, <2>1 DEF factsBar, Has
  <2>2. CASE Has(edges, k)
    <3>1. /\ Find(edges, k) \in edges /\ Find(edges, k).id = k
          /\ factsBar[k] = Find(edges, k)
          /\ factsBar[k] # None
      BY <2>2, FindIs, FactConstants DEF factsBar, Tidy
    <3>2. Has(edges', k) <=> ~IsExpired(Find(edges, k), now)
      <4>1. ASSUME ~IsExpired(Find(edges, k), now) PROVE Has(edges', k)
        BY <1>1, <3>1, <4>1 DEF Has
      <4>2. ASSUME Has(edges', k) PROVE ~IsExpired(Find(edges, k), now)
        <5>1. PICK e \in edges' : e.id = k
          BY <4>2 DEF Has
        <5>2. e = Find(edges, k)
          BY <1>1, <3>1, <5>1 DEF Tidy
        <5> QED BY <1>1, <5>1, <5>2
      <4> QED BY <4>1, <4>2
    <3> QED BY <1>2, <3>1, <3>2 DEF IsExpired
  <2> QED BY <2>1, <2>2
<1>4. factsBar' = [k \in Ids |-> factsBar'[k]]
  BY DEF factsBar
<1>5. Promise!Forget(now)
  BY <1>3, <1>4 DEF Promise!Forget
<1> QED BY <1>5, FactConstants DEF Promise!Next

LEMMA MapStep ==
  ASSUME Tidy(edges), [Next]_edges
  PROVE  [Promise!Next]_factsBar
<1>1. ASSUME NEW i \in Ids, NEW c \in Claims, NEW strict \in BOOLEAN, Write(i, c, strict)
      PROVE  Promise!Next
  <2>1. Make(i, c, "current", None) \in Facts
    BY ClaimMadeTyped DEF Statuses
  <2> QED BY <1>1, <2>1, PutSaves DEF Write
<1>2. ASSUME NEW i \in Ids, NEW c \in Claims, NEW status \in Statuses, Patch(i, c, status)
      PROVE  Promise!Next
  <2>1. Has(edges, i) /\ edges' = Put(edges, Make(i, c, status, Find(edges, i).by))
    BY <1>2 DEF Patch
  <2>2. Find(edges, i).by \in Ids \cup {None}
    BY <2>1, FoundTyped DEF Facts
  <2> QED BY <2>1, <2>2, ClaimMadeTyped, PutSaves
<1>3. ASSUME NEW i \in Ids, Retract(i) PROVE Promise!Next
  BY <1>3, FoundTyped, RetractedTyped, PutSaves DEF Retract
<1>4. ASSUME Clear PROVE Promise!Clear
  BY <1>4 DEF Clear, Promise!Clear, factsBar, Has
<1>5. ASSUME UNCHANGED edges PROVE UNCHANGED factsBar
  BY <1>5 DEF factsBar
<1> QED BY <1>1, <1>2, <1>3, <1>4, <1>5, SupersedeMaps, DeleteMaps, GcMaps
        DEF Next, Promise!Next

\* The graph, whose edges are keyed by both ends, behaves as a map from
\* identifiers to facts: every operation is a step of FactMap.
THEOREM GraphImplementsMap == Spec => ImplementsFactMap
<1>1. Init => Promise!Init
  BY DEF Init, Promise!Init, factsBar, Has
<1>2. Tidy(edges) /\ [Next]_edges => [Promise!Next]_factsBar
  BY MapStep
<1> QED BY <1>1, <1>2, TidyAlways, PTL DEF Spec, ImplementsFactMap, Promise!Spec

-------------------------------------------------------------------------------
(* Conflicts.                                                               *)

\* Two valid open facts that disagree are a conflict for detect_conflicts and
\* for every belief: whichever fact a belief (consistency.py:74-133) holds, one
\* of the two has another object, and so it is another fact.
THEOREM EnginesAlwaysAgree == Spec => []EnginesAgree
<1>1. Tidy(edges) => EnginesAgree
  <2> SUFFICES ASSUME Tidy(edges), NEW t \in Times, NEW e \in edges, NEW f \in edges,
                      Open(e), IsValidAt(e, t), Open(f), IsValidAt(f, t),
                      Slot(e) = Slot(f), Canon[e.object] # Canon[f.object]
               PROVE  /\ Slot(e) \in Conflicted(edges)
                      /\ \A c \in Believable(CanonicalKey(e), t) :
                           BeliefStatus(CanonicalKey(e), c) = "conflict"
    BY DEF EnginesAgree
  <2>1. e \in Facts /\ f \in Facts
    BY DEF Tidy
  <2>2. Slot(e) \in Conflicted(edges)
    BY <2>1 DEF Conflicted, Slot, Facts
  <2>3. e \in Group(CanonicalKey(e)) /\ f \in Group(CanonicalKey(e))
    BY <2>1 DEF Group, Open, CanonicalKey, Slot
  <2>4. ASSUME NEW c \in Believable(CanonicalKey(e), t)
        PROVE  BeliefStatus(CanonicalKey(e), c) = "conflict"
    <3>1. PICK g \in {e, f} : Canon[g.object] # Canon[c.object]
      OBVIOUS
    <3>2. c \in edges /\ g \in edges /\ g # c
      BY <3>1 DEF Believable, Group
    <3>3. g.id # c.id
      BY <3>2 DEF Tidy
    <3>4. g \in Alternatives(CanonicalKey(e), c)
      BY <2>3, <3>1, <3>3 DEF Alternatives
    <3> QED BY <3>4 DEF BeliefStatus
  <2> QED BY <2>2, <2>4
<1> QED BY <1>1, TidyAlways, PTL

\* What superseding leaves open is the new fact and what was open before under
\* other identifiers.
LEMMA SupersedeOpens ==
  ASSUME Tidy(edges), NEW i \in Ids, NEW j \in Ids, NEW g \in Facts, NEW now \in Nows,
         Supersede(i, j, g, now), NEW e \in edges', Open(e)
  PROVE  \/ e = Make(j, g, "current", None)
         \/ e \in edges /\ e.id \notin {i, j}
<1>1. Has(edges, i) /\ edges' = Put(Put(edges, Closed(Find(edges, i), j, now)), Make(j, g, "current", None))
  BY DEF Supersede
<1>2. Find(edges, i) \in Facts /\ Find(edges, i).id = i
  BY <1>1, FoundTyped
<1>3. PICK old \in Facts : old = Closed(Find(edges, i), j, now)
  BY <1>2, ClosedTyped
<1>4. old.id = i /\ old.by = j /\ j # None
  BY <1>2, <1>3, ClosedTyped, FactConstants
<1>5. PICK new \in Facts : new = Make(j, g, "current", None)
  <2>1. /\ g.subject \in Subjects /\ g.predicate \in Predicates /\ g.object \in Objects
        /\ g.until \in Instants /\ g.exp \in Instants
    BY DEF Facts
  <2>2. "current" \in Statuses
    BY DEF Statuses
  <2> QED BY <2>1, <2>2, MadeTyped
<1>6. new.id = j
  BY <1>5 DEF Make
<1>7. Put(edges, old) = {d \in edges : d.id # i} \cup {old} /\ Tidy(Put(edges, old))
  BY <1>4, PutIs, PutTidy
<1>8. edges' = {d \in Put(edges, old) : d.id # j} \cup {new}
  <2>1. edges' = Put(Put(edges, old), new)
    BY <1>1, <1>3, <1>5
  <2>2. Put(Put(edges, old), new) = {d \in Put(edges, old) : d.id # new.id} \cup {new}
    BY <1>7, PutIs
  <2> QED BY <1>6, <2>1, <2>2
<1>9. ~Open(old)
  BY <1>4 DEF Open, Status
<1> QED BY <1>5, <1>7, <1>8, <1>9

LEMMA SupersedePeace ==
  ASSUME Tidy(edges), NEW i \in Ids, NEW j \in Ids, NEW g \in Facts, NEW now \in Nows,
         Supersede(i, j, g, now), Slot(Find(edges, i)) = Slot(g), Open(Find(edges, i)),
         NEW k \in Conflicted(edges') \ Conflicted(edges)
  PROVE  \E e \in edges : /\ e.id \notin {i, j} /\ Open(e)
                          /\ Slot(e) = Slot(Find(edges, i)) /\ e.object = Find(edges, i).object
<1>1. PICK d \in edges', e \in edges' : /\ Open(d) /\ Open(e) /\ Slot(d) = k /\ Slot(e) = k
                                        /\ d.object # e.object
  BY DEF Conflicted
<1>2. ~(d \in edges /\ e \in edges)
  BY <1>1 DEF Conflicted
<1>3. PICK new : new = Make(j, g, "current", None)
  OBVIOUS
<1>4. Slot(new) = Slot(g)
  BY <1>3 DEF Slot, Make
<1>5. /\ d = new \/ (d \in edges /\ d.id \notin {i, j})
      /\ e = new \/ (e \in edges /\ e.id \notin {i, j})
  BY <1>1, <1>3, SupersedeOpens
<1>6. PICK o \in edges : o.id \notin {i, j} /\ Open(o) /\ Slot(o) = k
  BY <1>1, <1>2, <1>5
<1>7. k = Slot(g)
  BY <1>1, <1>2, <1>4, <1>5
<1>8. Has(edges, i) /\ Find(edges, i) \in edges
  BY FindIs DEF Supersede
<1>9. o.object = Find(edges, i).object
  BY <1>6, <1>7, <1>8 DEF Conflicted
<1> QED BY <1>6, <1>7, <1>9

\* The new fact disagrees only with facts of the slot that were open beside the
\* one it replaces, and those agreed with that one.
THEOREM SupersedeAlwaysKeepsPeace == Spec => SupersedeKeepsPeace
<1>1. Tidy(edges) /\ [Next]_edges =>
        [\A i, j \in Ids :
           Supersedes(i, j) /\ Open(Find(edges, i)) =>
             \A k \in Conflicted(edges') \ Conflicted(edges) :
               \E e \in edges :
                 /\ e.id \notin {i, j} /\ Open(e)
                 /\ Slot(e) = Slot(Find(edges, i)) /\ e.object = Find(edges, i).object]_edges
  <2> SUFFICES ASSUME Tidy(edges), [Next]_edges, NEW i \in Ids, NEW j \in Ids,
                      Supersedes(i, j), Open(Find(edges, i)),
                      NEW k \in Conflicted(edges') \ Conflicted(edges)
               PROVE  \E e \in edges :
                        /\ e.id \notin {i, j} /\ Open(e)
                        /\ Slot(e) = Slot(Find(edges, i)) /\ e.object = Find(edges, i).object
    OBVIOUS
  <2>1. Tidy(edges') /\ Has(edges', j)
    BY TidyStep DEF Supersedes
  <2>2. PICK g \in Facts : g = Find(edges', j)
    BY <2>1, FoundTyped
  <2>3. PICK now \in Nows : Supersede(i, j, g, now)
    BY <2>2 DEF Supersedes
  <2>4. Slot(Find(edges, i)) = Slot(g)
    BY <2>2 DEF Supersedes
  <2> QED BY <2>3, <2>4, SupersedePeace
<1> QED BY <1>1, TidyAlways, PTL DEF Spec, SupersedeKeepsPeace
==============================================================================
