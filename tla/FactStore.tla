------------------------------ MODULE FactStore ------------------------------
(***************************************************************************)
(* The fact repository GraphRepo (src/infra/repo/graph_repo.py), the       *)
(* maintenance operations over it (src/app/fact_maintenance.py) and what   *)
(* the consistency engine reads out of it (src/infra/consistency.py).      *)
(*                                                                         *)
(* A fact is an edge from its subject to its object.  The graph keys an    *)
(* edge by both ends and the identifier, so an identifier alone does not   *)
(* name an edge: keeping one edge per identifier is save_fact's work.      *)
(*                                                                         *)
(* Of a fact's meta are kept: status, superseded_by (by) and the ends of   *)
(* its validity, valid_to (until) and expire_at (exp).                     *)
(* Callers never supply superseded_by: no client of the repository does.   *)
(* Maintenance is reached through the MCP server, which runs one tool at a *)
(* time, so each operation is one step.  A call that names no stored fact, *)
(* and a dry run, change nothing and have no action.                       *)
(***************************************************************************)
EXTENDS Integers, FiniteSets

CONSTANTS Ids, Subjects, Predicates, Objects,
          Claims, \* what callers assert, and until when
          Times,  \* what the clock shows when facts are read
          Nows,   \* what the clock shows when facts are changed
          Canon,  \* NFKC, strip and casefold of a name
          None

Statuses == {"current", "historical", "retracted"}
Instants == Times \cup {None}

Facts == [id : Ids, subject : Subjects, predicate : Predicates, object : Objects,
          status : Statuses, by : Ids \cup {None}, until : Instants, exp : Instants]

ASSUME FactConstants ==
  /\ Claims \subseteq [subject : Subjects, predicate : Predicates, object : Objects,
                      until : Instants, exp : Instants]
  /\ Times \subseteq Int
  /\ Nows \subseteq Times
  /\ None \notin Ids \cup Times \cup Facts

VARIABLE edges   \* the edges of the graph

TypeOK == edges \subseteq Facts

Init == edges = {}

-------------------------------------------------------------------------------
(* GraphRepo.                                                              *)

Ends(e) == <<e.subject, e.object>>
Key(e) == <<e.subject, e.object, e.id>>

Has(es, i) == \E e \in es : e.id = i

\* The first edge with the identifier, in whatever order the graph lists them.
Find(es, i) == CHOOSE e \in es : e.id = i

\* A defect: the edge between the old ends stays.
PutKeepsOld(es, f) == {e \in es : Key(e) # Key(f)} \cup {f}

\* save_fact: the edge found under the identifier goes if its ends differ, the
\* edge with the same key takes the new data, or a new one is added.
Put(es, f) ==
  LET stale == IF Has(es, f.id) /\ Ends(Find(es, f.id)) # Ends(f)
               THEN {Find(es, f.id)} ELSE {}
  IN  {e \in es \ stale : Key(e) # Key(f)} \cup {f}

\* A defect: a fact is due at the very instant of its expiry.
IsDue(e, now) == e.exp # None /\ e.exp <= now

IsExpired(e, now) == e.exp # None /\ e.exp < now

GcExpired(now) == edges' = {e \in edges : ~IsExpired(e, now)}

Clear == edges' = {}

-------------------------------------------------------------------------------
(* Writes: the policies of the write pipeline, then save_fact.             *)

Slot(e) == <<e.subject, e.predicate>>

Make(i, c, status, by) ==
  [id |-> i, subject |-> c.subject, predicate |-> c.predicate, object |-> c.object,
   status |-> status, by |-> by, until |-> c.until, exp |-> c.exp]

\* ConflictPolicy and DedupPolicy consider the facts of the slot whatever
\* their status; a permissive write passes the first.
Write(i, c, strict) ==
  /\ \A e \in edges : Slot(e) = Slot(c) => e.object # c.object
  /\ strict => \A e \in edges : Slot(e) = Slot(c) => e.object = c.object
  /\ edges' = Put(edges, Make(i, c, "current", None))

(* Maintenance.                                                            *)

\* A patch may replace what the fact says and merge anything into its meta.
Patch(i, c, status) ==
  /\ Has(edges, i)
  /\ edges' = Put(edges, Make(i, c, status, Find(edges, i).by))

Retract(i) ==
  /\ Has(edges, i)
  /\ edges' = Put(edges, [Find(edges, i) EXCEPT !.status = "retracted"])

\* A defect: a status the consistency engine does not know.
ClosedAsSuperseded(f, j, now) ==
  [f EXCEPT !.status = "superseded", !.by = j,
            !.until = IF @ = None THEN now ELSE @]

Closed(f, j, now) ==
  [f EXCEPT !.status = "historical", !.by = j,
            !.until = IF @ = None THEN now ELSE @]

\* Defects: the new fact is stored first; the old one is left as it is.
SupersedeReversed(i, j, c, now) ==
  /\ Has(edges, i)
  /\ edges' = Put(Put(edges, Make(j, c, "current", None)),
                  Closed(Find(edges, i), j, now))

SupersedeOpen(i, j, c, now) ==
  /\ Has(edges, i)
  /\ edges' = Put(edges, Make(j, c, "current", None))

\* The old fact is closed and saved, then the new one is saved, under an
\* identifier of the caller's choice or a random one.
Supersede(i, j, c, now) ==
  /\ Has(edges, i)
  /\ edges' = Put(Put(edges, Closed(Find(edges, i), j, now)),
                  Make(j, c, "current", None))

\* hard_delete, remove_fact.
HardDelete(i) ==
  /\ Has(edges, i)
  /\ edges' = edges \ {Find(edges, i)}

-------------------------------------------------------------------------------
(* SimpleConsistencyEngine and build_fact_beliefs.  Every name is a         *)
(* non-empty string.  Trust scores are not modelled: the current belief is  *)
(* any of the facts that may be ranked first.                               *)

Status(e) == IF e.by # None THEN "historical" ELSE e.status

Open(e) == Status(e) \notin {"historical", "retracted"}

\* detect_conflicts: slots, as they are spelled, with two objects.
Conflicted(es) ==
  {k \in Subjects \X Predicates :
     \E e, f \in es : /\ Open(e) /\ Open(f)
                      /\ Slot(e) = k /\ Slot(f) = k
                      /\ e.object # f.object}

IsValidAt(e, t) ==
  /\ e.until # None => e.until >= t
  /\ e.exp # None => e.exp >= t

CanonicalKey(e) == <<Canon[e.subject], Canon[e.predicate]>>

\* The evidence on a slot, and what of it may be believed.
Group(k) == {e \in edges : Status(e) # "retracted" /\ CanonicalKey(e) = k}
Believable(k, t) == {e \in Group(k) : IsValidAt(e, t) /\ Open(e)}

\* A defect: only closed facts count as alternatives.
AlternativesClosed(k, c) ==
  {e \in Group(k) \ {c} : ~Open(e) /\ Canon[e.object] # Canon[c.object]}

Alternatives(k, c) ==
  {e \in Group(k) : e.id # c.id /\ Canon[e.object] # Canon[c.object]}

BeliefStatus(k, c) == IF Alternatives(k, c) # {} THEN "conflict" ELSE "current"

-------------------------------------------------------------------------------
Next ==
  \/ \E i \in Ids, c \in Claims :
       \/ \E strict \in BOOLEAN : Write(i, c, strict)
       \/ \E status \in Statuses : Patch(i, c, status)
       \/ \E j \in Ids, now \in Nows : Supersede(i, j, c, now)
  \/ \E i \in Ids : Retract(i) \/ HardDelete(i)
  \/ \E now \in Nows : GcExpired(now)
  \/ Clear

Spec == Init /\ [][Next]_edges

-------------------------------------------------------------------------------
(* Properties.                                                              *)

\* An identifier names one edge, so that get_fact, remove_fact and the next
\* save find the fact that was saved last, wherever its subject and object
\* have moved to since (graph_repo.py:44-47).
OneEdgePerId == \A e, f \in edges : e.id = f.id => e = f

Successor(i) == IF Has(edges, i) THEN Find(edges, i).by ELSE None

\* Following superseded_by from any fact comes to an end: in every set of
\* facts one is not superseded by another of the set, also when identifiers
\* are reused, as the new fact's or as the old one's.
HistoryNeverLoops ==
  \A S \in SUBSET Ids : S # {} => \E i \in S : Successor(i) \notin S

Supersedes(i, j) ==
  /\ Has(edges, i) /\ Has(edges', j)
  /\ LET g == Find(edges', j)
     IN  Slot(Find(edges, i)) = Slot(g) /\ \E now \in Nows : Supersede(i, j, g, now)

\* Superseding an open fact by another of its slot makes a conflict only when
\* a third fact repeats the one that was superseded
\* (test_mcp_server.py:152 "supersedes_without_creating_current_conflict").
SupersedeKeepsPeace ==
  [][\A i, j \in Ids :
       Supersedes(i, j) /\ Open(Find(edges, i)) =>
         \A k \in Conflicted(edges') \ Conflicted(edges) :
           \E e \in edges :
             /\ e.id \notin {i, j} /\ Open(e)
             /\ Slot(e) = Slot(Find(edges, i)) /\ e.object = Find(edges, i).object]_edges

\* Two valid facts that disagree are seen by both engines: detect_conflicts
\* reports the slot, and the belief is a conflict whichever fact is ranked
\* first, were it filed under another spelling of the slot.
EnginesAgree ==
  \A t \in Times : \A e, f \in edges :
    /\ Open(e) /\ IsValidAt(e, t)
    /\ Open(f) /\ IsValidAt(f, t)
    /\ Slot(e) = Slot(f) /\ Canon[e.object] # Canon[f.object]
    => /\ Slot(e) \in Conflicted(edges)
       /\ \A c \in Believable(CanonicalKey(e), t) :
            BeliefStatus(CanonicalKey(e), c) = "conflict"

\* The graph is a map from identifiers to facts.
factsBar == [i \in Ids |-> IF Has(edges, i) THEN Find(edges, i) ELSE None]

Promise == INSTANCE FactMap WITH facts <- factsBar

\* Saves that move an edge, maintenance, collections and clears are steps of
\* that map.
ImplementsFactMap == Promise!Spec
==============================================================================
