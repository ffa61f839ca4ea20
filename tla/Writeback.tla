------------------------------ MODULE Writeback ------------------------------
(***************************************************************************)
(* WriteBackService.write (src/app/writeback/service.py) with its policies *)
(* (src/app/writeback/memory_policies.py) over the shared repositories.    *)
(*                                                                         *)
(* The write endpoints are plain functions, so a server runs requests in a *)
(* pool of threads; the service and the repositories take no lock.  A step *)
(* of a request is what it does between two accesses to a repository:      *)
(*                                                                         *)
(*   "convert"  conversion, request source, provenance, ttl and pii        *)
(*              policies: local to the request;                            *)
(*   "conflict" the query of ConflictPolicy, then ConfidencePolicy (local);*)
(*   "dedup"    the query of DedupPolicy;                                  *)
(*   "save"     the repository write, or nothing in a dry run.             *)
(*                                                                         *)
(* A fact is a slot (subject and predicate) and a value (object); of its   *)
(* meta only the conflict entry is kept, as the set of facts it names.     *)
(* A note has two texts: the one DedupPolicy reads (text, content and      *)
(* summary) and the key VectorStoreRepo files it under (text, or content). *)
(* The vector repository is the map of module NoteMap, without expiry:     *)
(* saving under a key that is taken adds nothing and raises nothing.       *)
(* A decision stands for the three kinds that only have an identifier.     *)
(***************************************************************************)
EXTENDS Integers, Sequences, FiniteSets

CONSTANTS Requests,   \* requests that clients may send
          Batches,    \* lists of items a request may carry
          Modes,      \* policy modes in use
          DryRuns,    \* values of dry_run in use
          Workers,    \* threads of the server's pool
          HasDecisionRepo, \* is the optional repository configured?
          Ids, Slots, Values, Texts, None

\* What, in the item itself, keeps it from being written.
Flaws == {"none", "malformed", "pii", "low_confidence"}

Facts == [kind : {"fact"}, id : Ids, slot : Slots, value : Values, flaw : Flaws]
Notes == [kind : {"note"}, id : Ids, text : Texts, key : Texts, flaw : Flaws]
Decisions == [kind : {"decision"}, id : Ids, flaw : Flaws]
Items == Facts \cup Notes \cup Decisions

StoredFacts == [slot : Slots, value : Values, conflicts : SUBSET Ids]

ASSUME WritebackConstants ==
  /\ Batches \subseteq Seq(Items)
  /\ Modes \subseteq {"permissive", "strict", "review"}
  /\ DryRuns \subseteq BOOLEAN
  /\ Workers \in Nat
  /\ HasDecisionRepo \in BOOLEAN
  /\ IsFiniteSet(Requests)
  /\ None \notin StoredFacts \cup Ids \cup Requests

VARIABLES facts,      \* graph repository: id -> fact or None
          notes,      \* vector repository: key -> id of the note filed there
          decisions,  \* decision repository: ids
          batch,      \* per request: items
          mode,       \* per request: policy mode
          dry,        \* per request: dry_run
          pc,         \* per request: the step it is about to take
          pos,        \* per request: position of the current item
          found,      \* per request: conflicts found for the current item
          seen,       \* per request: seen_note_signatures of its context
          outcome,    \* per request: for each item handled, its fate
          writer,     \* history: the request that saved the fact last
          overlap     \* history: pairs of requests that were active together

repos == <<facts, notes, decisions>>
params == <<batch, mode, dry>>
history == <<writer, overlap>>
vars == <<repos, params, pc, pos, found, seen, outcome, history>>

Active == {r \in Requests : pc[r] \notin {"new", "done"}}
Stored == {i \in Ids : facts[i] # None}
Item(r) == batch[r][pos[r]]

Reasons == {"malformed", "pii_blocked", "fact_conflict", "requires_review",
            "low_confidence", "duplicate_fact", "duplicate_in_batch",
            "duplicate_in_repository", "no_repository"}
Fates == [status : {"saved", "accepted"}, reason : {"none"}] \cup
         [status : {"rejected", "error"}, reason : Reasons]

TypeOK ==
  /\ facts \in [Ids -> StoredFacts \cup {None}]
  /\ notes \in [Texts -> Ids \cup {None}]
  /\ decisions \subseteq Ids
  /\ batch \in [Requests -> Batches \cup {<<>>}]
  /\ mode \in [Requests -> Modes]
  /\ dry \in [Requests -> DryRuns]
  /\ pc \in [Requests -> {"new", "convert", "conflict", "dedup", "save", "done"}]
  /\ pos \in [Requests -> Nat]
  /\ found \in [Requests -> SUBSET Ids]
  /\ seen \in [Requests -> SUBSET Texts]
  /\ outcome \in [Requests -> Seq(Fates)]
  /\ writer \in [Ids -> Requests \cup {None}]
  /\ overlap \subseteq Requests \X Requests

Init ==
  /\ facts = [i \in Ids |-> None]
  /\ notes = [t \in Texts |-> None]
  /\ decisions = {}
  /\ batch = [r \in Requests |-> <<>>]
  /\ mode \in [Requests -> Modes]
  /\ dry \in [Requests -> DryRuns]
  /\ pc = [r \in Requests |-> "new"]
  /\ pos = [r \in Requests |-> 1]
  /\ found = [r \in Requests |-> {}]
  /\ seen = [r \in Requests |-> {}]
  /\ outcome = [r \in Requests |-> <<>>]
  /\ writer = [i \in Ids |-> None]
  /\ overlap = {}

-------------------------------------------------------------------------------

\* A thread of the pool takes the request; the context starts empty.
Begin(r, b) ==
  /\ pc[r] = "new"
  /\ Cardinality(Active) < Workers
  /\ batch' = [batch EXCEPT ![r] = b]
  /\ pc' = [pc EXCEPT ![r] = IF b = <<>> THEN "done" ELSE "convert"]
  /\ overlap' = overlap \cup (Active \X {r}) \cup ({r} \X Active)
  /\ UNCHANGED <<repos, mode, dry, pos, found, seen, outcome, writer>>

\* The item is settled: its operation is added to the result and the loop
\* goes on with the next one.
Settle(r, status, reason) ==
  /\ outcome' = [outcome EXCEPT ![r] = Append(@, [status |-> status, reason |-> reason])]
  /\ pos' = [pos EXCEPT ![r] = @ + 1]
  /\ pc' = [pc EXCEPT ![r] = IF pos[r] = Len(batch[r]) THEN "done" ELSE "convert"]
  /\ found' = [found EXCEPT ![r] = {}]

Proceed(r, step) ==
  /\ pc' = [pc EXCEPT ![r] = step]
  /\ UNCHANGED <<pos, outcome>>

Convert(r) ==
  /\ pc[r] = "convert"
  /\ \/ Item(r).flaw = "malformed" /\ Settle(r, "error", "malformed")
     \/ Item(r).flaw = "pii" /\ Settle(r, "rejected", "pii_blocked")
     \/ /\ Item(r).flaw \notin {"malformed", "pii"}
        /\ Proceed(r, "conflict")
        /\ UNCHANGED found
  /\ UNCHANGED <<repos, params, seen, history>>

\* Facts of the repository, whatever their status, that give the slot
\* another value.
Conflicts(item) ==
  {i \in Stored : facts[i].slot = item.slot /\ facts[i].value # item.value}

\* What the query of ConflictPolicy returns; only facts are checked.
Found(item) == IF item.kind = "fact" THEN Conflicts(item) ELSE {}

RejectConflict(r) ==
  /\ pc[r] = "conflict"
  /\ Found(Item(r)) # {}
  /\ \/ mode[r] = "strict" /\ Settle(r, "rejected", "fact_conflict")
     \/ mode[r] = "review" /\ Settle(r, "rejected", "requires_review")
  /\ UNCHANGED <<repos, params, seen, history>>

\* ConflictPolicy accepts; ConfidencePolicy, which is next and reads facts
\* only, does not.
RejectUnsure(r) ==
  /\ pc[r] = "conflict"
  /\ Found(Item(r)) = {} \/ mode[r] = "permissive"
  /\ Item(r).kind = "fact" /\ Item(r).flaw = "low_confidence"
  /\ Settle(r, "rejected", "low_confidence")
  /\ UNCHANGED <<repos, params, seen, history>>

\* A defect: a permissive conflict is not recorded.
PassUnrecorded(r) ==
  /\ pc[r] = "conflict"
  /\ Found(Item(r)) = {} \/ mode[r] = "permissive"
  /\ Proceed(r, "dedup")
  /\ UNCHANGED <<repos, params, found, seen, history>>

PassConflict(r) ==
  /\ pc[r] = "conflict"
  /\ Found(Item(r)) = {} \/ mode[r] = "permissive"
  /\ ~(Item(r).kind = "fact" /\ Item(r).flaw = "low_confidence")
  /\ found' = [found EXCEPT ![r] = Found(Item(r))]
  /\ Proceed(r, "dedup")
  /\ UNCHANGED <<repos, params, seen, history>>

Duplicates(item) ==
  {i \in Stored : facts[i].slot = item.slot /\ facts[i].value = item.value}

DedupFact(r) ==
  LET item == Item(r) IN
  /\ pc[r] = "dedup" /\ item.kind = "fact"
  /\ \/ Duplicates(item) # {} /\ Settle(r, "rejected", "duplicate_fact")
     \/ Duplicates(item) = {} /\ Proceed(r, "save") /\ UNCHANGED found
  /\ UNCHANGED <<repos, params, seen, history>>

\* The signature of the whole text is looked up among those of this batch
\* and among the keys of the vector repository, then remembered.
DedupNote(r) ==
  LET item == Item(r) IN
  /\ pc[r] = "dedup" /\ item.kind = "note"
  /\ \/ /\ item.text \in seen[r]
        /\ Settle(r, "rejected", "duplicate_in_batch")
        /\ UNCHANGED seen
     \/ /\ item.text \notin seen[r]
        /\ notes[item.text] # None
        /\ Settle(r, "rejected", "duplicate_in_repository")
        /\ UNCHANGED seen
     \/ /\ item.text \notin seen[r]
        /\ notes[item.text] = None
        /\ seen' = [seen EXCEPT ![r] = @ \cup {item.text}]
        /\ Proceed(r, "save") /\ UNCHANGED found
  /\ UNCHANGED <<repos, params, history>>

DedupOther(r) ==
  /\ pc[r] = "dedup" /\ Item(r).kind = "decision"
  /\ Proceed(r, "save")
  /\ UNCHANGED <<repos, params, found, seen, history>>

\* A defect: a dry run reports what it did not save.
SkipSaveAsSaved(r) ==
  /\ pc[r] = "save" /\ dry[r]
  /\ Settle(r, "saved", "none")
  /\ UNCHANGED <<repos, params, seen, history>>

SkipSave(r) ==
  /\ pc[r] = "save" /\ dry[r]
  /\ Settle(r, "accepted", "none")
  /\ UNCHANGED <<repos, params, seen, history>>

\* GraphRepo.save_fact replaces whatever the id held; a permissive conflict
\* is recorded in the fact that is written.
SaveFact(r) ==
  LET item == Item(r) IN
  /\ pc[r] = "save" /\ ~dry[r] /\ item.kind = "fact"
  /\ facts' = [facts EXCEPT ![item.id] =
       [slot |-> item.slot, value |-> item.value, conflicts |-> found[r]]]
  /\ writer' = [writer EXCEPT ![item.id] = r]
  /\ Settle(r, "saved", "none")
  /\ UNCHANGED <<notes, decisions, params, seen, overlap>>

SaveNote(r) ==
  LET item == Item(r) IN
  /\ pc[r] = "save" /\ ~dry[r] /\ item.kind = "note"
  /\ notes' = [notes EXCEPT ![item.key] = IF @ = None THEN item.id ELSE @]
  /\ Settle(r, "saved", "none")
  /\ UNCHANGED <<facts, decisions, params, seen, history>>

SaveDecision(r) ==
  LET item == Item(r) IN
  /\ pc[r] = "save" /\ ~dry[r] /\ item.kind = "decision"
  /\ IF HasDecisionRepo
     THEN decisions' = decisions \cup {item.id} /\ Settle(r, "saved", "none")
     ELSE UNCHANGED decisions /\ Settle(r, "error", "no_repository")
  /\ UNCHANGED <<facts, notes, params, seen, history>>

Step(r) ==
  \/ Convert(r)
  \/ RejectConflict(r) \/ RejectUnsure(r) \/ PassConflict(r)
  \/ DedupFact(r) \/ DedupNote(r) \/ DedupOther(r)
  \/ SkipSave(r)
  \/ SaveFact(r) \/ SaveNote(r) \/ SaveDecision(r)

Next == \E r \in Requests : Step(r) \/ \E b \in Batches : Begin(r, b)

Spec == Init /\ [][Next]_vars

-------------------------------------------------------------------------------
(* Properties.                                                             *)

Contradict(i, j) ==
  facts[i].slot = facts[j].slot /\ facts[i].value # facts[j].value

SameFact(i, j) ==
  facts[i].slot = facts[j].slot /\ facts[i].value = facts[j].value

\* Dedup: no fact is stored under two identifiers (memory_policies.py:223).
NoDuplicateFacts ==
  \A i, j \in Stored : i # j => ~SameFact(i, j)

\* Strict and review modes keep the store free of contradictions
\* (README.md:79-80): facts about the same slot agree.
NoContradictions ==
  \A i, j \in Stored : ~Contradict(i, j)

\* Permissive mode lets a contradiction in, but never unseen: the fact that
\* came later names the other in meta.conflict (README.md:78).
Recorded(i, j) ==
  /\ i \in facts[j].conflicts
  /\ mode[writer[j]] = "permissive"

\* A stored duplicate, a contradiction that no fact records or one that a
\* strict or review request let in can only come from two requests that were
\* active together: the checks never miss what a request had stored before,
\* nor what the same request stored under an earlier item, also when
\* identifiers are written again with another slot or value.
AnomaliesNeedOverlap ==
  \A i, j \in Stored :
    i # j /\ <<writer[i], writer[j]>> \notin overlap =>
      /\ ~SameFact(i, j)
      /\ Contradict(i, j) => Recorded(i, j) \/ Recorded(j, i)

\* Each item of an answered request has one fate, and it is the fate of that
\* item: what is reported saved is held under its identifier or text, what is
\* reported as a duplicate within the batch follows an item with that text
\* that was written, and a dry run reports nothing as saved.
HandledNotes(r, k) ==
  {l \in 1..(k - 1) : batch[r][l].kind = "note" /\ batch[r][l].text = batch[r][k].text}

FatesTruthful ==
  \A r \in Requests :
    /\ pc[r] = "done" => Len(outcome[r]) = Len(batch[r])
    /\ \A k \in 1..Len(outcome[r]) :
         LET item == batch[r][k]
             fate == outcome[r][k]
         IN  /\ fate.status = "saved" => ~dry[r]
             /\ fate.status = "saved" /\ item.kind = "fact" => item.id \in Stored
             /\ fate.status = "saved" /\ item.kind = "note" => notes[item.key] # None
             /\ fate.status = "saved" /\ item.kind = "decision" => item.id \in decisions
             /\ fate.reason = "duplicate_in_batch" =>
                  \E l \in HandledNotes(r, k) :
                    outcome[r][l].status \in {"saved", "accepted"}
==============================================================================
