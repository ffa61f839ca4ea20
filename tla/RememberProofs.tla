--------------------------- MODULE RememberProofs ---------------------------
(***************************************************************************)
(* What the writeback pipeline and the endpoint around it guarantee for    *)
(* every set of requests, items and identifiers: the first part is about   *)
(* Writeback alone, the second about Remember.                             *)
(*                                                                         *)
(* Of the pipeline: an anomaly in the store comes from requests that       *)
(* overlapped, none comes with one worker, and what a request reports of   *)
(* an item is true and stays true.                                         *)
(*                                                                         *)
(* Of the endpoint: auditing a write changes nothing of it, an audit that  *)
(* fails has a cause among those LossExplained lists, and what the tables  *)
(* say of a request and of the store is true.                              *)
(***************************************************************************)
EXTENDS Remember, FiniteSetTheorems, WellFoundedInduction, TLAPS

-------------------------------------------------------------------------------
(* The pipeline: types.                                                    *)

\* A request that is being handled is at one of its items, one that has not
\* begun at the first.
AtItem ==
  /\ \A r \in Active : pos[r] \in 1..Len(batch[r])
  /\ \A r \in Requests : pc[r] = "new" => pos[r] = 1

Typed == TypeOK /\ AtItem

LEMMA ItemTyped ==
  ASSUME Typed, NEW r \in Active
  PROVE  /\ Item(r) \in Items
         /\ Item(r).kind = "fact" => Item(r) \in Facts
         /\ Item(r).kind = "note" => Item(r) \in Notes
         /\ Item(r).kind = "decision" => Item(r) \in Decisions
<1>0. <<>> \in Seq(Items)
  OBVIOUS
<1>1. batch[r] \in Seq(Items)
  BY <1>0, WritebackConstants DEF Typed, TypeOK, Active
<1>2. Item(r) \in Items
  BY <1>1 DEF Typed, AtItem, Item
<1> QED BY <1>2 DEF Items, Facts, Notes, Decisions

LEMMA SettleTyped ==
  ASSUME Typed, NEW r \in Active, NEW status, NEW reason,
         [status |-> status, reason |-> reason] \in Fates,
         Settle(r, status, reason), UNCHANGED batch
  PROVE  /\ outcome' \in [Requests -> Seq(Fates)]
         /\ pos' \in [Requests -> Nat]
         /\ found' \in [Requests -> SUBSET Ids]
         /\ pc' \in [Requests -> {"new", "convert", "conflict", "dedup", "save", "done"}]
         /\ AtItem'
<1> USE DEF Typed, TypeOK
<1>1. r \in Requests
  BY DEF Active
<1>2. Append(outcome[r], [status |-> status, reason |-> reason]) \in Seq(Fates)
  BY <1>1
<1>3. outcome' \in [Requests -> Seq(Fates)]
  BY <1>1, <1>2 DEF Settle
<1>4. /\ pos' \in [Requests -> Nat]
      /\ found' \in [Requests -> SUBSET Ids]
      /\ pc' \in [Requests -> {"new", "convert", "conflict", "dedup", "save", "done"}]
  BY <1>1 DEF Settle
<1>5. AtItem'
  <2>0. \A q \in Requests : pc'[q] = "new" => pos'[q] = 1
    BY <1>1 DEF Active, AtItem, Settle
  <2>1. SUFFICES ASSUME NEW q \in Active' PROVE pos'[q] \in 1..Len(batch[q])
    BY <2>0 DEF AtItem
  <2>2. CASE q = r
    <3>1. pc'[r] = "convert" /\ pos[r] # Len(batch[r]) /\ pos'[r] = pos[r] + 1
      BY <1>1, <2>1, <2>2 DEF Active, Settle
    <3>2. pos[r] \in 1..Len(batch[r]) /\ Len(batch[r]) \in Nat
      BY <1>1, WritebackConstants DEF AtItem
    <3> QED BY <2>2, <3>1, <3>2
  <2>3. CASE q # r
    BY <1>1, <2>1, <2>3 DEF Active, AtItem, Settle
  <2> QED BY <2>2, <2>3
<1> QED BY <1>3, <1>4, <1>5

LEMMA ProceedTyped ==
  ASSUME Typed, NEW r \in Active, NEW step \in {"conflict", "dedup", "save"},
         Proceed(r, step), UNCHANGED batch
  PROVE  /\ pc' \in [Requests -> {"new", "convert", "conflict", "dedup", "save", "done"}]
         /\ UNCHANGED <<pos, outcome>>
         /\ AtItem'
BY DEF Typed, TypeOK, Proceed, AtItem, Active

LEMMA BeginTyped ==
  ASSUME Typed, NEW r \in Requests, NEW b \in Batches, Begin(r, b)
  PROVE  Typed'
<1> USE DEF Typed, TypeOK
<1>1. batch' \in [Requests -> Batches \cup {<<>>}]
  BY DEF Begin
<1>2. pc' \in [Requests -> {"new", "convert", "conflict", "dedup", "save", "done"}]
  BY DEF Begin
<1>3. overlap' \subseteq Requests \X Requests
  BY DEF Begin, Active
<1>4. AtItem'
  <2>1. batch'[r] = b /\ pos[r] = 1 /\ pos' = pos
    BY DEF Begin, AtItem
  <2>2. b # <<>> => 1 \in 1..Len(b)
    BY WritebackConstants
  <2>3. \A q \in Requests : q # r => pc'[q] = pc[q] /\ batch'[q] = batch[q]
    BY DEF Begin
  <2>4. pc'[r] = IF b = <<>> THEN "done" ELSE "convert"
    BY DEF Begin
  <2> QED BY <2>1, <2>2, <2>3, <2>4 DEF AtItem, Active
<1> QED BY <1>1, <1>2, <1>3, <1>4 DEF Begin, repos

LEMMA StepTyped ==
  ASSUME Typed, NEW r \in Requests, Step(r)
  PROVE  Typed'
<1>0. r \in Active /\ batch' = batch
  BY DEF Step, Active, Convert, RejectConflict, RejectUnsure, PassConflict,
         DedupFact, DedupNote, DedupOther, SkipSave, SaveFact, SaveNote,
         SaveDecision, params
<1>1. ASSUME NEW status, NEW reason,
             [status |-> status, reason |-> reason] \in Fates,
             Settle(r, status, reason), UNCHANGED <<repos, params, seen, history>>
      PROVE  Typed'
  BY <1>0, <1>1, SettleTyped DEF Typed, TypeOK, repos, params, history
<1>2. ASSUME NEW step \in {"conflict", "dedup", "save"},
             Proceed(r, step), found' \in [Requests -> SUBSET Ids],
             UNCHANGED <<repos, params, seen, history>>
      PROVE  Typed'
  BY <1>0, <1>2, ProceedTyped DEF Typed, TypeOK, repos, params, history
<1>3. CASE Convert(r)
  <2>1. /\ [status |-> "error", reason |-> "malformed"] \in Fates
        /\ [status |-> "rejected", reason |-> "pii_blocked"] \in Fates
    BY DEF Fates, Reasons
  <2>2. found \in [Requests -> SUBSET Ids]
    BY DEF Typed, TypeOK
  <2> QED BY <1>1, <1>2, <1>3, <2>1, <2>2 DEF Convert
<1>4. CASE RejectConflict(r)
  <2>1. /\ [status |-> "rejected", reason |-> "fact_conflict"] \in Fates
        /\ [status |-> "rejected", reason |-> "requires_review"] \in Fates
    BY DEF Fates, Reasons
  <2> QED BY <1>1, <1>4, <2>1 DEF RejectConflict
<1>5. CASE RejectUnsure(r)
  <2>1. [status |-> "rejected", reason |-> "low_confidence"] \in Fates
    BY DEF Fates, Reasons
  <2> QED BY <1>1, <1>5, <2>1 DEF RejectUnsure
<1>6. CASE PassConflict(r)
  <2>1. Found(Item(r)) \subseteq Ids
    BY DEF Found, Conflicts, Stored
  <2>2. found' \in [Requests -> SUBSET Ids]
    BY <1>6, <2>1 DEF PassConflict, Typed, TypeOK
  <2> QED BY <1>2, <1>6, <2>2 DEF PassConflict
<1>7. CASE DedupFact(r)
  <2>1. [status |-> "rejected", reason |-> "duplicate_fact"] \in Fates
    BY DEF Fates, Reasons
  <2>2. found \in [Requests -> SUBSET Ids]
    BY DEF Typed, TypeOK
  <2> QED BY <1>1, <1>2, <1>7, <2>1, <2>2 DEF DedupFact
<1>8. CASE DedupNote(r)
  <2>1. /\ [status |-> "rejected", reason |-> "duplicate_in_batch"] \in Fates
        /\ [status |-> "rejected", reason |-> "duplicate_in_repository"] \in Fates
    BY DEF Fates, Reasons
  <2>2. found \in [Requests -> SUBSET Ids]
    BY DEF Typed, TypeOK
  <2>3. CASE UNCHANGED seen
    BY <1>1, <1>2, <1>8, <2>1, <2>2, <2>3 DEF DedupNote
  <2>4. CASE /\ seen' = [seen EXCEPT ![r] = @ \cup {Item(r).text}]
             /\ Proceed(r, "save")
             /\ UNCHANGED found
    <3>1. Item(r).text \in Texts
      BY <1>0, <1>8, ItemTyped DEF DedupNote, Notes
    <3>2. seen' \in [Requests -> SUBSET Texts]
      BY <2>4, <3>1 DEF Typed, TypeOK
    <3>3. UNCHANGED <<repos, params, history>> /\ UNCHANGED found
      BY <1>8, <2>4 DEF DedupNote
    <3> QED BY <1>0, <2>2, <2>4, <3>2, <3>3, ProceedTyped
            DEF Typed, TypeOK, repos, params, history
  <2> QED BY <1>8, <2>3, <2>4 DEF DedupNote
<1>9. CASE DedupOther(r)
  <2>1. found' \in [Requests -> SUBSET Ids]
    BY <1>9 DEF DedupOther, Typed, TypeOK
  <2> QED BY <1>2, <1>9, <2>1 DEF DedupOther
<1>10. CASE SkipSave(r)
  <2>1. [status |-> "accepted", reason |-> "none"] \in Fates
    BY DEF Fates
  <2> QED BY <1>1, <1>10, <2>1 DEF SkipSave
<1>11. CASE SaveFact(r)
  <2>1. [status |-> "saved", reason |-> "none"] \in Fates
    BY DEF Fates
  <2>2. Item(r) \in Facts
    BY <1>0, <1>11, ItemTyped DEF SaveFact
  <2>3. [slot |-> Item(r).slot, value |-> Item(r).value, conflicts |-> found[r]]
           \in StoredFacts
    BY <2>2 DEF Facts, StoredFacts, Typed, TypeOK
  <2>4. facts' \in [Ids -> StoredFacts \cup {None}]
    BY <1>11, <2>3 DEF SaveFact, Typed, TypeOK
  <2>5. writer' \in [Ids -> Requests \cup {None}]
    BY <1>11 DEF SaveFact, Typed, TypeOK
  <2> QED BY <1>0, <1>11, <2>1, <2>4, <2>5, SettleTyped
          DEF SaveFact, Typed, TypeOK, params
<1>12. CASE SaveNote(r)
  <2>1. [status |-> "saved", reason |-> "none"] \in Fates
    BY DEF Fates
  <2>2. Item(r) \in Notes
    BY <1>0, <1>12, ItemTyped DEF SaveNote
  <2>3. notes' \in [Texts -> Ids \cup {None}]
    BY <1>12, <2>2 DEF SaveNote, Notes, Typed, TypeOK
  <2> QED BY <1>0, <1>12, <2>1, <2>3, SettleTyped
          DEF SaveNote, Typed, TypeOK, params, history
<1>13. CASE SaveDecision(r)
  <2>1. /\ [status |-> "saved", reason |-> "none"] \in Fates
        /\ [status |-> "error", reason |-> "no_repository"] \in Fates
    BY DEF Fates, Reasons
  <2>2. Item(r) \in Decisions
    BY <1>0, <1>13, ItemTyped DEF SaveDecision
  <2>3. decisions' \subseteq Ids
    BY <1>13, <2>2 DEF SaveDecision, Decisions, Typed, TypeOK
  <2> QED BY <1>0, <1>13, <2>1, <2>3, SettleTyped
          DEF SaveDecision, Typed, TypeOK, params, history
<1> QED BY <1>3, <1>4, <1>5, <1>6, <1>7, <1>8, <1>9, <1>10, <1>11, <1>12, <1>13
        DEF Step

LEMMA TypedInit == Init => Typed
<1> SUFFICES ASSUME Init PROVE Typed
  OBVIOUS
<1>1. TypeOK
  BY DEF Init, TypeOK
<1>2. AtItem
  BY DEF Init, AtItem, Active
<1> QED BY <1>1, <1>2 DEF Typed

LEMMA TypedNext ==
  ASSUME Typed, [Next]_vars
  PROVE  Typed'
<1>1. CASE Next
  BY <1>1, BeginTyped, StepTyped DEF Next
<1>2. CASE UNCHANGED vars
  BY <1>2 DEF vars, repos, params, history, Typed, TypeOK, AtItem, Active
<1> QED BY <1>1, <1>2

\* Repositories and requests keep their types for any number of workers.
THEOREM WritebackTypeCorrect == Spec => []TypeOK
<1>1. Init => Typed
  BY TypedInit
<1>2. Typed /\ [Next]_vars => Typed'
  BY TypedNext
<1>3. Typed => TypeOK
  BY DEF Typed
<1> QED BY <1>1, <1>2, <1>3, PTL DEF Spec

-------------------------------------------------------------------------------
(* Anomalies.  The property is not inductive: a request that has passed    *)
(* its checks writes on their strength.  The invariant says what such a    *)
(* request still knows when it writes: each fact that disagrees with its   *)
(* item is in found or was written by a request it overlapped, and each    *)
(* fact equal to its item was.  It survives the saves of other requests    *)
(* because requests that are active together are in overlap.               *)

OverlapKnown ==
  /\ \A r, q \in Active : r # q => <<r, q>> \in overlap
  /\ \A r, q \in Requests : <<r, q>> \in overlap => <<q, r>> \in overlap

Written == \A i \in Stored : writer[i] \in Requests

Together(i, r) == <<writer[i], r>> \in overlap

Knows(r) ==
  Item(r).kind = "fact" =>
    /\ pc[r] \in {"dedup", "save"} =>
         /\ \A i \in Conflicts(Item(r)) : i \in found[r] \/ Together(i, r)
         /\ found[r] # {} => mode[r] = "permissive"
    /\ pc[r] = "save" => \A i \in Duplicates(Item(r)) : Together(i, r)

Checked == \A r \in Active : Knows(r)

Inv == Typed /\ OverlapKnown /\ Written /\ Checked /\ AnomaliesNeedOverlap

\* What the invariant says of stored facts depends on these alone.
LEMMA StoreUnchanged ==
  ASSUME Inv, UNCHANGED <<facts, writer, mode>>, overlap \subseteq overlap'
  PROVE  Written' /\ AnomaliesNeedOverlap'
BY DEF Inv, Written, AnomaliesNeedOverlap, SameFact, Contradict, Recorded, Stored

LEMMA BeginInv ==
  ASSUME Inv, NEW r \in Requests, NEW b \in Batches, Begin(r, b)
  PROVE  Inv'
<1> USE DEF Inv
<1>1. Typed'
  BY BeginTyped
<1>2. /\ r \notin Active /\ Active \subseteq Requests
      /\ Active' \subseteq Active \cup {r}
      /\ overlap \subseteq overlap'
      /\ overlap' = overlap \cup (Active \X {r}) \cup ({r} \X Active)
      /\ UNCHANGED <<facts, writer, mode, found>>
  BY DEF Begin, Active, Typed, TypeOK, repos
<1>3. OverlapKnown'
  BY <1>2 DEF OverlapKnown
<1>4. ASSUME NEW q \in Active' PROVE Knows(q)'
  <2>1. CASE q = r
    <3>1. pc'[r] \notin {"dedup", "save"}
      BY DEF Begin, Typed, TypeOK
    <3> QED BY <2>1, <3>1 DEF Knows
  <2>2. CASE q # r
    <3>1. q \in Active /\ pc'[q] = pc[q] /\ Item(q)' = Item(q)
      BY <1>2, <1>4, <2>2 DEF Begin, Typed, TypeOK, Item, Active
    <3>2. Knows(q)
      BY <3>1 DEF Checked
    <3> QED BY <1>2, <3>1, <3>2 DEF Knows, Together, Conflicts, Duplicates, Stored
  <2> QED BY <2>1, <2>2
<1>5. Written' /\ AnomaliesNeedOverlap'
  BY <1>2, StoreUnchanged
<1> QED BY <1>1, <1>3, <1>4, <1>5 DEF Checked

\* A step of r that changes no fact leaves what the others know.
LEMMA OthersKnow ==
  ASSUME Inv, NEW r \in Active, NEW q \in Active, q # r,
         UNCHANGED <<facts, writer, mode, overlap, batch>>,
         pc'[q] = pc[q], pos'[q] = pos[q], found'[q] = found[q]
  PROVE  Knows(q)'
<1>1. Knows(q) /\ Item(q)' = Item(q)
  BY DEF Inv, Checked, Item
<1> QED BY <1>1 DEF Knows, Together, Conflicts, Duplicates, Stored

\* Settling an item leaves r nothing to know and the others where they were.
LEMMA SettleOthers ==
  ASSUME Typed, NEW r \in Active, NEW status, NEW reason, Settle(r, status, reason)
  PROVE  /\ pc'[r] \in {"done", "convert"}
         /\ Active' \subseteq Active
         /\ \A q \in Requests \ {r} :
              pc'[q] = pc[q] /\ pos'[q] = pos[q] /\ found'[q] = found[q]
BY DEF Typed, TypeOK, Active, Settle

LEMMA SettleInv ==
  ASSUME Inv, Typed', NEW r \in Active, NEW status, NEW reason,
         Settle(r, status, reason),
         UNCHANGED <<facts, writer, mode, overlap, batch>>
  PROVE  Inv'
<1> USE DEF Inv
<1>1. /\ pc'[r] \in {"done", "convert"}
      /\ Active' \subseteq Active /\ Active \subseteq Requests
      /\ \A q \in Requests \ {r} :
           pc'[q] = pc[q] /\ pos'[q] = pos[q] /\ found'[q] = found[q]
  BY SettleOthers DEF Active
<1>2. OverlapKnown'
  BY <1>1 DEF OverlapKnown
<1>3. ASSUME NEW q \in Active' PROVE Knows(q)'
  BY <1>1, <1>3, OthersKnow DEF Knows
<1> QED BY <1>2, <1>3, StoreUnchanged DEF Checked

LEMMA ProceedInv ==
  ASSUME Inv, Typed', NEW r \in Active, NEW step \in {"conflict", "dedup", "save"},
         Proceed(r, step), UNCHANGED <<facts, writer, mode, overlap, batch>>,
         \A q \in Requests \ {r} : found'[q] = found[q],
         Knows(r)'
  PROVE  Inv'
<1> USE DEF Inv
<1>1. /\ Active' = Active /\ Active \subseteq Requests
      /\ \A q \in Requests \ {r} : pc'[q] = pc[q] /\ pos'[q] = pos[q]
  BY DEF Proceed, Active, Typed, TypeOK
<1>2. OverlapKnown'
  BY <1>1 DEF OverlapKnown
<1>3. ASSUME NEW q \in Active' PROVE Knows(q)'
  BY <1>1, <1>3, OthersKnow
<1> QED BY <1>2, <1>3, StoreUnchanged DEF Checked

\* The fact that is saved disagrees, unrecorded, only with facts of requests
\* that overlapped, and becomes known to those that are still to write.
LEMMA SaveFactInv ==
  ASSUME Inv, Typed', NEW r \in Active, SaveFact(r)
  PROVE  Inv'
<1> DEFINE item == Item(r)
           new == [slot |-> item.slot, value |-> item.value, conflicts |-> found[r]]
<1> USE DEF Inv
<1>0. /\ item \in Facts /\ item.kind = "fact" /\ item.id \in Ids
      /\ r \in Requests /\ Active \subseteq Requests
      /\ pc[r] = "save"
  BY ItemTyped DEF SaveFact, Facts, Active
<1>1. /\ facts' = [facts EXCEPT ![item.id] = new]
      /\ writer' = [writer EXCEPT ![item.id] = r]
      /\ UNCHANGED <<mode, overlap, batch>>
  BY DEF SaveFact, params
<1>2. /\ pc'[r] \in {"done", "convert"}
      /\ Active' \subseteq Active
      /\ \A q \in Requests \ {r} :
           pc'[q] = pc[q] /\ pos'[q] = pos[q] /\ found'[q] = found[q]
  BY SettleOthers DEF SaveFact
<1>3. /\ facts'[item.id].slot = item.slot
      /\ facts'[item.id].value = item.value
      /\ facts'[item.id].conflicts = found[r]
      /\ writer'[item.id] = r
      /\ \A j \in Ids \ {item.id} : facts'[j] = facts[j] /\ writer'[j] = writer[j]
  BY <1>0, <1>1 DEF Typed, TypeOK
<1>4. \A j \in Stored' \ {item.id} : j \in Stored
  BY <1>3 DEF Stored
<1>5. OverlapKnown'
  BY <1>1, <1>2 DEF OverlapKnown
<1>6. Written'
  BY <1>0, <1>3, <1>4 DEF Written, Stored
<1>7. ASSUME NEW q \in Active' PROVE Knows(q)'
  <2>1. CASE q = r
    BY <1>2, <2>1 DEF Knows
  <2>2. CASE q # r
    <3>1. q \in Active /\ q \in Requests /\ Item(q)' = Item(q)
      BY <1>0, <1>1, <1>2, <1>7, <2>2 DEF Item
    <3>2. Knows(q) /\ <<r, q>> \in overlap
      BY <2>2, <3>1 DEF Checked, OverlapKnown
    <3>3. pc'[q] = pc[q] /\ found'[q] = found[q]
      BY <1>2, <2>2, <3>1
    <3>4. <<writer'[item.id], q>> \in overlap'
      BY <1>1, <1>3, <3>2
    <3>5. ASSUME NEW i \in Conflicts(Item(q))', i # item.id
          PROVE  i \in Conflicts(Item(q)) /\ (Together(i, q) => Together(i, q)')
      BY <1>1, <1>3, <1>4, <3>1, <3>5 DEF Conflicts, Together, Stored
    <3>6. ASSUME NEW i \in Duplicates(Item(q))', i # item.id
          PROVE  i \in Duplicates(Item(q)) /\ (Together(i, q) => Together(i, q)')
      BY <1>1, <1>3, <1>4, <3>1, <3>6 DEF Duplicates, Together, Stored
    <3> QED BY <1>1, <3>1, <3>2, <3>3, <3>4, <3>5, <3>6 DEF Knows, Together
  <2> QED BY <2>1, <2>2
<1>8. ASSUME NEW j \in Stored', j # item.id, ~Together(j, r)
      PROVE  /\ ~(facts[j].slot = item.slot /\ facts[j].value = item.value)
             /\ facts[j].slot = item.slot => j \in found[r] /\ mode[r] = "permissive"
  <2>1. j \in Stored /\ Knows(r)
    BY <1>4, <1>8 DEF Checked
  <2>2. j \notin Duplicates(item)
    BY <1>0, <1>8, <2>1 DEF Knows
  <2>3. j \in Conflicts(item) => j \in found[r] /\ mode[r] = "permissive"
    BY <1>0, <1>8, <2>1 DEF Knows
  <2> QED BY <2>1, <2>2, <2>3 DEF Conflicts, Duplicates
<1>9. AnomaliesNeedOverlap'
  <2>1. SUFFICES ASSUME NEW i \in Stored', NEW j \in Stored', i # j,
                        <<writer'[i], writer'[j]>> \notin overlap
                 PROVE  /\ ~SameFact(i, j)'
                        /\ Contradict(i, j)' => Recorded(i, j)' \/ Recorded(j, i)'
    BY <1>1 DEF AnomaliesNeedOverlap
  <2>2. CASE i = item.id
    <3>1. j \in Stored /\ writer[j] \in Requests
      BY <1>4, <2>1, <2>2 DEF Written
    <3>2. ~Together(j, r)
      BY <1>0, <1>3, <2>1, <2>2, <3>1 DEF Together, OverlapKnown, Stored
    <3> QED BY <1>1, <1>3, <1>8, <2>1, <2>2, <3>1, <3>2
            DEF SameFact, Contradict, Recorded, Stored
  <2>3. CASE j = item.id
    <3>1. i \in Stored /\ ~Together(i, r)
      BY <1>3, <1>4, <2>1, <2>3 DEF Together, Stored
    <3> QED BY <1>1, <1>3, <1>8, <2>1, <2>3, <3>1
            DEF SameFact, Contradict, Recorded, Stored
  <2>4. CASE i # item.id /\ j # item.id
    <3>1. /\ i \in Stored /\ j \in Stored
          /\ facts'[i] = facts[i] /\ facts'[j] = facts[j]
          /\ writer'[i] = writer[i] /\ writer'[j] = writer[j]
      BY <1>3, <1>4, <2>1, <2>4 DEF Stored
    <3> QED BY <1>1, <2>1, <3>1
            DEF AnomaliesNeedOverlap, SameFact, Contradict, Recorded
  <2> QED BY <2>2, <2>3, <2>4
<1> QED BY <1>5, <1>6, <1>7, <1>9 DEF Checked

LEMMA StepInv ==
  ASSUME Inv, NEW r \in Requests, Step(r)
  PROVE  Inv'
<1>0. /\ r \in Active /\ batch' = batch /\ mode' = mode
      /\ found \in [Requests -> SUBSET Ids]
      /\ pc \in [Requests -> {"new", "convert", "conflict", "dedup", "save", "done"}]
  BY DEF Step, Active, Convert, RejectConflict, RejectUnsure, PassConflict,
         DedupFact, DedupNote, DedupOther, SkipSave, SaveFact, SaveNote,
         SaveDecision, params, Inv, Typed, TypeOK
<1>1. Typed' /\ Knows(r)
  BY <1>0, StepTyped DEF Inv, Checked
<1>2. ASSUME NEW status, NEW reason, Settle(r, status, reason),
             UNCHANGED <<facts, writer, overlap>>
      PROVE  Inv'
  BY <1>0, <1>1, <1>2, SettleInv
<1>3. ASSUME NEW step \in {"conflict", "dedup", "save"}, Proceed(r, step),
             UNCHANGED <<facts, writer, overlap>>,
             \A q \in Requests \ {r} : found'[q] = found[q],
             Item(r).kind = "fact" =>
               /\ step \in {"dedup", "save"} =>
                    /\ \A i \in Conflicts(Item(r)) : i \in found'[r] \/ Together(i, r)
                    /\ found'[r] # {} => mode[r] = "permissive"
               /\ step = "save" => \A i \in Duplicates(Item(r)) : Together(i, r)
      PROVE  Inv'
  <2>1. pc'[r] = step /\ Item(r)' = Item(r)
    BY <1>0, <1>3 DEF Proceed, Item
  <2>2. Knows(r)'
    BY <1>0, <1>3, <2>1 DEF Knows, Together, Conflicts, Duplicates, Stored
  <2> QED BY <1>0, <1>1, <1>3, <2>2, ProceedInv
<1>4. CASE Convert(r)
  BY <1>2, <1>3, <1>4 DEF Convert, repos, history
<1>5. CASE RejectConflict(r)
  BY <1>2, <1>5 DEF RejectConflict, repos, history
<1>6. CASE RejectUnsure(r)
  BY <1>2, <1>6 DEF RejectUnsure, repos, history
<1>7. CASE PassConflict(r)
  <2>1. /\ found'[r] = Found(Item(r))
        /\ \A q \in Requests \ {r} : found'[q] = found[q]
        /\ found'[r] # {} => mode[r] = "permissive"
    BY <1>0, <1>7 DEF PassConflict
  <2> QED BY <1>3, <1>7, <2>1 DEF PassConflict, Found, repos, history
<1>8. CASE DedupFact(r)
  BY <1>1, <1>2, <1>3, <1>8 DEF DedupFact, Knows, repos, history
<1>9. CASE DedupNote(r)
  BY <1>2, <1>3, <1>9 DEF DedupNote, repos, history
<1>10. CASE DedupOther(r)
  BY <1>3, <1>10 DEF DedupOther, repos, history
<1>11. CASE SkipSave(r)
  BY <1>2, <1>11 DEF SkipSave, repos, history
<1>12. CASE SaveNote(r)
  BY <1>2, <1>12 DEF SaveNote, history
<1>13. CASE SaveDecision(r)
  BY <1>2, <1>13 DEF SaveDecision, history
<1>14. CASE SaveFact(r)
  BY <1>0, <1>1, <1>14, SaveFactInv
<1> QED BY <1>4, <1>5, <1>6, <1>7, <1>8, <1>9, <1>10, <1>11, <1>12, <1>13, <1>14
        DEF Step

LEMMA InvInit == Init => Inv
<1> SUFFICES ASSUME Init PROVE Inv
  OBVIOUS
<1>1. Active = {} /\ Stored = {} /\ overlap = {}
  BY DEF Init, Active, Stored
<1> QED BY <1>1, TypedInit
        DEF Inv, OverlapKnown, Written, Checked, AnomaliesNeedOverlap

LEMMA InvNext ==
  ASSUME Inv, [Next]_vars
  PROVE  Inv'
<1>1. ASSUME UNCHANGED vars PROVE Inv'
  <2>1. Typed'
    BY <1>1, TypedNext DEF Inv
  <2>2. Written' /\ AnomaliesNeedOverlap'
    BY <1>1, StoreUnchanged DEF vars, repos, params, history
  <2>3. OverlapKnown' /\ Checked'
    BY <1>1 DEF vars, repos, params, history, Inv, OverlapKnown, Checked, Knows,
                Together, Active, Item, Conflicts, Duplicates, Stored
  <2> QED BY <2>1, <2>2, <2>3 DEF Inv
<1> QED BY <1>1, BeginInv, StepInv DEF Next

\* Whatever requests carry, in whatever mode and however many run at once, a
\* stored duplicate and a contradiction that is not recorded by a permissive
\* request come from two requests that overlapped.
THEOREM AnomaliesOnlyFromOverlap == Spec => []AnomaliesNeedOverlap
<1>1. Inv => AnomaliesNeedOverlap
  BY DEF Inv
<1> QED BY <1>1, InvInit, InvNext, PTL DEF Spec

-------------------------------------------------------------------------------
(* One worker: no two requests overlap, and the anomalies are gone.        *)

LEMMA SerialNoOverlap ==
  ASSUME Workers = 1
  PROVE  Spec => [](overlap = {})
<1>1. Init => Typed /\ overlap = {}
  BY TypedInit DEF Init
<1>2. ASSUME Typed, overlap = {}, [Next]_vars PROVE overlap' = {}
  <2>1. ASSUME NEW r \in Requests, NEW b \in Batches, Begin(r, b)
        PROVE  overlap' = {}
    <3>1. IsFiniteSet(Active)
      BY FS_Subset, WritebackConstants DEF Active
    <3>2. Cardinality(Active) \in Nat /\ Cardinality(Active) < 1
      BY <2>1, <3>1, FS_CardinalityType DEF Begin
    <3>3. Active = {}
      BY <3>1, <3>2, FS_EmptySet
    <3> QED BY <1>2, <2>1, <3>3 DEF Begin
  <2>2. ASSUME NEW r \in Requests, Step(r) PROVE overlap' = overlap
    BY <2>2 DEF Step, Convert, RejectConflict, RejectUnsure, PassConflict,
         DedupFact, DedupNote, DedupOther, SkipSave, SaveFact, SaveNote,
         SaveDecision, history
  <2>3. UNCHANGED vars => overlap' = overlap
    BY DEF vars, history
  <2> QED BY <1>2, <2>1, <2>2, <2>3 DEF Next
<1>3. Typed /\ overlap = {} /\ [Next]_vars => (Typed /\ overlap = {})'
  BY <1>2, TypedNext
<1> QED BY <1>1, <1>3, PTL DEF Spec

\* Handled one at a time, requests never leave the same fact under two
\* identifiers.
THEOREM SerialNoDuplicateFacts ==
  ASSUME Workers = 1
  PROVE  Spec => []NoDuplicateFacts
<1>1. AnomaliesNeedOverlap /\ overlap = {} => NoDuplicateFacts
  BY DEF AnomaliesNeedOverlap, NoDuplicateFacts
<1> QED BY <1>1, AnomaliesOnlyFromOverlap, SerialNoOverlap, PTL

\* Handled one at a time, requests in strict or review mode never leave two
\* facts that disagree about a slot, whatever they carry and however
\* identifiers are reused.
THEOREM SerialNoContradictions ==
  ASSUME Workers = 1, "permissive" \notin Modes
  PROVE  Spec => []NoContradictions
<1>1. ASSUME Inv, overlap = {} PROVE NoContradictions
  <2>1. SUFFICES ASSUME NEW i \in Stored, NEW j \in Stored, Contradict(i, j)
                 PROVE  FALSE
    BY DEF NoContradictions
  <2>2. i # j
    BY <2>1 DEF Contradict
  <2>3. Recorded(i, j) \/ Recorded(j, i)
    BY <1>1, <2>1, <2>2 DEF Inv, AnomaliesNeedOverlap
  <2>4. mode[writer[i]] # "permissive" /\ mode[writer[j]] # "permissive"
    BY <1>1 DEF Inv, Written, Typed, TypeOK
  <2> QED BY <2>3, <2>4 DEF Recorded
<1>2. Spec => []Inv
  BY InvInit, InvNext, PTL DEF Spec
<1> QED BY <1>1, <1>2, SerialNoOverlap, PTL

-------------------------------------------------------------------------------
(* Fates.  As many items have a fate as were handled; a text that was seen *)
(* in the batch was written with an earlier item, or is about to be with   *)
(* the present one; and what is held stays held.                           *)

Progress ==
  \A r \in Requests :
    /\ Len(outcome[r]) = pos[r] - 1
    /\ pc[r] = "done" => pos[r] = Len(batch[r]) + 1

WrittenNote(r, l, t) ==
  /\ batch[r][l].kind = "note" /\ batch[r][l].text = t
  /\ outcome[r][l].status \in {"saved", "accepted"}

SeenWritten ==
  \A r \in Requests : \A t \in seen[r] :
    \/ \E l \in 1..Len(outcome[r]) : WrittenNote(r, l, t)
    \/ pc[r] = "save" /\ Item(r).kind = "note" /\ Item(r).text = t

Kept(item) ==
  /\ item.kind = "fact" => item.id \in Stored
  /\ item.kind = "note" => notes[item.key] # None
  /\ item.kind = "decision" => item.id \in decisions

FateHolds(r, k) ==
  /\ outcome[r][k].status = "saved" => ~dry[r] /\ Kept(batch[r][k])
  /\ outcome[r][k].reason = "duplicate_in_batch" =>
       \E l \in 1..(k - 1) : WrittenNote(r, l, batch[r][k].text)

FatesHold == \A r \in Requests : \A k \in 1..Len(outcome[r]) : FateHolds(r, k)

FateInv == Typed /\ Progress /\ SeenWritten /\ FatesHold

\* The repositories lose nothing.
Grow ==
  /\ Stored \subseteq Stored' /\ decisions \subseteq decisions'
  /\ \A t \in Texts : notes[t] # None => notes'[t] # None

LEMMA HandledTyped ==
  ASSUME FateInv, NEW r \in Requests, NEW k \in 1..Len(outcome[r])
  PROVE  batch[r][k] \in Items /\ k \in 1..Len(batch[r]) /\ k \in Nat
<1>0. <<>> \in Seq(Items)
  OBVIOUS
<1>1. batch[r] \in Seq(Items) /\ pos[r] \in Nat /\ outcome[r] \in Seq(Fates)
  BY <1>0, WritebackConstants DEF FateInv, Typed, TypeOK
<1>2. Len(outcome[r]) = pos[r] - 1 /\ (pc[r] = "done" => pos[r] = Len(batch[r]) + 1)
  BY DEF FateInv, Progress
<1>3. k \in 1..Len(batch[r])
  <2>1. CASE pc[r] = "new"
    BY <1>2, <2>1 DEF FateInv, Typed, AtItem
  <2>2. CASE pc[r] = "done"
    BY <1>1, <1>2, <2>2
  <2>3. CASE pc[r] \notin {"new", "done"}
    <3>1. pos[r] \in 1..Len(batch[r])
      BY <2>3 DEF FateInv, Typed, AtItem, Active
    <3> QED BY <1>1, <1>2, <3>1
  <2> QED BY <2>1, <2>2, <2>3
<1> QED BY <1>1, <1>3

LEMMA KeptStays ==
  ASSUME NEW item \in Items, Kept(item), Grow
  PROVE  Kept(item)'
<1>1. item.kind = "note" => item.key \in Texts
  BY DEF Items, Facts, Notes, Decisions
<1> QED BY <1>1 DEF Kept, Grow

\* The fate of an item does not change when the request goes on.
LEMMA FateStays ==
  ASSUME FateInv, Grow, NEW r \in Requests, NEW k \in 1..Len(outcome[r]),
         batch'[r] = batch[r], dry'[r] = dry[r],
         \A l \in 1..Len(outcome[r]) : outcome'[r][l] = outcome[r][l]
  PROVE  FateHolds(r, k)'
<1>1. FateHolds(r, k) /\ batch[r][k] \in Items /\ k \in Nat /\ Len(outcome[r]) \in Nat
  <2>1. FateHolds(r, k)
    BY DEF FateInv, FatesHold
  <2>2. outcome[r] \in Seq(Fates)
    BY DEF FateInv, Typed, TypeOK
  <2> QED BY <2>1, <2>2, HandledTyped
<1>2. \A l \in 1..(k - 1) : l \in 1..Len(outcome[r])
  BY <1>1
<1>3. Kept(batch[r][k]) => Kept(batch[r][k])'
  BY <1>1, KeptStays
<1>4. outcome'[r][k].status = "saved" => ~dry'[r] /\ Kept(batch[r][k])'
  BY <1>1, <1>3 DEF FateHolds
<1>5. \A l \in 1..(k - 1) : WrittenNote(r, l, batch[r][k].text) => WrittenNote(r, l, batch[r][k].text)'
  BY <1>2 DEF WrittenNote
<1> QED BY <1>1, <1>4, <1>5 DEF FateHolds

\* What a request has written stays written.
LEMMA WrittenStays ==
  ASSUME NEW r \in Requests, NEW l, NEW t, WrittenNote(r, l, t),
         batch'[r] = batch[r], outcome'[r][l] = outcome[r][l]
  PROVE  WrittenNote(r, l, t)'
BY DEF WrittenNote

\* An item is settled with a fate that is true of it.
LEMMA SettleFates ==
  ASSUME FateInv, Grow, NEW r \in Active, NEW status, NEW reason,
         [status |-> status, reason |-> reason] \in Fates,
         Settle(r, status, reason), UNCHANGED <<batch, dry, seen>>,
         NEW item, item = Item(r),
         status = "saved" => ~dry[r] /\ Kept(item)',
         reason = "duplicate_in_batch" => item.text \in seen[r] /\ pc[r] # "save",
         pc[r] = "save" /\ item.kind = "note" => status \in {"saved", "accepted"}
  PROVE  Progress' /\ SeenWritten' /\ FatesHold'
<1> DEFINE fate == [status |-> status, reason |-> reason]
<1>1. /\ r \in Requests /\ pos[r] \in 1..Len(batch[r]) /\ Len(batch[r]) \in Nat
      /\ outcome[r] \in Seq(Fates) /\ Len(outcome[r]) \in Nat
      /\ Len(outcome[r]) = pos[r] - 1
  <2>0. <<>> \in Seq(Items)
    OBVIOUS
  <2> QED BY <2>0, WritebackConstants DEF FateInv, Typed, TypeOK, AtItem, Active, Progress
<1>2. /\ outcome'[r] = Append(outcome[r], fate)
      /\ pos'[r] = pos[r] + 1
      /\ pc'[r] = IF pos[r] = Len(batch[r]) THEN "done" ELSE "convert"
      /\ \A q \in Requests : q # r =>
           outcome'[q] = outcome[q] /\ pos'[q] = pos[q] /\ pc'[q] = pc[q]
  BY <1>1 DEF Settle, FateInv, Typed, TypeOK
<1>3. /\ Len(outcome'[r]) = pos[r] /\ outcome'[r][pos[r]] = fate
      /\ \A l \in 1..Len(outcome[r]) : outcome'[r][l] = outcome[r][l]
  BY <1>1, <1>2
<1>4. Progress'
  <2> SUFFICES ASSUME NEW q \in Requests
               PROVE  /\ Len(outcome'[q]) = pos'[q] - 1
                      /\ pc'[q] = "done" => pos'[q] = Len(batch'[q]) + 1
    BY DEF Progress
  <2>1. CASE q # r
    BY <1>2, <2>1 DEF FateInv, Progress
  <2>2. CASE q = r
    BY <1>1, <1>2, <1>3, <2>2
  <2> QED BY <2>1, <2>2
<1>5. \A l \in 1..Len(outcome[r]) : l \in 1..Len(outcome'[r])
  BY <1>1, <1>3
<1>6. pos[r] \in 1..Len(outcome'[r])
  BY <1>1, <1>3
<1>7. SeenWritten'
  <2> SUFFICES ASSUME NEW q \in Requests, NEW t \in seen'[q]
               PROVE  \/ \E l \in 1..Len(outcome'[q]) : WrittenNote(q, l, t)'
                      \/ pc'[q] = "save" /\ Item(q)'.kind = "note" /\ Item(q)'.text = t
    BY DEF SeenWritten
  <2>0. \/ \E l \in 1..Len(outcome[q]) : WrittenNote(q, l, t)
        \/ pc[q] = "save" /\ Item(q).kind = "note" /\ Item(q).text = t
    BY DEF FateInv, SeenWritten
  <2>1. CASE \E l \in 1..Len(outcome[q]) : WrittenNote(q, l, t)
    <3>1. PICK l \in 1..Len(outcome[q]) : WrittenNote(q, l, t)
      BY <2>1
    <3>2. outcome'[q][l] = outcome[q][l] /\ l \in 1..Len(outcome'[q])
      BY <1>2, <1>3, <1>5
    <3> QED BY <3>1, <3>2, WrittenStays
  <2>2. CASE q # r /\ pc[q] = "save" /\ Item(q).kind = "note" /\ Item(q).text = t
    <3>1. pc'[q] = pc[q] /\ Item(q)' = Item(q)
      BY <1>2, <2>2 DEF Item
    <3> QED BY <2>2, <3>1
  <2>3. CASE q = r /\ pc[q] = "save" /\ Item(q).kind = "note" /\ Item(q).text = t
    <3>1. PICK k \in 1..Len(outcome'[r]) : k = pos[r]
      BY <1>6
    <3>2. outcome'[r][k].status \in {"saved", "accepted"}
      BY <1>3, <2>3, <3>1
    <3>3. batch'[r][k].kind = "note" /\ batch'[r][k].text = t
      BY <2>3, <3>1 DEF Item
    <3>4. WrittenNote(r, k, t)'
      BY <3>2, <3>3 DEF WrittenNote
    <3> QED BY <2>3, <3>4
  <2> QED BY <2>0, <2>1, <2>2, <2>3
<1>8. \A l \in 1..Len(outcome[r]) : WrittenNote(r, l, item.text) => WrittenNote(r, l, item.text)'
  BY <1>1, <1>3 DEF WrittenNote
<1>9. ASSUME NEW k \in 1..Len(outcome'[r]), k = pos[r] PROVE FateHolds(r, k)'
  <2>0. batch'[r][k] = item
    BY <1>9 DEF Item
  <2>1. outcome'[r][k].status = status /\ outcome'[r][k].reason = reason
    BY <1>3, <1>9
  <2>2. status = "saved" => ~dry'[r] /\ Kept(batch[r][k])'
    BY <2>0 DEF Kept
  <2>3. reason = "duplicate_in_batch" =>
          \E l \in 1..(k - 1) : WrittenNote(r, l, item.text)'
    <3> SUFFICES ASSUME reason = "duplicate_in_batch"
                 PROVE  \E l \in 1..(k - 1) : WrittenNote(r, l, item.text)'
      OBVIOUS
    <3>1. \E l \in 1..Len(outcome[r]) : WrittenNote(r, l, item.text)
      BY <1>1 DEF FateInv, SeenWritten
    <3> QED BY <1>1, <1>8, <1>9, <3>1
  <2>4. reason = "duplicate_in_batch" =>
          \E l \in 1..(k - 1) : WrittenNote(r, l, batch[r][k].text)'
    BY <2>0, <2>3 DEF WrittenNote
  <2> QED BY <2>1, <2>2, <2>4 DEF FateHolds
<1>10. FatesHold'
  <2> SUFFICES ASSUME NEW q \in Requests, NEW k \in 1..Len(outcome'[q]) PROVE FateHolds(q, k)'
    BY DEF FatesHold
  <2>1. CASE q # r
    BY <1>2, <2>1, FateStays
  <2>2. CASE q = r /\ k = pos[r]
    BY <1>9, <2>2
  <2>3. CASE q = r /\ k # pos[r]
    <3>1. k \in 1..Len(outcome[r])
      BY <1>1, <1>3, <2>3
    <3> QED BY <1>3, <2>3, <3>1, FateStays
  <2> QED BY <2>1, <2>2, <2>3
<1> QED BY <1>4, <1>7, <1>10

\* A request goes to the next check of the same item.
LEMMA ProceedFates ==
  ASSUME FateInv, Grow, NEW r \in Active, NEW step,
         Proceed(r, step), pc[r] # "save", UNCHANGED <<batch, dry>>, step # "done",
         NEW item, item = Item(r),
         \/ seen' = seen
         \/ /\ seen' = [seen EXCEPT ![r] = @ \cup {item.text}]
            /\ step = "save" /\ item.kind = "note"
  PROVE  Progress' /\ SeenWritten' /\ FatesHold'
<1>1. /\ r \in Requests /\ pos' = pos /\ outcome' = outcome /\ pc'[r] = step
      /\ \A q \in Requests : q # r => pc'[q] = pc[q]
  BY DEF Active, Proceed, FateInv, Typed, TypeOK
<1>2. Progress'
  BY <1>1 DEF FateInv, Progress
<1>3. SeenWritten'
  <2> SUFFICES ASSUME NEW q \in Requests, NEW t \in seen'[q]
               PROVE  \/ \E l \in 1..Len(outcome'[q]) : WrittenNote(q, l, t)'
                      \/ pc'[q] = "save" /\ Item(q)'.kind = "note" /\ Item(q)'.text = t
    BY DEF SeenWritten
  <2>0. Item(q)' = Item(q)
    BY <1>1 DEF Item
  <2>1. CASE t \in seen[q]
    <3>1. CASE \E l \in 1..Len(outcome[q]) : WrittenNote(q, l, t)
      BY <1>1, <3>1, WrittenStays
    <3>2. CASE pc[q] = "save" /\ Item(q).kind = "note" /\ Item(q).text = t
      BY <1>1, <2>0, <3>2
    <3> QED BY <2>1, <3>1, <3>2 DEF FateInv, SeenWritten
  <2>2. CASE t \notin seen[q]
    <3>1. q = r /\ t = item.text /\ step = "save" /\ item.kind = "note"
      BY <1>1, <2>2 DEF FateInv, Typed, TypeOK
    <3> QED BY <1>1, <2>0, <3>1
  <2> QED BY <2>1, <2>2
<1>4. FatesHold'
  BY <1>1, FateStays DEF FatesHold
<1> QED BY <1>2, <1>3, <1>4

LEMMA BeginFates ==
  ASSUME FateInv, NEW r \in Requests, NEW b \in Batches, Begin(r, b)
  PROVE  Progress' /\ SeenWritten' /\ FatesHold'
<1>1. /\ batch'[r] = b /\ pc[r] = "new" /\ pos[r] = 1 /\ pos' = pos
      /\ outcome' = outcome /\ seen' = seen /\ dry' = dry
      /\ pc'[r] = IF b = <<>> THEN "done" ELSE "convert"
      /\ \A q \in Requests : q # r => batch'[q] = batch[q] /\ pc'[q] = pc[q]
  BY DEF Begin, FateInv, Typed, TypeOK, AtItem
<1>2. Len(outcome[r]) = 0
  BY <1>1 DEF FateInv, Progress
<1>3. Progress'
  BY <1>1, <1>2 DEF FateInv, Progress
<1>4. Grow
  BY DEF Begin, Grow, Stored, repos
<1>5. SeenWritten'
  <2> SUFFICES ASSUME NEW q \in Requests, NEW t \in seen'[q]
               PROVE  \/ \E l \in 1..Len(outcome'[q]) : WrittenNote(q, l, t)'
                      \/ pc'[q] = "save" /\ Item(q)'.kind = "note" /\ Item(q)'.text = t
    BY DEF SeenWritten
  <2>0. \/ \E l \in 1..Len(outcome[q]) : WrittenNote(q, l, t)
        \/ pc[q] = "save" /\ Item(q).kind = "note" /\ Item(q).text = t
    BY <1>1 DEF FateInv, SeenWritten
  <2>1. q # r
    BY <1>1, <1>2, <2>0
  <2>2. CASE \E l \in 1..Len(outcome[q]) : WrittenNote(q, l, t)
    BY <1>1, <2>1, <2>2, WrittenStays
  <2>3. CASE pc[q] = "save" /\ Item(q).kind = "note" /\ Item(q).text = t
    BY <1>1, <2>1, <2>3 DEF Item
  <2> QED BY <2>0, <2>2, <2>3
<1>6. FatesHold'
  BY <1>1, <1>2, <1>4, FateStays DEF FatesHold
<1> QED BY <1>3, <1>5, <1>6

LEMMA StepGrows ==
  ASSUME FateInv, NEW r \in Requests, Step(r)
  PROVE  Grow
<1>0. r \in Active /\ FateInv
  BY DEF Step, Active, Convert, RejectConflict, RejectUnsure, PassConflict,
         DedupFact, DedupNote, DedupOther, SkipSave, SaveFact, SaveNote, SaveDecision
<1>1. CASE UNCHANGED repos
  BY <1>1 DEF Grow, Stored, repos
<1>2. CASE SaveFact(r)
  <2>1. Item(r) \in Facts /\ found[r] \subseteq Ids
    BY <1>0, <1>2, ItemTyped DEF SaveFact, FateInv, Typed, TypeOK
  <2>2. [slot |-> Item(r).slot, value |-> Item(r).value, conflicts |-> found[r]] \in StoredFacts
    BY <2>1 DEF Facts, StoredFacts
  <2>3. [slot |-> Item(r).slot, value |-> Item(r).value, conflicts |-> found[r]] # None
    BY <2>2, WritebackConstants
  <2>4. Stored \subseteq Stored'
    BY <1>2, <2>3 DEF SaveFact, Stored, FateInv, Typed, TypeOK
  <2> QED BY <1>2, <2>4 DEF SaveFact, Grow
<1>3. CASE SaveNote(r)
  BY <1>3 DEF SaveNote, Grow, Stored, FateInv, Typed, TypeOK
<1>4. CASE SaveDecision(r)
  BY <1>4 DEF SaveDecision, Grow, Stored
<1> QED BY <1>1, <1>2, <1>3, <1>4 DEF Step, Convert, RejectConflict, RejectUnsure,
           PassConflict, DedupFact, DedupNote, DedupOther, SkipSave

LEMMA StepFates ==
  ASSUME FateInv, NEW r \in Requests, Step(r), NEW item, item = Item(r)
  PROVE  Progress' /\ SeenWritten' /\ FatesHold'
<1>0. /\ r \in Active /\ Grow /\ UNCHANGED params
  BY StepGrows DEF Step, Active, Convert, RejectConflict, RejectUnsure,
     PassConflict, DedupFact, DedupNote, DedupOther, SkipSave, SaveFact,
     SaveNote, SaveDecision
<1>1. /\ item \in Items /\ Item(r) = item
      /\ item.kind = "fact" => item \in Facts
      /\ item.kind = "note" => item \in Notes
      /\ item.kind = "decision" => item \in Decisions
  BY <1>0, ItemTyped DEF FateInv
<1>2. ASSUME NEW status \in {"rejected", "error"}, NEW reason \in Reasons,
             Settle(r, status, reason), seen' = seen,
             pc[r] # "save" \/ item.kind # "note",
             reason = "duplicate_in_batch" => item.text \in seen[r] /\ pc[r] # "save"
      PROVE  Progress' /\ SeenWritten' /\ FatesHold'
  <2>1. [status |-> status, reason |-> reason] \in Fates /\ status # "saved"
    BY <1>2 DEF Fates
  <2> QED BY <1>0, <1>2, <2>1, SettleFates DEF params
<1>3. ASSUME NEW status \in {"saved", "accepted"}, Settle(r, status, "none"),
             seen' = seen, status = "saved" => ~dry[r] /\ Kept(item)'
      PROVE  Progress' /\ SeenWritten' /\ FatesHold'
  <2>1. [status |-> status, reason |-> "none"] \in Fates
    BY <1>3 DEF Fates
  <2> QED BY <1>0, <1>3, <2>1, SettleFates DEF params
<1>4. ASSUME NEW step \in {"conflict", "dedup", "save"}, Proceed(r, step),
             pc[r] # "save",
             \/ seen' = seen
             \/ /\ seen' = [seen EXCEPT ![r] = @ \cup {item.text}]
                /\ step = "save" /\ item.kind = "note"
      PROVE  Progress' /\ SeenWritten' /\ FatesHold'
  BY <1>0, <1>4, ProceedFates DEF params
<1>5. CASE Convert(r) \/ RejectConflict(r) \/ RejectUnsure(r)
  <2>1. /\ {"malformed", "pii_blocked", "fact_conflict", "requires_review", "low_confidence"}
             \subseteq Reasons \ {"duplicate_in_batch"}
    BY DEF Reasons
  <2>2. CASE Convert(r)
    BY <1>2, <1>4, <2>1, <2>2 DEF Convert
  <2>3. CASE RejectConflict(r)
    BY <1>2, <2>1, <2>3 DEF RejectConflict
  <2>4. CASE RejectUnsure(r)
    BY <1>2, <2>1, <2>4 DEF RejectUnsure
  <2> QED BY <1>5, <2>2, <2>3, <2>4
<1>6. CASE PassConflict(r) \/ DedupOther(r)
  BY <1>4, <1>6 DEF PassConflict, DedupOther
<1>7. CASE DedupFact(r)
  <2>1. "duplicate_fact" \in Reasons
    BY DEF Reasons
  <2> QED BY <1>2, <1>4, <1>7, <2>1 DEF DedupFact
<1>8. CASE DedupNote(r)
  <2>1. "duplicate_in_batch" \in Reasons /\ "duplicate_in_repository" \in Reasons
    BY DEF Reasons
  <2>2. CASE item.text \in seen[r] /\ Settle(r, "rejected", "duplicate_in_batch") /\ UNCHANGED seen
    BY <1>2, <1>8, <2>1, <2>2 DEF DedupNote
  <2>3. CASE Settle(r, "rejected", "duplicate_in_repository") /\ UNCHANGED seen
    BY <1>2, <1>8, <2>1, <2>3 DEF DedupNote
  <2>4. CASE seen' = [seen EXCEPT ![r] = @ \cup {item.text}] /\ Proceed(r, "save")
    BY <1>1, <1>4, <1>8, <2>4 DEF DedupNote
  <2> QED BY <1>1, <1>8, <2>2, <2>3, <2>4 DEF DedupNote
<1>9. CASE SkipSave(r)
  BY <1>3, <1>9 DEF SkipSave
<1>10. CASE SaveFact(r)
  <2>1. item \in Facts /\ found[r] \subseteq Ids
    BY <1>1, <1>10 DEF SaveFact, FateInv, Typed, TypeOK
  <2>2. [slot |-> item.slot, value |-> item.value, conflicts |-> found[r]] \in StoredFacts
    BY <2>1 DEF Facts, StoredFacts
  <2>3. facts'[item.id] # None /\ item.id \in Ids /\ item.kind = "fact"
    BY <1>1, <1>10, <2>1, <2>2, WritebackConstants DEF SaveFact, FateInv, Typed, TypeOK, Facts
  <2>4. Kept(item)'
    BY <2>3 DEF Kept, Stored
  <2> QED BY <1>3, <1>10, <2>4 DEF SaveFact
<1>11. CASE SaveNote(r)
  <2>1. item \in Notes
    BY <1>1, <1>11 DEF SaveNote
  <2>2. notes'[item.key] # None /\ item.kind = "note"
    BY <1>1, <1>11, <2>1, WritebackConstants DEF SaveNote, FateInv, Typed, TypeOK, Notes
  <2>3. Kept(item)'
    BY <2>2 DEF Kept
  <2> QED BY <1>3, <1>11, <2>3 DEF SaveNote
<1>12. CASE SaveDecision(r)
  <2>1. item.kind = "decision" /\ "no_repository" \in Reasons
    BY <1>1, <1>12 DEF SaveDecision, Reasons
  <2>2. CASE HasDecisionRepo
    <3>1. Kept(item)'
      BY <1>1, <1>12, <2>1, <2>2 DEF SaveDecision, Kept
    <3> QED BY <1>3, <1>12, <2>2, <3>1 DEF SaveDecision
  <2>3. CASE ~HasDecisionRepo
    BY <1>2, <1>12, <2>1, <2>3 DEF SaveDecision
  <2> QED BY <2>2, <2>3
<1> QED BY <1>5, <1>6, <1>7, <1>8, <1>9, <1>10, <1>11, <1>12 DEF Step

LEMMA FateInit == Init => FateInv
<1> SUFFICES ASSUME Init PROVE FateInv
  OBVIOUS
<1>1. Typed
  BY TypedInit
<1>2. Progress /\ SeenWritten /\ FatesHold
  BY DEF Init, Progress, SeenWritten, FatesHold
<1> QED BY <1>1, <1>2 DEF FateInv

LEMMA FateNext == FateInv /\ [Next]_vars => FateInv'
<1> SUFFICES ASSUME FateInv, [Next]_vars PROVE FateInv'
  OBVIOUS
<1>1. Typed'
  BY TypedNext DEF FateInv
<1>2. Progress' /\ SeenWritten' /\ FatesHold'
  <2>1. ASSUME NEW r \in Requests, Step(r)
        PROVE  Progress' /\ SeenWritten' /\ FatesHold'
    <3>1. \E item : item = Item(r)
      OBVIOUS
    <3> QED BY <2>1, <3>1, StepFates
  <2>2. ASSUME NEW r \in Requests, NEW b \in Batches, Begin(r, b)
        PROVE  Progress' /\ SeenWritten' /\ FatesHold'
    BY <2>2, BeginFates
  <2>3. CASE UNCHANGED vars
    BY <2>3 DEF FateInv, Progress, SeenWritten, FatesHold, FateHolds, WrittenNote,
       Kept, Stored, Item, vars, repos, params
  <2> QED BY <2>1, <2>2, <2>3 DEF Next
<1> QED BY <1>1, <1>2 DEF FateInv

LEMMA FatesFollow == FateInv => FatesTruthful
<1> SUFFICES ASSUME FateInv PROVE FatesTruthful
  OBVIOUS
<1> SUFFICES ASSUME NEW r \in Requests
             PROVE  /\ pc[r] = "done" => Len(outcome[r]) = Len(batch[r])
                    /\ \A k \in 1..Len(outcome[r]) :
                         LET item == batch[r][k]
                             fate == outcome[r][k]
                         IN  /\ fate.status = "saved" => ~dry[r]
                             /\ fate.status = "saved" /\ item.kind = "fact" => item.id \in Stored
                             /\ fate.status = "saved" /\ item.kind = "note" => notes[item.key] # None
                             /\ fate.status = "saved" /\ item.kind = "decision" => item.id \in decisions
                             /\ fate.reason = "duplicate_in_batch" =>
                                  \E l \in HandledNotes(r, k) :
                                    outcome[r][l].status \in {"saved", "accepted"}
  BY DEF FatesTruthful
<1>1. pc[r] = "done" => Len(outcome[r]) = Len(batch[r])
  <2>0. <<>> \in Seq(Items)
    OBVIOUS
  <2>1. batch[r] \in Seq(Items)
    BY <2>0, WritebackConstants DEF FateInv, Typed, TypeOK
  <2> QED BY <2>1 DEF FateInv, Progress
<1>2. \A k \in 1..Len(outcome[r]) : FateHolds(r, k)
  BY DEF FateInv, FatesHold
<1> QED BY <1>1, <1>2 DEF FateHolds, Kept, WrittenNote, HandledNotes

\* What a request reports of an item is true when it is reported and stays
\* true, whatever the other requests do: what is reported saved is held, an
\* item is called a duplicate of its batch only after its text was written,
\* and an answered request has reported every item of its batch once.
THEOREM FatesStayTruthful == Spec => []FatesTruthful
<1>1. Spec => []FateInv
  BY FateInit, FateNext, PTL DEF Spec
<1> QED BY <1>1, FatesFollow, PTL

-------------------------------------------------------------------------------
(* The endpoint.                                                           *)
(*                                                                         *)
(* Losses: the invariant is about the time between Lookup and Commit.  A   *)
(* key that is wanted, was not found and is there all the same was put     *)
(* there by a request that overlapped this one (Overtaken), because        *)
(* handlers that are at work at the same time are in together (Met).       *)
(*                                                                         *)
(* Truth: a row is what its request, which has ended, reported (RowsInv);  *)
(* the request that wrote a fact last reported it (WroteLast); and one     *)
(* that began when another had ended has replaced, in the store, what it   *)
(* will replace in the records (TakenOver).                                *)

Met == \A q, r \in Handled : q # r => <<q, r>> \in together

\* An audit begins when the write has ended.
Ended == \A r \in Requests : stage[r] # "write" => pc[r] = "done"

\* A request whose write has ended, that overlapped r and wanted the key.
Rival(r, key) ==
  \E q \in Requests : pc[q] = "done" /\ <<q, r>> \in together /\ key \in Wanted(q)

Overtaken ==
  \A r \in Requests : stage[r] = "commit" =>
    \A key \in (Wanted(r) \cap Present) \ known[r] : Rival(r, key)

Explained ==
  \A r \in Requests : stage[r] = "failed" =>
    DbFails \/ Repeated(r) # {} \/ \E key \in Wanted(r) : Rival(r, key)

RecordsTyped ==
  /\ stage \in [Requests -> {"write", "commit", "persisted", "failed"}]
  /\ known \in [Requests -> SUBSET Keys]
  /\ DOMAIN records = Ids /\ DOMAIN reviews = Ids

RInv == Typed /\ RecordsTyped /\ Met /\ Ended /\ Overtaken /\ Explained

-------------------------------------------------------------------------------
(* The audit does not disturb the write.                                   *)

LEMMA StepIsStep ==
  ASSUME [RememberNext]_rememberVars
  PROVE  [Next]_vars
BY DEF RememberNext, Receive, Write, Lookup, Commit, Rollback, Next, rememberVars

\* remember() is WriteBackService.write, and an audit that only reads it: every
\* property of the write holds of it.
THEOREM RememberIsWriteback == RememberSpec => Spec
<1>1. RememberInit => Init
  BY DEF RememberInit
<1>2. [RememberNext]_rememberVars => [Next]_vars
  BY StepIsStep
<1> QED BY <1>1, <1>2, PTL DEF RememberSpec, Spec

-------------------------------------------------------------------------------
LEMMA StepLocal ==
  ASSUME Typed, NEW r \in Requests, Step(r)
  PROVE  /\ pc[r] \notin {"new", "done"} /\ batch' = batch /\ pc'[r] # "new"
         /\ \A q \in Requests : q # r => pc'[q] = pc[q] /\ outcome'[q] = outcome[q]
<1>1. pc[r] \notin {"new", "done"} /\ batch' = batch
  BY DEF Step, Convert, RejectConflict, RejectUnsure, PassConflict,
         DedupFact, DedupNote, DedupOther, SkipSave, SaveFact, SaveNote,
         SaveDecision, params
<1>2. (\E status, reason : Settle(r, status, reason)) \/ (\E step \in {"conflict", "dedup", "save"} : Proceed(r, step))
  BY DEF Step, Convert, RejectConflict, RejectUnsure, PassConflict,
         DedupFact, DedupNote, DedupOther, SkipSave, SaveFact, SaveNote, SaveDecision
<1>3. pc'[r] # "new" /\ \A q \in Requests : q # r => pc'[q] = pc[q] /\ outcome'[q] = outcome[q]
  <2>1. CASE \E status, reason : Settle(r, status, reason)
    BY <2>1 DEF Settle, Typed, TypeOK
  <2>2. CASE \E step \in {"conflict", "dedup", "save"} : Proceed(r, step)
    BY <2>2 DEF Proceed, Typed, TypeOK
  <2> QED BY <1>2, <2>1, <2>2
<1> QED BY <1>1, <1>3

\* What a request wanted stays while nothing of it changes.
LEMMA WantedKept ==
  ASSUME NEW r, batch'[r] = batch[r], outcome'[r] = outcome[r]
  PROVE  Wanted(r)' = Wanted(r) /\ Repeated(r)' = Repeated(r)
<1>1. Positions(r)' = Positions(r)
  BY DEF Positions
<1>2. Saved(r)' = Saved(r) /\ ForReview(r)' = ForReview(r)
  BY <1>1 DEF Saved, ForReview
<1>3. Wanted(r)' = Wanted(r)
  BY <1>2 DEF Wanted
<1>4. \A ks, i : About(r, ks, i)' = About(r, ks, i)
  BY DEF About
<1> QED BY <1>2, <1>3, <1>4 DEF Repeated, About

-------------------------------------------------------------------------------
\* Steps of writes leave alone what the audits depend on.
LEMMA QuietStep ==
  ASSUME RInv, UNCHANGED <<database, stage, known>>, together \subseteq together',
         \A q \in Requests : pc[q] = "done" =>
           pc'[q] = "done" /\ batch'[q] = batch[q] /\ outcome'[q] = outcome[q]
  PROVE  RecordsTyped' /\ Ended' /\ Overtaken' /\ Explained'
<1> USE DEF RInv
<1>1. RecordsTyped' /\ Ended'
  BY DEF RecordsTyped, Ended, database
<1>2. \A q \in Requests : pc[q] = "done" =>
        pc'[q] = "done" /\ Wanted(q)' = Wanted(q) /\ Repeated(q)' = Repeated(q)
  BY WantedKept
<1>3. Present' = Present
  BY DEF Present, database
<1>4. ASSUME NEW r \in Requests, NEW key, Rival(r, key) PROVE Rival(r, key)'
  <2>1. PICK q \in Requests : pc[q] = "done" /\ <<q, r>> \in together /\ key \in Wanted(q)
    BY <1>4 DEF Rival
  <2>2. pc'[q] = "done" /\ <<q, r>> \in together' /\ key \in Wanted(q)'
    BY <1>2, <2>1
  <2> QED BY <2>2 DEF Rival
<1>5. \A r \in Requests : stage'[r] \in {"commit", "failed"} => stage'[r] = stage[r] /\ known'[r] = known[r] /\ pc[r] = "done"
  BY DEF Ended
<1>6. Overtaken'
  <2>1. SUFFICES ASSUME NEW r \in Requests, stage'[r] = "commit",
                        NEW key \in (Wanted(r)' \cap Present') \ known'[r]
                 PROVE  Rival(r, key)'
    BY DEF Overtaken
  <2>2. key \in (Wanted(r) \cap Present) \ known[r] /\ stage[r] = "commit"
    BY <1>2, <1>3, <1>5, <2>1
  <2> QED BY <1>4, <2>2 DEF Overtaken
<1>7. Explained'
  <2>1. SUFFICES ASSUME NEW r \in Requests, stage'[r] = "failed"
                 PROVE  DbFails \/ Repeated(r)' # {} \/ \E key \in Wanted(r)' : Rival(r, key)'
    BY DEF Explained
  <2>2. DbFails \/ Repeated(r) # {} \/ \E key \in Wanted(r) : Rival(r, key)
    BY <1>5, <2>1 DEF Explained
  <2> QED BY <1>2, <1>4, <1>5, <2>1, <2>2
<1> QED BY <1>1, <1>6, <1>7

LEMMA ReceiveStep ==
  ASSUME RInv, NEW r \in Requests, NEW b \in Batches, Receive(r, b)
  PROVE  RInv'
<1> USE DEF RInv
<1>1. Typed'
  BY BeginTyped DEF Receive
<1>2. /\ pc[r] = "new" /\ pc'[r] # "new" /\ stage' = stage
      /\ \A q \in Requests : q # r => pc'[q] = pc[q] /\ batch'[q] = batch[q]
      /\ outcome' = outcome
      /\ together' = together \cup (Handled \X {r}) \cup ({r} \X Handled)
  BY DEF Receive, Begin, Typed, TypeOK
<1>3. RecordsTyped' /\ Ended' /\ Overtaken' /\ Explained'
  BY <1>2, QuietStep DEF Receive
<1>4. Handled' \subseteq Handled \cup {r}
  BY <1>2 DEF Handled
<1>5. Met'
  BY <1>2, <1>4 DEF Met
<1> QED BY <1>1, <1>3, <1>5

LEMMA WriteStep ==
  ASSUME RInv, NEW r \in Requests, Write(r)
  PROVE  RInv'
<1> USE DEF RInv
<1>1. Typed'
  BY StepTyped DEF Write
<1>2. /\ pc[r] \notin {"new", "done"} /\ batch' = batch
      /\ \A q \in Requests : q # r => pc'[q] = pc[q] /\ outcome'[q] = outcome[q]
      /\ together' = together /\ stage' = stage
  BY StepLocal DEF Write
<1>3. RecordsTyped' /\ Ended' /\ Overtaken' /\ Explained'
  BY <1>2, QuietStep DEF Write
<1>4. Handled' \subseteq Handled
  BY <1>2 DEF Handled
<1>5. Met'
  BY <1>2, <1>4 DEF Met
<1> QED BY <1>1, <1>3, <1>5

\* Steps of the audit leave the writes alone.
LEMMA AuditStep ==
  ASSUME RInv, UNCHANGED <<vars, together>>
  PROVE  /\ Typed' /\ pc' = pc
         /\ \A r : Wanted(r)' = Wanted(r) /\ Repeated(r)' = Repeated(r)
         /\ \A r, key : Rival(r, key)' <=> Rival(r, key)
<1>1. Typed' /\ pc' = pc /\ batch' = batch /\ outcome' = outcome
  BY TypedNext DEF RInv, vars, params
<1>2. \A r : Wanted(r)' = Wanted(r) /\ Repeated(r)' = Repeated(r)
  BY <1>1, WantedKept
<1> QED BY <1>1, <1>2 DEF Rival

LEMMA LookupStep ==
  ASSUME RInv, NEW r \in Requests, Lookup(r)
  PROVE  RInv'
<1> USE DEF RInv
<1>1. /\ Typed' /\ pc' = pc /\ together' = together
      /\ \A q : Wanted(q)' = Wanted(q) /\ Repeated(q)' = Repeated(q)
      /\ \A q, key : Rival(q, key)' <=> Rival(q, key)
  BY AuditStep DEF Lookup
<1>2. /\ stage' = [stage EXCEPT ![r] = "commit"] /\ stage[r] = "write" /\ pc[r] = "done"
      /\ known' = [known EXCEPT ![r] = Wanted(r) \cap Present]
      /\ records' = records /\ reviews' = reviews
  BY DEF Lookup, database
<1>3. Present' = Present
  BY <1>2 DEF Present
<1>4. RecordsTyped' /\ Ended'
  <2>1. Present \subseteq Keys
    BY DEF Present, Keys
  <2> QED BY <1>1, <1>2, <2>1 DEF RecordsTyped, Ended
<1>5. Met'
  <2>1. Handled' \subseteq Handled
    BY <1>1, <1>2 DEF Handled, RecordsTyped
  <2> QED BY <1>1, <2>1 DEF Met
<1>6. Overtaken'
  BY <1>1, <1>2, <1>3 DEF Overtaken, RecordsTyped
<1>7. Explained'
  BY <1>1, <1>2 DEF Explained, RecordsTyped
<1> QED BY <1>1, <1>4, <1>5, <1>6, <1>7

\* A commit makes no row but those its request wanted.
LEMMA CommitAdds ==
  ASSUME RInv, NEW r \in Requests, Commit(r)
  PROVE  Present' \subseteq Present \cup Wanted(r)
<1>1. ASSUME NEW i \in Ids, records'[i] # None, records[i] = None PROVE <<"record", i>> \in Wanted(r)
  <2>1. Record(r, i) # records[i]
    BY <1>1 DEF Commit
  <2>2. About(r, Saved(r), i) # {}
    BY <2>1 DEF Record
  <2> QED BY <2>2 DEF About, Wanted
<1>2. ASSUME NEW i \in Ids, reviews'[i] # None, reviews[i] = None PROVE <<"review", i>> \in Wanted(r)
  <2>1. Review(r, i) # reviews[i]
    BY <1>2 DEF Commit
  <2>2. About(r, ForReview(r), i) # {}
    BY <2>1 DEF Review
  <2> QED BY <2>2 DEF About, Wanted
<1> QED BY <1>1, <1>2 DEF Present

LEMMA CommitStep ==
  ASSUME RInv, NEW r \in Requests, Commit(r)
  PROVE  RInv'
<1> USE DEF RInv
<1>1. /\ Typed' /\ pc' = pc /\ together' = together
      /\ \A q : Wanted(q)' = Wanted(q) /\ Repeated(q)' = Repeated(q)
      /\ \A q, key : Rival(q, key)' <=> Rival(q, key)
  BY AuditStep DEF Commit
<1>2. /\ stage' = [stage EXCEPT ![r] = "persisted"] /\ stage[r] = "commit" /\ pc[r] = "done"
      /\ known' = known
  BY DEF Commit, Ended
<1>3. Present' \subseteq Present \cup Wanted(r)
  BY CommitAdds
<1>4. RecordsTyped' /\ Ended'
  <2>1. DOMAIN records' = Ids /\ DOMAIN reviews' = Ids
    BY DEF Commit
  <2> QED BY <1>1, <1>2, <2>1 DEF RecordsTyped, Ended
<1>5. Met'
  <2>1. Handled' \subseteq Handled
    BY <1>1, <1>2 DEF Handled, RecordsTyped
  <2> QED BY <1>1, <2>1 DEF Met
<1>6. Overtaken'
  <2>1. SUFFICES ASSUME NEW q \in Requests, stage'[q] = "commit",
                        NEW key \in (Wanted(q)' \cap Present') \ known'[q]
                 PROVE  Rival(q, key)'
    BY DEF Overtaken
  <2>2. q # r /\ stage[q] = "commit" /\ key \in Wanted(q) /\ key \notin known[q] /\ pc[q] = "done"
    BY <1>1, <1>2, <2>1 DEF RecordsTyped, Ended
  <2>3. CASE key \in Present
    BY <1>1, <2>2, <2>3 DEF Overtaken
  <2>4. CASE key \in Wanted(r)
    <3>1. <<r, q>> \in together
      BY <1>2, <2>2 DEF Met, Handled
    <3> QED BY <1>1, <1>2, <2>4, <3>1 DEF Rival
  <2> QED BY <1>3, <2>1, <2>3, <2>4
<1>7. Explained'
  BY <1>1, <1>2 DEF Explained, RecordsTyped
<1> QED BY <1>1, <1>4, <1>5, <1>6, <1>7

LEMMA RollbackStep ==
  ASSUME RInv, NEW r \in Requests, Rollback(r)
  PROVE  RInv'
<1> USE DEF RInv
<1>1. /\ Typed' /\ pc' = pc /\ together' = together
      /\ \A q : Wanted(q)' = Wanted(q) /\ Repeated(q)' = Repeated(q)
      /\ \A q, key : Rival(q, key)' <=> Rival(q, key)
  BY AuditStep DEF Rollback
<1>2. /\ stage' = [stage EXCEPT ![r] = "failed"] /\ stage[r] = "commit" /\ pc[r] = "done"
      /\ known' = known /\ records' = records /\ reviews' = reviews
  BY DEF Rollback, Ended, database
<1>3. Present' = Present
  BY <1>2 DEF Present
<1>4. RecordsTyped' /\ Ended'
  BY <1>1, <1>2 DEF RecordsTyped, Ended
<1>5. Met'
  <2>1. Handled' \subseteq Handled
    BY <1>1, <1>2 DEF Handled, RecordsTyped
  <2> QED BY <1>1, <2>1 DEF Met
<1>6. Overtaken'
  BY <1>1, <1>2, <1>3 DEF Overtaken, RecordsTyped
<1>7. Explained'
  <2>1. DbFails \/ Repeated(r) # {} \/ \E key \in Wanted(r) : Rival(r, key)
    <3>1. CASE DbFails
      BY <3>1
    <3>2. CASE Clash(r)
      <4>1. PICK key \in Wanted(r) \ known[r] : key \in Repeated(r) \cup Present
        BY <3>2 DEF Clash
      <4>2. CASE key \in Repeated(r)
        BY <4>2
      <4>3. CASE key \in Present
        BY <1>2, <4>1, <4>3 DEF Overtaken
      <4> QED BY <4>1, <4>2, <4>3
    <3> QED BY <3>1, <3>2 DEF Rollback
  <2>2. ASSUME NEW q \in Requests, stage'[q] = "failed"
        PROVE  DbFails \/ Repeated(q) # {} \/ \E key \in Wanted(q) : Rival(q, key)
    BY <1>2, <2>1, <2>2 DEF Explained, RecordsTyped
  <2> QED BY <1>1, <2>2 DEF Explained
<1> QED BY <1>1, <1>4, <1>5, <1>6, <1>7

LEMMA RememberInitInv == RememberInit => RInv
<1> SUFFICES ASSUME RememberInit PROVE RInv
  OBVIOUS
<1>1. Typed
  BY TypedInit DEF RememberInit
<1>2. Handled = {}
  BY DEF RememberInit, Init, Handled
<1>3. RecordsTyped /\ Met /\ Ended /\ Overtaken /\ Explained
  BY <1>2 DEF RememberInit, RecordsTyped, Met, Ended, Overtaken, Explained
<1> QED BY <1>1, <1>3 DEF RInv

\* The invariant of the audit holds in every reachable state.
THEOREM AuditInvariant == RememberSpec => []RInv
<1>1. RememberInit => RInv
  BY RememberInitInv
<1>2. RInv /\ [RememberNext]_rememberVars => RInv'
  <2> SUFFICES ASSUME RInv, [RememberNext]_rememberVars PROVE RInv'
    OBVIOUS
  <2>1. CASE RememberNext
    BY <2>1, ReceiveStep, WriteStep, LookupStep, CommitStep, RollbackStep DEF RememberNext
  <2>2. CASE UNCHANGED rememberVars
    <3>1. /\ UNCHANGED <<database, stage, known, together>> /\ UNCHANGED vars
          /\ pc' = pc /\ batch' = batch /\ outcome' = outcome
      BY <2>2 DEF rememberVars, vars, params
    <3>2. RecordsTyped' /\ Ended' /\ Overtaken' /\ Explained'
      BY <3>1, QuietStep
    <3>3. Typed'
      BY <3>1, TypedNext DEF RInv
    <3>4. Met'
      BY <3>1 DEF RInv, Met, Handled
    <3> QED BY <3>2, <3>3, <3>4 DEF RInv
  <2> QED BY <2>1, <2>2
<1> QED BY <1>1, <1>2, PTL DEF RememberSpec

\* An audit (audit_repo.py:23-106) is lost only when the database fails, when
\* the request is about one identifier twice, or through one that overlapped it.
THEOREM LossesExplained == RememberSpec => []LossExplained
<1>1. RInv => LossExplained
  <2> SUFFICES ASSUME RInv, NEW r \in Requests, stage[r] = "failed", ~DbFails, Repeated(r) = {}
               PROVE  \E q \in Requests : <<q, r>> \in together /\ Wanted(q) \cap Wanted(r) # {}
    BY DEF LossExplained
  <2>1. PICK key \in Wanted(r) : Rival(r, key)
    BY DEF RInv, Explained
  <2> QED BY <2>1 DEF Rival
<1> QED BY <1>1, AuditInvariant, PTL

-------------------------------------------------------------------------------
(* Least and greatest members.                                             *)

LEMMA LeastExists ==
  ASSUME NEW S \in SUBSET Nat, S # {}
  PROVE  \E k \in S : \A l \in S : k <= l
<1>1. PICK k \in S : \A l \in S : <<l, k>> \notin OpToRel(<, Nat)
  BY WFMin, NatLessThanWellFounded, Zenon
<1>2. ASSUME NEW l \in S PROVE ~(l < k)
  BY <1>1, <1>2, Zenon DEF OpToRel
<1> QED BY <1>2

LEMMA FirstIsLeast ==
  ASSUME NEW S \in SUBSET Nat, S # {}
  PROVE  First(S) \in S /\ \A l \in S : First(S) <= l
BY LeastExists DEF First

LEMMA LastIsGreatest ==
  ASSUME NEW n \in Nat, NEW S \in SUBSET (1..n), S # {}
  PROVE  Last(S) \in S /\ \A l \in S : l <= Last(S)
<1> DEFINE T == {n - k : k \in S}
<1>1. T \subseteq Nat /\ T # {}
  OBVIOUS
<1>2. PICK m \in T : \A l \in T : m <= l
  BY <1>1, LeastExists
<1>3. PICK k \in S : m = n - k
  BY <1>2
<1>4. ASSUME NEW l \in S PROVE l <= k
  <2>1. n - l \in T /\ k \in Int /\ l \in Int
    OBVIOUS
  <2>2. n - k <= n - l
    BY <1>2, <1>3, <2>1
  <2> QED BY <2>1, <2>2
<1>5. \E j \in S : \A l \in S : l <= j
  BY <1>4
<1> QED BY <1>5 DEF Last

LEMMA TwoMembers ==
  ASSUME NEW n \in Nat, NEW S \in SUBSET (1..n), NEW j \in S, NEW k \in S, j # k
  PROVE  Cardinality(S) > 1
<1>0. 1 \in Int /\ n \in Int
  OBVIOUS
<1>1. IsFiniteSet(S)
  <2>1. IsFiniteSet(1..n)
    BY ONLY <1>0, FS_Interval
  <2> QED BY <2>1, FS_Subset
<1>2. Cardinality(S) \in Nat
  BY <1>1, FS_CardinalityType
<1>3. Cardinality(S) # 0
  BY <1>1, FS_EmptySet
<1>4. Cardinality(S) # 1
  BY <1>1, FS_Singleton
<1> QED BY <1>2, <1>3, <1>4

-------------------------------------------------------------------------------
(* What can be sent to review was converted.                               *)

Unflawed ==
  \A r \in Requests :
    /\ pc[r] \in {"conflict", "dedup", "save"} => Item(r).flaw # "malformed"
    /\ \A k \in Positions(r) :
         outcome[r][k].reason = "requires_review" => batch[r][k].flaw # "malformed"

LEMMA UnflawedStep ==
  ASSUME FateInv, Unflawed, NEW r \in Requests, Step(r)
  PROVE  Unflawed'
<1>1. /\ r \in Active /\ batch' = batch
      /\ \A q \in Requests : q # r => pc'[q] = pc[q] /\ outcome'[q] = outcome[q] /\ pos'[q] = pos[q]
  <2>1. r \in Active /\ batch' = batch
    BY StepLocal DEF FateInv, Active
  <2>2. (\E status, reason : Settle(r, status, reason)) \/ (\E step \in {"conflict", "dedup", "save"} : Proceed(r, step))
    BY DEF Step, Convert, RejectConflict, RejectUnsure, PassConflict,
         DedupFact, DedupNote, DedupOther, SkipSave, SaveFact, SaveNote, SaveDecision
  <2> QED BY <2>1, <2>2 DEF Settle, Proceed, FateInv, Typed, TypeOK
<1>2. \A q \in Requests : q # r => Item(q)' = Item(q) /\ Positions(q)' = Positions(q)
  BY <1>1 DEF Item, Positions
<1>3. ASSUME NEW status, NEW reason, Settle(r, status, reason),
             reason = "requires_review" => Item(r).flaw # "malformed"
      PROVE  Unflawed'
  <2>1. /\ outcome'[r] = Append(outcome[r], [status |-> status, reason |-> reason])
        /\ pc'[r] \in {"done", "convert"}
    BY <1>3 DEF Settle, FateInv, Typed, TypeOK
  <2>2. outcome[r] \in Seq(Fates) /\ Len(outcome[r]) = pos[r] - 1 /\ pos[r] \in Nat
    BY DEF FateInv, Typed, TypeOK, Progress
  <2>3. ASSUME NEW k \in 1..Len(outcome'[r]), outcome'[r][k].reason = "requires_review"
        PROVE  batch[r][k].flaw # "malformed"
    <3>1. CASE k \in 1..Len(outcome[r])
      BY <2>1, <2>2, <2>3, <3>1 DEF Unflawed, Positions
    <3>2. CASE k = Len(outcome[r]) + 1
      BY <1>3, <2>1, <2>2, <2>3, <3>2 DEF Item
    <3> QED BY <2>1, <2>2, <3>1, <3>2
  <2> QED BY <1>1, <1>2, <2>1, <2>3 DEF Unflawed, Positions
<1>4. ASSUME NEW step, Proceed(r, step), Item(r).flaw # "malformed"
      PROVE  Unflawed'
  <2>1. Item(r)' = Item(r) /\ Positions(r)' = Positions(r) /\ outcome' = outcome
    BY <1>1, <1>4 DEF Proceed, Item, Positions
  <2> QED BY <1>1, <1>2, <1>4, <2>1 DEF Unflawed
<1>5. CASE Convert(r)
  BY <1>3, <1>4, <1>5 DEF Convert
<1>6. CASE ~Convert(r)
  <2>1. pc[r] \in {"conflict", "dedup", "save"}
    BY <1>6 DEF Step, RejectConflict, RejectUnsure, PassConflict,
         DedupFact, DedupNote, DedupOther, SkipSave, SaveFact, SaveNote, SaveDecision
  <2>2. Item(r).flaw # "malformed"
    BY <2>1 DEF Unflawed
  <2>3. (\E status, reason : Settle(r, status, reason)) \/ (\E step : Proceed(r, step))
    BY DEF Step, Convert, RejectConflict, RejectUnsure, PassConflict,
         DedupFact, DedupNote, DedupOther, SkipSave, SaveFact, SaveNote, SaveDecision
  <2> QED BY <1>3, <1>4, <2>2, <2>3
<1> QED BY <1>5, <1>6

LEMMA UnflawedNext ==
  ASSUME FateInv, Unflawed, [Next]_vars
  PROVE  Unflawed'
<1>1. ASSUME NEW r \in Requests, NEW b \in Batches, Begin(r, b) PROVE Unflawed'
  <2>1. /\ pc[r] = "new" /\ pos' = pos /\ outcome' = outcome /\ pc'[r] \in {"done", "convert"}
        /\ \A q \in Requests : q # r => batch'[q] = batch[q] /\ pc'[q] = pc[q]
    BY <1>1 DEF Begin, FateInv, Typed, TypeOK
  <2>2. Positions(r)' = {}
    BY <2>1 DEF Positions, FateInv, Progress, Typed, AtItem
  <2> QED BY <2>1, <2>2 DEF Unflawed, Item, Positions
<1>2. CASE UNCHANGED vars
  BY <1>2 DEF Unflawed, Item, Positions, vars, params
<1> QED BY <1>1, <1>2, UnflawedStep DEF Next

-------------------------------------------------------------------------------
(* Rows and the results they were made from.                               *)

RecordRow(r, i) == [by |-> r, item |-> batch[r][Last(About(r, Saved(r), i))]]

ReviewRow(r, i) ==
  [by |-> r, item |-> batch[r][Last(About(r, ForReview(r), i))], operation |-> OperationFor(r, i)]

RecordRows ==
  \A i \in Ids : records[i] # None =>
    \E r \in Requests : /\ stage[r] = "persisted" /\ About(r, Saved(r), i) # {}
                        /\ records[i] = RecordRow(r, i)

ReviewRows ==
  \A i \in Ids : reviews[i] # None =>
    \E r \in Requests : /\ stage[r] = "persisted" /\ About(r, ForReview(r), i) # {}
                        /\ reviews[i] = ReviewRow(r, i)

OperationsKnown ==
  /\ operations \subseteq OperationIds
  /\ \A r \in Requests : stage[r] = "persisted" =>
       \A k \in Positions(r) : <<r, k>> \in operations

RowsInv == RecordRows /\ ReviewRows /\ OperationsKnown

\* A result that does not change is audited as before.
LEMMA Frozen ==
  ASSUME NEW r, batch'[r] = batch[r], outcome'[r] = outcome[r]
  PROVE  /\ Positions(r)' = Positions(r)
         /\ \A i : /\ About(r, Saved(r), i)' = About(r, Saved(r), i)
                   /\ About(r, ForReview(r), i)' = About(r, ForReview(r), i)
                   /\ RecordRow(r, i)' = RecordRow(r, i)
                   /\ ReviewRow(r, i)' = ReviewRow(r, i)
<1>1. Positions(r)' = Positions(r)
  BY DEF Positions
<1>2. Saved(r)' = Saved(r) /\ ForReview(r)' = ForReview(r) /\ Converted(r)' = Converted(r)
  BY <1>1 DEF Saved, ForReview, Converted
<1>3. \A i : /\ About(r, Saved(r), i)' = About(r, Saved(r), i)
             /\ About(r, ForReview(r), i)' = About(r, ForReview(r), i)
             /\ About(r, Converted(r), i)' = About(r, Converted(r), i)
  BY <1>2 DEF About
<1> QED BY <1>1, <1>3 DEF RecordRow, ReviewRow, OperationFor

LEMMA RowsStay ==
  ASSUME RowsInv, UNCHANGED database,
         \A r \in Requests : stage'[r] = "persisted" <=> stage[r] = "persisted",
         \A r \in Requests : stage[r] = "persisted" =>
           batch'[r] = batch[r] /\ outcome'[r] = outcome[r]
  PROVE  RowsInv'
<1>1. records' = records /\ operations' = operations /\ reviews' = reviews
  BY DEF database
<1>2. RecordRows'
  <2> SUFFICES ASSUME NEW i \in Ids, records'[i] # None
               PROVE  \E r \in Requests : /\ stage'[r] = "persisted" /\ About(r, Saved(r), i)' # {}
                                          /\ records'[i] = RecordRow(r, i)'
    BY DEF RecordRows
  <2>1. PICK r \in Requests : /\ stage[r] = "persisted" /\ About(r, Saved(r), i) # {}
                              /\ records[i] = RecordRow(r, i)
    BY <1>1 DEF RowsInv, RecordRows
  <2>2. About(r, Saved(r), i)' = About(r, Saved(r), i) /\ RecordRow(r, i)' = RecordRow(r, i)
    BY <2>1, Frozen
  <2> QED BY <1>1, <2>1, <2>2
<1>3. ReviewRows'
  <2> SUFFICES ASSUME NEW i \in Ids, reviews'[i] # None
               PROVE  \E r \in Requests : /\ stage'[r] = "persisted" /\ About(r, ForReview(r), i)' # {}
                                          /\ reviews'[i] = ReviewRow(r, i)'
    BY DEF ReviewRows
  <2>1. PICK r \in Requests : /\ stage[r] = "persisted" /\ About(r, ForReview(r), i) # {}
                              /\ reviews[i] = ReviewRow(r, i)
    BY <1>1 DEF RowsInv, ReviewRows
  <2>2. About(r, ForReview(r), i)' = About(r, ForReview(r), i) /\ ReviewRow(r, i)' = ReviewRow(r, i)
    BY <2>1, Frozen
  <2> QED BY <1>1, <2>1, <2>2
<1>4. OperationsKnown'
  <2>1. \A r \in Requests : stage'[r] = "persisted" => Positions(r)' = Positions(r)
    BY Frozen
  <2> QED BY <1>1, <2>1 DEF RowsInv, OperationsKnown
<1> QED BY <1>2, <1>3, <1>4 DEF RowsInv

LEMMA RowsCommit ==
  ASSUME RInv, RowsInv, NEW r \in Requests, Commit(r)
  PROVE  RowsInv'
<1>1. /\ batch' = batch /\ outcome' = outcome /\ stage' = [stage EXCEPT ![r] = "persisted"]
      /\ \A q \in Requests : stage[q] = "persisted" => stage'[q] = "persisted"
      /\ stage'[r] = "persisted"
      /\ \A q \in Requests : q # r => stage'[q] = stage[q]
  BY DEF Commit, vars, params, RInv, RecordsTyped
<1>2. \A q \in Requests : /\ Positions(q)' = Positions(q)
        /\ \A i : /\ About(q, Saved(q), i)' = About(q, Saved(q), i)
                  /\ About(q, ForReview(q), i)' = About(q, ForReview(q), i)
                  /\ RecordRow(q, i)' = RecordRow(q, i)
                  /\ ReviewRow(q, i)' = ReviewRow(q, i)
  BY <1>1, Frozen
<1>3. RecordRows'
  <2> SUFFICES ASSUME NEW i \in Ids, records'[i] # None
               PROVE  \E q \in Requests : /\ stage'[q] = "persisted" /\ About(q, Saved(q), i)' # {}
                                          /\ records'[i] = RecordRow(q, i)'
    BY DEF RecordRows
  <2>1. CASE About(r, Saved(r), i) # {}
    <3>1. records'[i] = RecordRow(r, i)
      BY <2>1 DEF Commit, Record, RecordRow
    <3> QED BY <1>1, <1>2, <2>1, <3>1
  <2>2. CASE About(r, Saved(r), i) = {}
    <3>1. records'[i] = records[i]
      BY <2>2 DEF Commit, Record
    <3> QED BY <1>1, <1>2, <3>1 DEF RowsInv, RecordRows
  <2> QED BY <2>1, <2>2
<1>4. ReviewRows'
  <2> SUFFICES ASSUME NEW i \in Ids, reviews'[i] # None
               PROVE  \E q \in Requests : /\ stage'[q] = "persisted" /\ About(q, ForReview(q), i)' # {}
                                          /\ reviews'[i] = ReviewRow(q, i)'
    BY DEF ReviewRows
  <2>1. CASE About(r, ForReview(r), i) # {}
    <3>1. reviews'[i] = ReviewRow(r, i)
      BY <2>1 DEF Commit, Review, ReviewRow
    <3> QED BY <1>1, <1>2, <2>1, <3>1
  <2>2. CASE About(r, ForReview(r), i) = {}
    <3>1. reviews'[i] = reviews[i]
      BY <2>2 DEF Commit, Review
    <3> QED BY <1>1, <1>2, <3>1 DEF RowsInv, ReviewRows
  <2> QED BY <2>1, <2>2
<1>5. OperationsKnown'
  <2>1. operations' = operations \cup {<<r, k>> : k \in Positions(r)}
    BY DEF Commit
  <2>2. {<<r, k>> : k \in Positions(r)} \subseteq OperationIds
    <3>1. Positions(r) \subseteq Nat \ {0}
      BY DEF Positions
    <3> QED BY <3>1 DEF OperationIds
  <2> QED BY <1>1, <1>2, <2>1, <2>2 DEF RowsInv, OperationsKnown
<1> QED BY <1>3, <1>4, <1>5 DEF RowsInv

-------------------------------------------------------------------------------
\* The invariant of rows and results.
AuditInv == RInv /\ FateInv /\ Unflawed /\ RowsInv

LEMMA DoneStays ==
  ASSUME RInv, [RememberNext]_rememberVars, NEW r \in Requests, pc[r] = "done"
  PROVE  batch'[r] = batch[r] /\ outcome'[r] = outcome[r] /\ pc'[r] = "done"
<1>1. ASSUME NEW q \in Requests, NEW b \in Batches, Receive(q, b)
      PROVE  batch'[r] = batch[r] /\ outcome'[r] = outcome[r] /\ pc'[r] = "done"
  BY <1>1 DEF Receive, Begin, RInv, Typed, TypeOK
<1>2. ASSUME NEW q \in Requests, Write(q)
      PROVE  batch'[r] = batch[r] /\ outcome'[r] = outcome[r] /\ pc'[r] = "done"
  BY <1>2, StepLocal DEF Write, RInv
<1>3. CASE UNCHANGED vars
  BY <1>3 DEF vars, params
<1> QED BY <1>1, <1>2, <1>3 DEF RememberNext, Lookup, Commit, Rollback, rememberVars

LEMMA AuditNext ==
  ASSUME AuditInv, [RememberNext]_rememberVars
  PROVE  FateInv' /\ Unflawed' /\ RowsInv'
<1> USE DEF AuditInv
<1>1. FateInv' /\ Unflawed'
  BY StepIsStep, FateNext, UnflawedNext
<1>2. \A r \in Requests : stage[r] = "persisted" => batch'[r] = batch[r] /\ outcome'[r] = outcome[r]
  BY DoneStays DEF RInv, Ended
<1>3. ASSUME NEW r \in Requests, Commit(r) PROVE RowsInv'
  BY <1>3, RowsCommit
<1>4. ASSUME UNCHANGED <<database, stage>> PROVE RowsInv'
  BY <1>2, <1>4, RowsStay
<1>5. ASSUME NEW r \in Requests, Lookup(r) \/ Rollback(r) PROVE RowsInv'
  <2>1. /\ UNCHANGED database
        /\ \A q \in Requests : stage'[q] = "persisted" <=> stage[q] = "persisted"
    BY <1>5 DEF Lookup, Rollback, RInv, RecordsTyped
  <2> QED BY <1>2, <2>1, RowsStay
<1>6. RowsInv'
  <2>1. ASSUME NEW r \in Requests, NEW b \in Batches, Receive(r, b) PROVE RowsInv'
    BY <1>4, <2>1 DEF Receive
  <2>2. ASSUME NEW r \in Requests, Write(r) PROVE RowsInv'
    BY <1>4, <2>2 DEF Write
  <2>3. CASE UNCHANGED rememberVars
    BY <1>4, <2>3 DEF rememberVars
  <2> QED BY <1>3, <1>5, <2>1, <2>2, <2>3 DEF RememberNext
<1> QED BY <1>1, <1>6

LEMMA AuditInit == RememberInit => FateInv /\ Unflawed /\ RowsInv
<1> SUFFICES ASSUME RememberInit PROVE FateInv /\ Unflawed /\ RowsInv
  OBVIOUS
<1>1. Init
  BY DEF RememberInit
<1>2. FateInv
  BY <1>1, FateInit
<1>3. Unflawed
  BY <1>1 DEF Init, Unflawed, Positions
<1>4. RowsInv
  BY DEF RememberInit, RowsInv, RecordRows, ReviewRows, OperationsKnown
<1> QED BY <1>2, <1>3, <1>4

\* What remember (api_v1.py:73-105) has filed of a request is what its write
\* reported, in every reachable state.
THEOREM AuditsMatchResults == RememberSpec => []AuditInv
<1>1. RememberSpec => [](FateInv /\ Unflawed /\ RowsInv)
  <2>1. RInv /\ RInv' /\ FateInv /\ Unflawed /\ RowsInv /\ [RememberNext]_rememberVars
          => FateInv' /\ Unflawed' /\ RowsInv'
    BY AuditNext DEF AuditInv
  <2> QED BY <2>1, AuditInit, AuditInvariant, PTL DEF RememberSpec
<1> QED BY <1>1, AuditInvariant, PTL DEF AuditInv

\* What a request reported of an item is about that item.
LEMMA ResultTyped ==
  ASSUME FateInv, NEW r \in Requests
  PROVE  /\ Len(outcome[r]) \in Nat
         /\ \A k \in Positions(r) : batch[r][k] \in Items
BY HandledTyped DEF Positions, FateInv, Typed, TypeOK

\* The item of a row is the last one about the memory, and the operation of a
\* candidate the first one: an item sent to review was converted.
LEMMA RowSources ==
  ASSUME FateInv, Unflawed, NEW r \in Requests, NEW i
  PROVE  /\ About(r, Saved(r), i) # {} =>
              Last(About(r, Saved(r), i)) \in About(r, Saved(r), i)
         /\ About(r, Saved(r), i) # {} =>
              \A l \in About(r, Saved(r), i) : l <= Last(About(r, Saved(r), i))
         /\ About(r, ForReview(r), i) # {} =>
              /\ Last(About(r, ForReview(r), i)) \in About(r, ForReview(r), i)
              /\ First(About(r, Converted(r), i)) \in About(r, Converted(r), i)
<1> DEFINE n == Len(outcome[r])
<1>1. n \in Nat
  BY ResultTyped
<1>2. /\ About(r, Saved(r), i) \subseteq 1..n
      /\ About(r, ForReview(r), i) \subseteq 1..n
      /\ About(r, Converted(r), i) \subseteq 1..n
  BY DEF About, Saved, ForReview, Converted, Positions
<1> HIDE DEF n
<1>3. ASSUME About(r, ForReview(r), i) # {}
      PROVE  /\ Last(About(r, ForReview(r), i)) \in About(r, ForReview(r), i)
             /\ First(About(r, Converted(r), i)) \in About(r, Converted(r), i)
  <2>1. Last(About(r, ForReview(r), i)) \in About(r, ForReview(r), i)
    BY <1>1, <1>2, <1>3, LastIsGreatest
  <2>2. About(r, Converted(r), i) # {}
    BY <1>3 DEF Unflawed, About, Converted, ForReview
  <2>3. About(r, Converted(r), i) \in SUBSET Nat
    BY <1>1, <1>2
  <2> QED BY <2>1, <2>2, <2>3, FirstIsLeast
<1> QED BY <1>1, <1>2, <1>3, LastIsGreatest

\* A candidate for review (audit_repo.py:84-106) is an item of the request it
\* names that was rejected for review, and its operation is one of that request
\* about the same memory that is in the database.
THEOREM CandidatesTraceable == RememberSpec => []ReviewsTraceable
<1>1. AuditInv => ReviewsTraceable
  <2> SUFFICES ASSUME AuditInv, NEW i \in Ids, reviews[i] # None
               PROVE  LET r == reviews[i].by
                          o == reviews[i].operation
                      IN  /\ o \in operations /\ o[1] = r
                          /\ batch[r][o[2]].id = i
                          /\ \E k \in ForReview(r) :
                               /\ batch[r][k] = reviews[i].item /\ reviews[i].item.id = i
                               /\ o[2] # k => Cardinality(About(r, Positions(r), i)) > 1
    BY DEF ReviewsTraceable
  <2>1. PICK r \in Requests : /\ stage[r] = "persisted" /\ About(r, ForReview(r), i) # {}
                              /\ reviews[i] = ReviewRow(r, i)
    BY DEF AuditInv, RowsInv, ReviewRows
  <2> DEFINE n == Len(outcome[r])
             k == Last(About(r, ForReview(r), i))
             j == First(About(r, Converted(r), i))
  <2>2. n \in Nat
    BY ResultTyped DEF AuditInv
  <2>4. k \in About(r, ForReview(r), i) /\ j \in About(r, Converted(r), i)
    BY <2>1, RowSources DEF AuditInv
  <2>5. k \in ForReview(r) /\ k \in Positions(r) /\ batch[r][k].id = i
    BY <2>4 DEF About, ForReview
  <2>8. j \in Positions(r) /\ batch[r][j].id = i
    BY <2>4 DEF About, Converted
  <2>9. <<r, j>> \in operations
    BY <2>1, <2>8 DEF AuditInv, RowsInv, OperationsKnown
  <2>10. j # k => Cardinality(About(r, Positions(r), i)) > 1
    <3>1. About(r, Positions(r), i) \in SUBSET (1..n) /\ j \in About(r, Positions(r), i) /\ k \in About(r, Positions(r), i)
      BY <2>5, <2>8 DEF About, Positions
    <3> HIDE DEF n, j, k
    <3> QED BY <2>2, <3>1, TwoMembers
  <2>11. /\ reviews[i].by = r /\ reviews[i].item = batch[r][k]
         /\ reviews[i].operation = <<r, j>>
    BY <2>1 DEF ReviewRow, OperationFor
  <2> HIDE DEF n, j, k
  <2> QED BY <2>5, <2>8, <2>9, <2>10, <2>11
<1> QED BY <1>1, AuditsMatchResults, PTL

-------------------------------------------------------------------------------
(* Records and the store.                                                  *)

\* The request saved the fact that is stored, with its last fact of that id.
Wrote(w, i) ==
  /\ ~dry[w]
  /\ \E k \in Saved(w) :
       /\ batch[w][k].kind = "fact" /\ batch[w][k].id = i
       /\ batch[w][k].slot = facts[i].slot /\ batch[w][k].value = facts[i].value
       /\ \A l \in Saved(w) : l > k /\ batch[w][l].id = i => batch[w][l].kind # "fact"

WroteLast ==
  \A i \in Stored :
    writer[i] \in Requests /\ \A w \in Requests : w = writer[i] => Wrote(w, i)

\* A request that began after w was answered has taken over what it saved.
TakenOver ==
  \A x \in Handled : \A w \in Requests :
    /\ w \notin Handled /\ pc[w] # "new" /\ <<x, w>> \notin together /\ ~dry[x]
    => \A k \in Saved(x) : batch[x][k].kind = "fact" => writer[batch[x][k].id] # w

Tells ==
  \A i \in Stored : stage[writer[i]] = "persisted" =>
    /\ records[i] # None
    /\ \/ records[i].by = writer[i]
       \/ <<records[i].by, writer[i]>> \in together
       \/ dry[records[i].by]
       \/ records[i].item.kind # "fact"

StoreInv == WroteLast /\ TakenOver /\ Tells

\* What a step other than SaveFact adds to the result is no saved fact.
LEMMA StepResult ==
  ASSUME FateInv, NEW r \in Requests, Step(r)
  PROVE  /\ pos[r] \in Nat /\ Positions(r) = 1..(pos[r] - 1)
         /\ Saved(r) \subseteq Saved(r)' /\ Saved(r)' \subseteq Saved(r) \cup {pos[r]}
         /\ SaveFact(r) => Saved(r)' = Saved(r) \cup {pos[r]}
         /\ ~SaveFact(r) /\ pos[r] \in Saved(r)' => Item(r).kind # "fact" \/ dry[r]
<1>1. /\ outcome[r] \in Seq(Fates) /\ Len(outcome[r]) = pos[r] - 1 /\ pos[r] \in Nat
      /\ Positions(r) = 1..(pos[r] - 1)
  BY DEF FateInv, Typed, TypeOK, Progress, Positions
<1>2. ASSUME NEW status, NEW reason, Settle(r, status, reason)
      PROVE  Saved(r)' = IF status \in {"saved", "accepted"} THEN Saved(r) \cup {pos[r]} ELSE Saved(r)
  <2>1. outcome'[r] = Append(outcome[r], [status |-> status, reason |-> reason])
    BY <1>2 DEF Settle, FateInv, Typed, TypeOK
  <2>2. /\ Len(outcome'[r]) = pos[r] /\ outcome'[r][pos[r]].status = status
        /\ \A k \in 1..(pos[r] - 1) : outcome'[r][k] = outcome[r][k]
    BY <1>1, <2>1
  <2>3. pos[r] \in 1..pos[r]
    BY <1>1, <2>1
  <2>4. Positions(r)' = 1..pos[r]
    BY <2>2 DEF Positions
  <2>5. 1..pos[r] = (1..(pos[r] - 1)) \cup {pos[r]}
    BY <1>1, <2>3
  <2> QED BY <1>1, <2>2, <2>4, <2>5 DEF Saved
<1>3. ASSUME UNCHANGED outcome PROVE Saved(r)' = Saved(r)
  BY <1>3 DEF Saved, Positions
<1>4. CASE SaveFact(r)
  BY <1>1, <1>2, <1>4 DEF SaveFact
<1>5. pos[r] \notin Saved(r)
  BY <1>1 DEF Saved
<1>6. CASE ~SaveFact(r)
  <2>1. CASE Convert(r)
    BY <1>1, <1>2, <1>3, <1>5, <1>6, <2>1 DEF Convert, Proceed
  <2>2. CASE RejectConflict(r) \/ RejectUnsure(r) \/ PassConflict(r) \/ DedupOther(r)
    BY <1>1, <1>2, <1>3, <1>5, <1>6, <2>2 DEF RejectConflict, RejectUnsure, PassConflict, DedupOther, Proceed
  <2>3. CASE DedupFact(r) \/ DedupNote(r)
    BY <1>1, <1>2, <1>3, <1>5, <1>6, <2>3 DEF DedupFact, DedupNote, Proceed
  <2>4. CASE SkipSave(r) \/ SaveNote(r)
    BY <1>1, <1>2, <1>5, <1>6, <2>4 DEF SkipSave, SaveNote
  <2>5. CASE SaveDecision(r)
    BY <1>1, <1>2, <1>5, <1>6, <2>5 DEF SaveDecision
  <2> QED BY <1>6, <2>1, <2>2, <2>3, <2>4, <2>5 DEF Step
<1> QED BY <1>4, <1>6

LEMMA ReceiveTells ==
  ASSUME AuditInv, StoreInv, NEW r \in Requests, NEW b \in Batches, Receive(r, b)
  PROVE  StoreInv'
<1>1. /\ pc[r] = "new" /\ pc'[r] # "new" /\ UNCHANGED <<facts, writer, dry, outcome, stage, records>>
      /\ \A q \in Requests : q # r => pc'[q] = pc[q] /\ batch'[q] = batch[q]
      /\ together \subseteq together'
  BY DEF Receive, Begin, AuditInv, FateInv, Typed, TypeOK, repos, database
<1>2. Positions(r) = {} /\ stage[r] = "write"
  BY <1>1 DEF AuditInv, RInv, Ended, RecordsTyped, FateInv, Typed, AtItem, Progress, Positions
<1>3. Saved(r) = {} /\ \A q \in Requests : Saved(q)' = Saved(q)
  BY <1>1, <1>2 DEF Saved, Positions
<1>4. Stored' = Stored
  BY <1>1 DEF Stored
<1>5. \A i \in Stored : writer[i] \in Requests /\ writer[i] # r
  BY <1>3 DEF StoreInv, WroteLast, Wrote
<1>6. WroteLast'
  <2>1. \A q \in Requests, i \in Stored : q # r /\ Wrote(q, i) => Wrote(q, i)'
    BY <1>1, <1>3 DEF Wrote
  <2> QED BY <1>1, <1>4, <1>5, <2>1 DEF StoreInv, WroteLast
<1>7. Handled' = Handled \cup {r}
  BY <1>1, <1>2 DEF Handled
<1>8. TakenOver'
  BY <1>1, <1>3, <1>7 DEF StoreInv, TakenOver, Handled
<1>9. Tells'
  BY <1>1, <1>4 DEF StoreInv, Tells
<1> QED BY <1>6, <1>8, <1>9 DEF StoreInv

LEMMA WriteTells ==
  ASSUME AuditInv, StoreInv, NEW r \in Requests, Write(r)
  PROVE  StoreInv'
<1> DEFINE p == pos[r]
<1>0. Step(r) /\ UNCHANGED <<database, stage, known, together>> /\ records' = records
  BY DEF Write, database
<1>1. /\ pc[r] \notin {"new", "done"} /\ batch' = batch /\ pc'[r] # "new"
      /\ \A q \in Requests : q # r => pc'[q] = pc[q] /\ outcome'[q] = outcome[q]
  BY <1>0, StepLocal DEF AuditInv, FateInv
<1>2. /\ p \in Nat /\ Positions(r) = 1..(p - 1)
      /\ Saved(r) \subseteq Saved(r)' /\ Saved(r)' \subseteq Saved(r) \cup {p}
      /\ SaveFact(r) => Saved(r)' = Saved(r) \cup {p}
      /\ ~SaveFact(r) /\ p \in Saved(r)' => batch[r][p].kind # "fact" \/ dry[r]
  BY <1>0, StepResult DEF AuditInv, Item
<1>3. \A q \in Requests : q # r => Saved(q)' = Saved(q)
  BY <1>1 DEF Saved, Positions
<1>4. stage[r] = "write" /\ dry' = dry
  <2>1. dry' = dry
    BY <1>0 DEF Step, Convert, RejectConflict, RejectUnsure, PassConflict,
         DedupFact, DedupNote, DedupOther, SkipSave, SaveFact, SaveNote, SaveDecision, params
  <2> QED BY <1>1, <2>1 DEF AuditInv, RInv, Ended
<1>5. Handled' = Handled /\ r \in Handled
  BY <1>0, <1>1, <1>4 DEF Handled
<1>6. Saved(r) \subseteq 1..(p - 1)
  BY <1>2 DEF Saved
<1> HIDE DEF p
<1>7. CASE SaveFact(r)
  <2>1. batch[r][p].kind = "fact" /\ ~dry[r] /\ batch[r][p].id \in Ids
    <3>1. Item(r) \in Facts
      BY <1>1, <1>7, ItemTyped DEF SaveFact, AuditInv, FateInv, Active
    <3> QED BY <1>7, <3>1 DEF SaveFact, Item, Facts, p
  <2>0. PICK id \in Ids : id = batch[r][p].id
    BY <2>1
  <2>2. /\ writer'[id] = r /\ facts'[id].slot = batch[r][p].slot /\ facts'[id].value = batch[r][p].value
        /\ \A i \in Ids : i # id => writer'[i] = writer[i] /\ facts'[i] = facts[i]
    BY <1>7, <2>0, <2>1 DEF SaveFact, AuditInv, FateInv, Typed, TypeOK, Item, p
  <2>3. WroteLast'
    <3>1. ASSUME NEW i \in Stored', i = id PROVE writer'[i] = r /\ Wrote(r, i)'
      <4>1. PICK k \in Saved(r)' : k = p
        BY <1>2, <1>7
      <4>2. \A l \in Saved(r)' : ~(l > k)
        BY <1>2, <1>6, <1>7, <4>1
      <4>3. /\ batch'[r][k].kind = "fact" /\ batch'[r][k].id = i
            /\ batch'[r][k].slot = facts'[i].slot /\ batch'[r][k].value = facts'[i].value
        BY <1>1, <2>0, <2>1, <2>2, <3>1, <4>1
      <4> QED BY <1>4, <2>1, <2>2, <3>1, <4>2, <4>3 DEF Wrote
    <3>2. ASSUME NEW i \in Stored', i # id, NEW w \in Requests, w = writer'[i]
          PROVE  Wrote(w, i)'
      <4>1. i \in Stored /\ writer[i] = w /\ facts'[i] = facts[i]
        BY <2>2, <3>2 DEF Stored
      <4>2. Wrote(w, i)
        BY <4>1, <3>2 DEF StoreInv, WroteLast
      <4>3. PICK k \in Saved(w) :
              /\ batch[w][k].kind = "fact" /\ batch[w][k].id = i
              /\ batch[w][k].slot = facts[i].slot /\ batch[w][k].value = facts[i].value
              /\ \A l \in Saved(w) : l > k /\ batch[w][l].id = i => batch[w][l].kind # "fact"
        BY <4>2 DEF Wrote
      <4>4. k \in Saved(w)' /\ \A l \in Saved(w)' : l \in Saved(w) \/ batch[w][l].id # i
        <5>1. CASE w = r
          BY <1>2, <1>7, <2>0, <3>2, <5>1
        <5>2. CASE w # r
          BY <1>3, <5>2
        <5> QED BY <5>1, <5>2
      <4> QED BY <1>1, <1>4, <4>1, <4>2, <4>3, <4>4 DEF Wrote
    <3>3. ASSUME NEW i \in Stored' PROVE writer'[i] \in Requests
      <4>1. CASE i = id
        BY <2>2, <4>1
      <4>2. CASE i # id
        BY <2>2, <3>3, <4>2 DEF Stored, StoreInv, WroteLast
      <4> QED BY <4>1, <4>2
    <3> QED BY <3>1, <3>2, <3>3 DEF WroteLast
  <2>4. TakenOver'
    <3> SUFFICES ASSUME NEW x \in Handled, NEW w \in Requests, w \notin Handled, pc'[w] # "new",
                        <<x, w>> \notin together, ~dry[x], NEW k \in Saved(x)',
                        batch[x][k].kind = "fact"
                 PROVE  writer'[batch[x][k].id] # w
      BY <1>0, <1>1, <1>4, <1>5 DEF TakenOver
    <3>0. w # r /\ pc[w] # "new"
      BY <1>1, <1>5
    <3>1. CASE k \in Saved(x)
      <4>1. writer[batch[x][k].id] # w
        BY <3>0, <3>1 DEF StoreInv, TakenOver
      <4>2. batch[x][k].id \in Ids
        <5>1. batch[x][k] \in Items
          BY <3>1, ResultTyped DEF AuditInv, Handled, Saved
        <5> QED BY <5>1 DEF Items, Facts, Notes, Decisions
      <4> QED BY <2>2, <3>0, <4>1, <4>2
    <3>2. CASE k \notin Saved(x)
      <4>1. x = r /\ k = p
        BY <1>2, <1>3, <3>2 DEF Handled
      <4> QED BY <2>0, <2>2, <3>0, <4>1
    <3> QED BY <3>1, <3>2
  <2>5. Tells'
    <3> SUFFICES ASSUME NEW i \in Stored', stage[writer'[i]] = "persisted"
                 PROVE  /\ records[i] # None
                        /\ \/ records[i].by = writer'[i]
                           \/ <<records[i].by, writer'[i]>> \in together
                           \/ dry[records[i].by]
                           \/ records[i].item.kind # "fact"
      BY <1>0, <1>4 DEF Tells
    <3>1. i # id
      BY <1>4, <2>2
    <3>2. i \in Stored /\ writer'[i] = writer[i]
      BY <2>2, <3>1 DEF Stored
    <3> QED BY <3>2 DEF StoreInv, Tells
  <2> QED BY <2>3, <2>4, <2>5 DEF StoreInv
<1>8. CASE ~SaveFact(r)
  <2>1. facts' = facts /\ writer' = writer /\ Stored' = Stored
    BY <1>0, <1>8 DEF Step, Convert, RejectConflict, RejectUnsure, PassConflict, DedupFact,
       DedupNote, DedupOther, SkipSave, SaveNote, SaveDecision, repos, history, Stored
  <2>2. WroteLast'
    <3>1. ASSUME NEW i \in Stored, NEW w \in Requests, Wrote(w, i)
          PROVE  Wrote(w, i)'
      <4>1. PICK k \in Saved(w) :
              /\ batch[w][k].kind = "fact" /\ batch[w][k].id = i
              /\ batch[w][k].slot = facts[i].slot /\ batch[w][k].value = facts[i].value
              /\ \A l \in Saved(w) : l > k /\ batch[w][l].id = i => batch[w][l].kind # "fact"
        BY <3>1 DEF Wrote
      <4>2. k \in Saved(w)' /\ \A l \in Saved(w)' : l \in Saved(w) \/ batch[w][l].kind # "fact"
        <5>1. CASE w = r
          BY <1>2, <1>8, <3>1, <5>1 DEF Wrote
        <5>2. CASE w # r
          BY <1>3, <5>2
        <5> QED BY <5>1, <5>2
      <4> QED BY <1>1, <1>4, <2>1, <3>1, <4>1, <4>2 DEF Wrote
    <3> QED BY <2>1, <3>1 DEF StoreInv, WroteLast
  <2>3. TakenOver'
    <3> SUFFICES ASSUME NEW x \in Handled, NEW w \in Requests, w \notin Handled, pc'[w] # "new",
                        <<x, w>> \notin together, ~dry[x], NEW k \in Saved(x)',
                        batch[x][k].kind = "fact"
                 PROVE  writer[batch[x][k].id] # w
      BY <1>0, <1>1, <1>4, <1>5, <2>1 DEF TakenOver
    <3>0. w # r /\ pc[w] # "new"
      BY <1>1, <1>5
    <3>1. k \in Saved(x)
      BY <1>2, <1>3, <1>8 DEF Handled
    <3> QED BY <3>0, <3>1 DEF StoreInv, TakenOver
  <2>4. Tells'
    BY <1>0, <1>4, <2>1 DEF StoreInv, Tells
  <2> QED BY <2>2, <2>3, <2>4 DEF StoreInv
<1> QED BY <1>7, <1>8

\* A request that leaves its handler was together with those that stay.
LEMMA LeaveTells ==
  ASSUME AuditInv, StoreInv, UNCHANGED <<vars, together>>, NEW r \in Requests,
         \A q \in Requests : q # r => stage'[q] = stage[q],
         r \in Handled
  PROVE  WroteLast' /\ TakenOver'
<1>1. /\ UNCHANGED <<facts, writer, dry, outcome, batch, pc>>
      /\ \A q : Saved(q)' = Saved(q)
  BY DEF vars, repos, params, history, Saved, Positions
<1>2. Stored' = Stored
  BY <1>1 DEF Stored
<1>3. \A q, i : Wrote(q, i)' <=> Wrote(q, i)
  BY <1>1 DEF Wrote
<1>4. WroteLast'
  BY <1>1, <1>2, <1>3 DEF StoreInv, WroteLast
<1>5. \A q \in Requests : q # r => (q \in Handled' <=> q \in Handled)
  BY <1>1 DEF Handled
<1>6. TakenOver'
  <2> SUFFICES ASSUME NEW x \in Handled', NEW w \in Requests, w \notin Handled', pc[w] # "new",
                      <<x, w>> \notin together, ~dry[x], NEW k \in Saved(x),
                      batch[x][k].kind = "fact"
               PROVE  writer[batch[x][k].id] # w
    BY <1>1 DEF TakenOver
  <2>1. x \in Requests /\ x \in Handled /\ x # w
    BY <1>5 DEF Handled
  <2>2. CASE w = r
    BY <2>1, <2>2 DEF AuditInv, RInv, Met
  <2>3. CASE w # r
    <3>1. w \notin Handled
      BY <1>5, <2>3
    <3> QED BY <2>1, <3>1 DEF StoreInv, TakenOver
  <2> QED BY <2>2, <2>3
<1> QED BY <1>4, <1>6

\* A commit replaces the record of a fact of another request only if it tells
\* of no fact, of a dry run, or of a request that was there at the same time.
LEMMA CommitTells ==
  ASSUME AuditInv, StoreInv, NEW r \in Requests, Commit(r)
  PROVE  StoreInv'
<1>1. /\ UNCHANGED <<vars, together>> /\ stage[r] = "commit" /\ pc[r] = "done"
      /\ stage' = [stage EXCEPT ![r] = "persisted"]
      /\ \A q \in Requests : q # r => stage'[q] = stage[q]
      /\ \A i \in Ids : records'[i] = Record(r, i)
  BY DEF Commit, AuditInv, RInv, RecordsTyped, Ended
<1>2. r \in Handled
  BY <1>1 DEF Handled
<1>3. WroteLast' /\ TakenOver'
  BY <1>1, <1>2, LeaveTells
<1>4. /\ facts' = facts /\ writer' = writer /\ dry' = dry /\ Stored' = Stored
  BY <1>1 DEF vars, repos, params, history, Stored
<1>5. Tells'
  <2> SUFFICES ASSUME NEW i \in Stored, stage'[writer[i]] = "persisted"
               PROVE  /\ records'[i] # None
                      /\ \/ records'[i].by = writer[i]
                         \/ <<records'[i].by, writer[i]>> \in together
                         \/ dry[records'[i].by]
                         \/ records'[i].item.kind # "fact"
    BY <1>1, <1>4 DEF Tells
  <2>0. PICK w \in Requests : w = writer[i] /\ Wrote(w, i) /\ i \in Ids
    BY DEF StoreInv, WroteLast, Stored
  <2>1. CASE About(r, Saved(r), i) = {}
    <3>0. records'[i] = records[i]
      BY <1>1, <2>0, <2>1 DEF Record
    <3>1. w # r
      BY <2>0, <2>1 DEF Wrote, About
    <3>2. stage[writer[i]] = "persisted"
      BY <1>1, <2>0, <3>1
    <3>3. /\ records[i] # None
          /\ \/ records[i].by = writer[i]
             \/ <<records[i].by, writer[i]>> \in together
             \/ dry[records[i].by]
             \/ records[i].item.kind # "fact"
      BY <3>2 DEF StoreInv, Tells
    <3> QED BY <3>0, <3>3
  <2>2. CASE About(r, Saved(r), i) # {}
    <3> DEFINE k == Last(About(r, Saved(r), i))
    <3>1. records'[i] = [by |-> r, item |-> batch[r][k]]
      BY <1>1, <2>0, <2>2 DEF Record
    <3>2. k \in About(r, Saved(r), i)
      BY <2>2, RowSources DEF AuditInv
    <3>3. k \in Saved(r) /\ batch[r][k].id = i /\ batch[r][k] \in Items
      BY <3>2, ResultTyped DEF About, Saved, AuditInv
    <3> HIDE DEF k
    <3>4. records'[i] # None
      BY <3>1, <3>3, RowsAreData DEF Rows
    <3>5. ASSUME w # r, <<r, w>> \notin together, ~dry[r] PROVE batch[r][k].kind # "fact"
      <4>1. stage[w] = "persisted"
        BY <1>1, <2>0, <3>5
      <4>2. w \notin Handled /\ pc[w] # "new"
        BY <4>1 DEF Handled, AuditInv, RInv, Ended
      <4> QED BY <1>2, <2>0, <3>3, <3>5, <4>2 DEF StoreInv, TakenOver
    <3> QED BY <2>0, <3>1, <3>4, <3>5
  <2> QED BY <2>1, <2>2
<1> QED BY <1>3, <1>5 DEF StoreInv

LEMMA StoreNext ==
  ASSUME AuditInv, StoreInv, [RememberNext]_rememberVars
  PROVE  StoreInv'
<1>1. ASSUME UNCHANGED <<vars, together, records>>, NEW r \in Handled,
             \A q \in Requests : q # r => stage'[q] = stage[q],
             stage'[r] # "persisted"
      PROVE  StoreInv'
  <2>1. WroteLast' /\ TakenOver'
    BY <1>1, LeaveTells DEF Handled
  <2>2. facts' = facts /\ writer' = writer /\ dry' = dry /\ Stored' = Stored
    BY <1>1 DEF vars, repos, params, history, Stored
  <2>3. Tells'
    BY <1>1, <2>2 DEF StoreInv, Tells, WroteLast
  <2> QED BY <2>1, <2>3 DEF StoreInv
<1>2. ASSUME NEW r \in Requests, Lookup(r) PROVE StoreInv'
  BY <1>1, <1>2 DEF Lookup, Handled, database, AuditInv, RInv, RecordsTyped
<1>3. ASSUME NEW r \in Requests, Rollback(r) PROVE StoreInv'
  <2>1. pc[r] = "done"
    BY <1>3 DEF Rollback, AuditInv, RInv, Ended
  <2> QED BY <1>1, <1>3, <2>1 DEF Rollback, Handled, database, AuditInv, RInv, RecordsTyped
<1>4. CASE UNCHANGED rememberVars
  BY <1>4 DEF rememberVars, vars, repos, params, history, database, StoreInv, WroteLast,
     Wrote, TakenOver, Tells, Stored, Saved, Positions, Handled
<1> QED BY <1>2, <1>3, <1>4, ReceiveTells, WriteTells, CommitTells DEF RememberNext

LEMMA StoreInit == RememberInit => StoreInv
<1> SUFFICES ASSUME RememberInit PROVE StoreInv
  OBVIOUS
<1>1. Stored = {} /\ Handled = {}
  BY DEF RememberInit, Init, Stored, Handled
<1> QED BY <1>1 DEF StoreInv, WroteLast, TakenOver, Tells

\* When a request has been audited (audit_repo.py:48-82), the record of a fact
\* it wrote last is there and tells what is stored, unless a request that
\* overlapped it, a dry run or an item of another kind replaced the record.
THEOREM RecordsTellStore == RememberSpec => []RecordTellsStore
<1>1. RememberSpec => []StoreInv
  <2>1. AuditInv /\ StoreInv /\ [RememberNext]_rememberVars => StoreInv'
    BY StoreNext
  <2> QED BY <2>1, StoreInit, AuditsMatchResults, PTL DEF RememberSpec
<1>2. AuditInv /\ StoreInv => RecordTellsStore
  <2> SUFFICES ASSUME AuditInv, StoreInv, NEW i \in Stored, stage[writer[i]] = "persisted"
               PROVE  /\ records[i] # None
                      /\ \/ /\ records[i].item.kind = "fact"
                            /\ records[i].item.slot = facts[i].slot
                            /\ records[i].item.value = facts[i].value
                         \/ <<records[i].by, writer[i]>> \in together
                         \/ dry[records[i].by]
                         \/ records[i].item.kind # "fact"
    BY DEF RecordTellsStore
  <2>1. PICK w \in Requests : w = writer[i] /\ Wrote(w, i) /\ i \in Ids
    BY DEF StoreInv, WroteLast, Stored
  <2>2. /\ records[i] # None
        /\ \/ records[i].by = w \/ <<records[i].by, w>> \in together
           \/ dry[records[i].by] \/ records[i].item.kind # "fact"
    BY <2>1 DEF StoreInv, Tells
  <2>3. ASSUME records[i].by = w, records[i].item.kind = "fact"
        PROVE  records[i].item.slot = facts[i].slot /\ records[i].item.value = facts[i].value
    <3> DEFINE n == Last(About(w, Saved(w), i))
    <3>1. records[i] = RecordRow(w, i) /\ About(w, Saved(w), i) # {}
      <4>1. PICK r \in Requests : records[i] = RecordRow(r, i) /\ About(r, Saved(r), i) # {}
        BY <2>1, <2>2 DEF AuditInv, RowsInv, RecordRows
      <4>2. r = w
        BY <2>3, <4>1 DEF RecordRow
      <4> QED BY <4>1, <4>2
    <3>2. records[i].item = batch[w][n]
      BY <3>1 DEF RecordRow
    <3>3. n \in About(w, Saved(w), i) /\ \A l \in About(w, Saved(w), i) : l <= n
      BY <3>1, RowSources DEF AuditInv
    <3> HIDE DEF n
    <3>4. PICK k \in Saved(w) :
            /\ batch[w][k].kind = "fact" /\ batch[w][k].id = i
            /\ batch[w][k].slot = facts[i].slot /\ batch[w][k].value = facts[i].value
            /\ \A l \in Saved(w) : l > k /\ batch[w][l].id = i => batch[w][l].kind # "fact"
      BY <2>1 DEF Wrote
    <3>5. k <= n /\ n \in Saved(w) /\ batch[w][n].id = i /\ k \in Int /\ n \in Int
      BY <3>3, <3>4 DEF About, Saved, Positions
    <3>6. k = n
      BY <2>3, <3>2, <3>4, <3>5
    <3> QED BY <3>2, <3>4, <3>6
  <2> QED BY <2>1, <2>2, <2>3
<1> QED BY <1>1, <1>2, AuditsMatchResults, PTL

-------------------------------------------------------------------------------
(* Types.                                                                  *)

TablesTyped ==
  /\ records \in [Ids -> Rows \cup {None}]
  /\ reviews \in [Ids -> Candidates \cup {None}]
  /\ together \subseteq Requests \X Requests

LEMMA CommitTyped ==
  ASSUME AuditInv, TablesTyped, NEW r \in Requests, Commit(r)
  PROVE  TablesTyped'
<1>1. \A k \in Positions(r) : batch[r][k] \in Items
  BY ResultTyped DEF AuditInv
<1>2. ASSUME NEW i \in Ids PROVE Record(r, i) \in Rows \cup {None}
  <2>1. CASE About(r, Saved(r), i) = {}
    BY <2>1 DEF Record, TablesTyped
  <2>2. CASE About(r, Saved(r), i) # {}
    <3>1. Last(About(r, Saved(r), i)) \in Positions(r)
      BY <2>2, RowSources DEF AuditInv, About, Saved
    <3> QED BY <1>1, <2>2, <3>1 DEF Record, Rows
  <2> QED BY <2>1, <2>2
<1>3. ASSUME NEW i \in Ids PROVE Review(r, i) \in Candidates \cup {None}
  <2>1. CASE About(r, ForReview(r), i) = {}
    BY <2>1 DEF Review, TablesTyped
  <2>2. CASE About(r, ForReview(r), i) # {}
    <3>1. Last(About(r, ForReview(r), i)) \in Positions(r)
      BY <2>2, RowSources DEF AuditInv, About, ForReview
    <3>2. First(About(r, Converted(r), i)) \in Nat \ {0}
      <4>1. First(About(r, Converted(r), i)) \in Positions(r)
        BY <2>2, RowSources DEF AuditInv, About, Converted
      <4> QED BY <4>1 DEF Positions
    <3>3. OperationFor(r, i) \in OperationIds
      BY <3>2 DEF OperationFor, OperationIds
    <3> QED BY <1>1, <2>2, <3>1, <3>3 DEF Review, Candidates
  <2> QED BY <2>1, <2>2
<1> QED BY <1>2, <1>3 DEF Commit, TablesTyped

\* The tables hold rows of requests and their items, and the handlers keep
\* their types, for any requests and batches.
THEOREM RememberTypeCorrect == RememberSpec => []RememberTypeOK
<1>1. RememberInit => TablesTyped
  BY DEF RememberInit, TablesTyped
<1>2. AuditInv /\ TablesTyped /\ [RememberNext]_rememberVars => TablesTyped'
  <2> SUFFICES ASSUME AuditInv, TablesTyped, [RememberNext]_rememberVars
               PROVE  TablesTyped'
    OBVIOUS
  <2>1. ASSUME NEW r \in Requests, NEW b \in Batches, Receive(r, b) PROVE TablesTyped'
    BY <2>1 DEF Receive, TablesTyped, Handled, database
  <2>2. ASSUME UNCHANGED <<database, together>> PROVE TablesTyped'
    BY <2>2 DEF TablesTyped, database
  <2> QED BY <2>1, <2>2, CommitTyped DEF RememberNext, Write, Lookup, Rollback, rememberVars
<1>3. AuditInv /\ TablesTyped => RememberTypeOK
  BY DEF AuditInv, RInv, Typed, RecordsTyped, RowsInv, OperationsKnown, TablesTyped, RememberTypeOK
<1> QED BY <1>1, <1>2, <1>3, AuditsMatchResults, PTL DEF RememberSpec

=============================================================================
