--------------------------- MODULE ProgramsProofs ---------------------------
(***************************************************************************)
(* What holds of an agent and of the server for every set of identifiers,  *)
(* triples, texts and statements, whatever clients write and a distiller   *)
(* proposes: types, that nothing is stored twice, that what was promised   *)
(* is held, that no turn is dropped unheard, and that an archive comes     *)
(* back whole.                                                             *)
(***************************************************************************)
EXTENDS Programs, TLAPS

LEMMA ItemTyped ==
  ASSUME NEW item \in Items
  PROVE  /\ item.kind \in {"fact", "note", "episode"}
         /\ item.kind = "fact" =>
              item.id \in FactIds \cup {Fresh} /\ item.triple \in Triples /\ item.open \in BOOLEAN
         /\ item.kind = "note" => item.id \in NoteIds \cup {Fresh} /\ item.text \in Texts
         /\ item.kind = "episode" => item.id \in EpisodeIds \cup {Fresh}
<1>1. CASE item \in FactItems
  BY <1>1 DEF FactItems
<1>2. CASE item \in NoteItems
  BY <1>2 DEF NoteItems
<1>3. CASE item \in EpisodeItems
  BY <1>3 DEF EpisodeItems
<1> QED BY <1>1, <1>2, <1>3 DEF Items

LEMMA IdsTyped ==
  ASSUME NEW item \in Items
  PROVE  /\ item.kind = "fact" => IdsFor(item) \subseteq FactIds
         /\ item.kind = "note" => IdsFor(item) \subseteq NoteIds
         /\ item.kind = "episode" => IdsFor(item) \subseteq EpisodeIds
<1>1. CASE item.kind = "fact"
  BY <1>1, ItemTyped DEF IdsFor
<1>2. CASE item.kind = "note"
  BY <1>2, ItemTyped DEF IdsFor
<1>3. CASE item.kind = "episode"
  BY <1>3, ItemTyped DEF IdsFor
<1> QED BY <1>1, <1>2, <1>3

-------------------------------------------------------------------------------
(* The steps, by what they do to the repositories.                         *)

\* Nothing, save an item, maintain facts, clear, reset or restart.
MemoryStep ==
  \/ UNCHANGED <<memory, ledger>>
  \/ \E item \in Items : Save(item)
  \/ Maintain
  \/ \E parts \in SUBSET Parts : Clear(parts)
  \/ Reset
  \/ Restart

LEMMA HandleSaves ==
  ASSUME TypeOK, Handle
  PROVE  UNCHANGED <<memory, ledger>> \/ \E item \in Items : Save(item)
<1>1. PICK item \in Due : IF request.dry THEN UNCHANGED <<memory, ledger>> ELSE Save(item)
  BY DEF Handle
<1>2. Due \subseteq request.items
  BY DEF Due
<1>3. request.items \subseteq Items
  BY DEF TypeOK, MemoryTypeOK
<1> QED BY <1>1, <1>2, <1>3

LEMMA AgentSteps ==
  ASSUME TypeOK, AgentNext
  PROVE  MemoryStep
<1>1. CASE SessionNext
  BY <1>1 DEF SessionNext, IngestTurn, ClearSession, Commit, CommitFails, EndCommit, MemoryStep
<1>2. CASE \E item \in WriteItems[program] : Write(item)
  <2>1. WriteItems[program] \subseteq Items
    BY ProgramsConstants DEF TypeOK, MemoryTypeOK
  <2> QED BY <1>2, <2>1 DEF Write, MemoryStep
<1>3. CASE Handle
  BY <1>3, HandleSaves DEF MemoryStep
<1>4. CASE Maintain
  BY <1>4 DEF MemoryStep
<1>5. CASE \E parts \in SUBSET Parts : ClearAll(parts) \/ Clear(parts)
  BY <1>5 DEF ClearAll, MemoryStep
<1> QED BY <1>1, <1>2, <1>3, <1>4, <1>5, Zenon DEF AgentNext

LEMMA ServerSteps ==
  ASSUME TypeOK, ServerNext
  PROVE  MemoryStep
<1>1. CASE ExportNotes \/ ExportFacts \/ ExportEpisodes \/ Import \/ EndImport
  BY <1>1 DEF ExportNotes, ExportFacts, ExportEpisodes, Import, EndImport, MemoryStep
<1>2. CASE ImportItem
  BY <1>2, HandleSaves DEF ImportItem, MemoryStep
<1>3. CASE Reset \/ Restart
  BY <1>3 DEF MemoryStep
<1>4. CASE \E item \in WriteItems[program] : Write(item)
  <2>1. WriteItems[program] \subseteq Items
    BY ProgramsConstants DEF TypeOK, MemoryTypeOK
  <2> QED BY <1>4, <2>1 DEF Write, MemoryStep
<1> QED BY <1>1, <1>2, <1>3, <1>4, Zenon DEF ServerNext, ArchiveNext

LEMMA Steps ==
  ASSUME TypeOK, [Next]_vars
  PROVE  MemoryStep
<1>1. CASE UNCHANGED vars
  BY <1>1 DEF vars, MemoryStep
<1> QED BY <1>1, AgentSteps, ServerSteps DEF Next

\* An item is added to one repository, or nothing of the memory changes.
LEMMA SaveAdds ==
  ASSUME NEW item \in Items, Save(item)
  PROVE  \/ item.kind = "fact" /\ \E i \in FactIds : i \in IdsFor(item) /\ AddFact(item, i)
         \/ item.kind = "note" /\ \E i \in NoteIds : i \in IdsFor(item) /\ AddNote(item, i)
         \/ item.kind = "episode" /\ \E i \in EpisodeIds : i \in IdsFor(item) /\ AddEpisode(item, i)
         \/ KnownFact(item) \/ KnownNote(item) \/ Refuse(item)
<1>1. ASSUME NEW i \in IdsFor(item), AddFact(item, i)
      PROVE  item.kind = "fact" /\ i \in FactIds
  BY <1>1, IdsTyped DEF AddFact
<1>2. ASSUME NEW i \in IdsFor(item), AddNote(item, i)
      PROVE  item.kind = "note" /\ i \in NoteIds
  BY <1>2, IdsTyped DEF AddNote
<1>3. ASSUME NEW i \in IdsFor(item), AddEpisode(item, i)
      PROVE  item.kind = "episode" /\ i \in EpisodeIds
  BY <1>3, IdsTyped DEF AddEpisode
<1> QED BY <1>1, <1>2, <1>3, Zenon DEF Save

-------------------------------------------------------------------------------
(* Type correctness.                                                       *)

ReposTyped ==
  /\ facts \in [FactIds -> Facts \cup {None}]
  /\ notes \in [NoteIds -> Texts \cup {None}]
  /\ signatures \in [Texts -> NoteIds \cup {None}]
  /\ episodes \in SUBSET EpisodeIds
  /\ given \in SUBSET FactIds
  /\ promised \in SUBSET Contents
  /\ forgotten \in SUBSET Texts

LEMMA FactTyped ==
  ASSUME ReposTyped, NEW i \in FactIds, facts[i] # None
  PROVE  facts[i] \in Facts /\ facts[i].triple \in Triples /\ facts[i].open \in BOOLEAN
BY DEF ReposTyped, Facts

LEMMA SaveTyped ==
  ASSUME ReposTyped, NEW item \in Items, Save(item)
  PROVE  ReposTyped'
<1>1. ASSUME item.kind = "fact", NEW i \in FactIds, AddFact(item, i)
      PROVE  ReposTyped'
  <2>1. [triple |-> item.triple, open |-> item.open] \in Facts /\ item.triple \in Contents
    BY <1>1, ItemTyped DEF Facts, Contents
  <2> QED BY <1>1, <2>1 DEF ReposTyped, AddFact
<1>2. ASSUME item.kind = "note", NEW i \in NoteIds, AddNote(item, i)
      PROVE  ReposTyped'
  <2>1. item.text \in Texts /\ item.text \in Contents
    BY <1>2, ItemTyped DEF Contents
  <2>2. {notes[i]} \ {None} \subseteq Texts
    BY DEF ReposTyped
  <2> QED BY <1>2, <2>1, <2>2 DEF ReposTyped, AddNote
<1>3. ASSUME NEW i \in EpisodeIds, AddEpisode(item, i)
      PROVE  ReposTyped'
  BY <1>3 DEF ReposTyped, AddEpisode, Contents
<1>4. CASE KnownFact(item)
  BY <1>4, ItemTyped DEF ReposTyped, KnownFact, Contents, memory
<1>5. CASE KnownNote(item)
  BY <1>5, ItemTyped DEF ReposTyped, KnownNote, Contents, memory
<1>6. CASE Refuse(item)
  BY <1>6 DEF ReposTyped, Refuse, memory, ledger
<1> QED BY <1>1, <1>2, <1>3, <1>4, <1>5, <1>6, SaveAdds, Zenon

LEMMA MaintainTyped ==
  ASSUME ReposTyped, Maintain
  PROVE  ReposTyped'
<1>1. ASSUME NEW i \in FactIds, Retract(i)
      PROVE  ReposTyped'
  <2>1. [facts[i] EXCEPT !.open = FALSE] \in Facts
    BY <1>1, FactTyped DEF Retract, Has, Facts
  <2>2. facts' = [facts EXCEPT ![i] = [facts[i] EXCEPT !.open = FALSE]]
    BY <1>1 DEF Retract, ReposTyped
  <2> QED BY <1>1, <2>1, <2>2 DEF ReposTyped, Retract
<1>2. ASSUME NEW i \in FactIds, HardDelete(i)
      PROVE  ReposTyped'
  BY <1>2 DEF ReposTyped, HardDelete
<1>3. ASSUME NEW i \in FactIds, NEW t \in Triples, NEW open \in BOOLEAN, Patch(i, t, open)
      PROVE  ReposTyped'
  <2>1. [triple |-> t, open |-> open] \in Facts
    BY DEF Facts
  <2> QED BY <1>3, <2>1 DEF ReposTyped, Patch
<1>4. ASSUME NEW i \in FactIds, NEW j \in FactIds, NEW t \in Triples, Supersede(i, j, t)
      PROVE  ReposTyped'
  <2>1. [facts[i] EXCEPT !.open = FALSE] \in Facts
    BY <1>4, FactTyped DEF Supersede, Has, Facts
  <2>2. [triple |-> t, open |-> TRUE] \in Facts
    BY DEF Facts
  <2>3. facts' = [facts EXCEPT ![i] = [facts[i] EXCEPT !.open = FALSE],
                               ![j] = [triple |-> t, open |-> TRUE]]
    BY <1>4 DEF Supersede, ReposTyped
  <2> QED BY <1>4, <2>1, <2>2, <2>3 DEF ReposTyped, Supersede
<1> QED BY <1>1, <1>2, <1>3, <1>4, Zenon DEF Maintain

LEMMA EmptyTyped ==
  /\ NoFacts \in [FactIds -> Facts \cup {None}]
  /\ NoNotes \in [NoteIds -> Texts \cup {None}]
  /\ NoSignatures \in [Texts -> NoteIds \cup {None}]
BY DEF NoFacts, NoNotes, NoSignatures

LEMMA MemoryStepTyped ==
  ASSUME ReposTyped, MemoryStep
  PROVE  ReposTyped'
<1>1. CASE UNCHANGED <<memory, ledger>>
  BY <1>1 DEF ReposTyped, memory, ledger
<1>2. ASSUME NEW parts \in SUBSET Parts, Clear(parts)
      PROVE  ReposTyped'
  BY <1>2, EmptyTyped DEF ReposTyped, Clear
<1>3. CASE Reset
  BY <1>3, EmptyTyped DEF ReposTyped, Reset
<1>4. CASE Restart
  BY <1>4, EmptyTyped DEF ReposTyped, Restart
<1> QED BY <1>1, <1>2, <1>3, <1>4, SaveTyped, MaintainTyped, Zenon DEF MemoryStep

Requests == [for : {"nothing", "commit", "import"}, items : SUBSET Items,
             dry : BOOLEAN, clear : BOOLEAN]

LEMMA IdleTyped == Idle \in Requests
BY DEF Idle, Requests

LEMMA HandleTyped ==
  ASSUME request \in Requests, Handle
  PROVE  /\ request' \in Requests /\ request'.items \subseteq request.items
         /\ request'.for = request.for /\ request'.dry = request.dry
<1>1. PICK item : request' = [request EXCEPT !.items = request.items \ {item}]
  BY DEF Handle
<1> QED BY <1>1 DEF Requests

LEMMA AcceptedTyped ==
  ASSUME NEW candidates \in Proposals
  PROVE  Accepted(candidates) \subseteq Items
<1>1. candidates \subseteq Candidates
  BY SessionConstants DEF Proposals
<1> QED BY <1>1 DEF Accepted, Candidates

LEMMA ArchivedTyped ==
  ASSUME ArchiveTypeOK
  PROVE  FactsOf \cup NotesOf \cup EpisodesOf \subseteq Items
<1>1. FactsOf \subseteq FactItems
  <2>1. ASSUME NEW i \in FactIds, archive.facts[i] # None
        PROVE  archive.facts[i] \in Facts
    BY <2>1 DEF ArchiveTypeOK
  <2> QED BY <2>1 DEF FactsOf, FactItems, Facts
<1>2. NotesOf \subseteq NoteItems
  BY DEF ArchiveTypeOK, NotesOf, NoteItems
<1>3. EpisodesOf \subseteq EpisodeItems
  BY DEF ArchiveTypeOK, EpisodesOf, EpisodeItems
<1> QED BY <1>1, <1>2, <1>3 DEF Items

LEMMA RequestTyped ==
  ASSUME TypeOK, [Next]_vars
  PROVE  request' \in Requests /\ program' = program
<1>0. request \in Requests
  BY DEF TypeOK, MemoryTypeOK, Requests
<1>1. CASE UNCHANGED vars
  BY <1>0, <1>1 DEF vars
<1>2. CASE AgentNext
  <2>1. CASE SessionNext
    <3>1. ASSUME NEW candidates \in Proposals, NEW dry \in BOOLEAN, NEW clear \in BOOLEAN,
                 Commit(candidates, dry, clear)
          PROVE  request' \in Requests /\ program' = program
      BY <3>1, AcceptedTyped DEF Commit, Requests
    <3>2. CASE EndCommit
      BY <3>2, IdleTyped DEF EndCommit
    <3>3. CASE (\E s \in Statements : IngestTurn(s)) \/ ClearSession \/ CommitFails
      BY <3>3, <1>0 DEF IngestTurn, ClearSession, CommitFails
    <3> QED BY <2>1, <3>1, <3>2, <3>3, Zenon DEF SessionNext
  <2>2. CASE \E item \in WriteItems[program] : Write(item)
    BY <2>2, <1>0 DEF Write
  <2>3. CASE Handle
    BY <2>3, <1>0, HandleTyped DEF Handle
  <2>4. CASE Maintain
    BY <2>4, <1>0 DEF Maintain, Retract, HardDelete, Patch, Supersede
  <2>5. CASE \E parts \in SUBSET Parts : ClearAll(parts) \/ Clear(parts)
    BY <2>5, <1>0 DEF ClearAll, Clear
  <2> QED BY <1>2, <2>1, <2>2, <2>3, <2>4, <2>5, Zenon DEF AgentNext
<1>3. CASE ServerNext
  <2>1. CASE ExportNotes \/ ExportFacts \/ ExportEpisodes \/ Reset
    BY <2>1, <1>0 DEF ExportNotes, ExportFacts, ExportEpisodes, Reset
  <2>2. CASE Import
    <3>1. FactsOf \cup NotesOf \cup EpisodesOf \in SUBSET Items
      BY ArchivedTyped DEF TypeOK
    <3> QED BY <2>2, <3>1 DEF Import, Requests
  <2>3. CASE ImportItem
    BY <2>3, <1>0, HandleTyped DEF ImportItem, Handle
  <2>4. CASE EndImport
    BY <2>4, IdleTyped DEF EndImport
  <2>5. CASE Restart
    BY <2>5, IdleTyped DEF Restart
  <2>6. CASE \E item \in WriteItems[program] : Write(item)
    BY <2>6, <1>0 DEF Write
  <2> QED BY <1>3, <2>1, <2>2, <2>3, <2>4, <2>5, <2>6, Zenon DEF ServerNext, ArchiveNext
<1> QED BY <1>1, <1>2, <1>3, Zenon DEF Next

LEMMA SessionTyped ==
  ASSUME TypeOK, [Next]_vars
  PROVE  SessionTypeOK'
<1>0. SessionTypeOK
  BY DEF TypeOK
<1>1. CASE UNCHANGED session
  BY <1>0, <1>1 DEF SessionTypeOK, session
<1>2. {turns[k] : k \in 1..Len(turns)} \subseteq Turns
  BY <1>0 DEF SessionTypeOK
<1>3. CASE SessionNext
  <2>1. ASSUME NEW s \in Statements, IngestTurn(s)
        PROVE  SessionTypeOK'
    <3>1. [said |-> s, during |-> Busy, heard |-> FALSE] \in Turns
      BY DEF Turns, Busy
    <3> QED BY <2>1, <3>1, <1>0 DEF SessionTypeOK, IngestTurn
  <2>2. CASE ClearSession
    BY <2>2, <1>0 DEF SessionTypeOK, ClearSession
  <2>3. ASSUME NEW candidates \in Proposals, NEW dry \in BOOLEAN, NEW clear \in BOOLEAN,
               Commit(candidates, dry, clear)
        PROVE  SessionTypeOK'
    <3>1. ASSUME NEW k \in 1..Len(turns)
          PROVE  [turns[k] EXCEPT !.heard = turns[k].heard \/ ~dry] \in Turns
      <4>1. turns[k] \in Turns
        BY <1>0 DEF SessionTypeOK
      <4> QED BY <4>1 DEF Turns
    <3>2. turns' = [k \in 1..Len(turns) |-> [turns[k] EXCEPT !.heard = turns[k].heard \/ ~dry]]
      BY <2>3 DEF Commit
    <3>3. Len(turns) \in Nat
      BY <1>0 DEF SessionTypeOK
    <3>4. turns' \in Seq(Turns)
      BY <3>1, <3>2, <3>3
    <3> QED BY <2>3, <3>4 DEF SessionTypeOK, Commit
  <2>4. CASE CommitFails
    BY <2>4, <1>0 DEF SessionTypeOK, CommitFails, session
  <2>5. CASE EndCommit
    <3>1. CASE UNCHANGED session
      BY <3>1, <1>0 DEF SessionTypeOK, session
    <3>2. CASE dropped' = {turns[k] : k \in 1..Len(turns)} /\ turns' = <<>>
      <4>1. dropped' \in SUBSET Turns
        BY <3>2, <1>2
      <4>2. turns' \in Seq(Turns)
        BY <3>2
      <4> QED BY <4>1, <4>2 DEF SessionTypeOK
    <3> QED BY <2>5, <3>1, <3>2, Zenon DEF EndCommit
  <2> QED BY <1>3, <2>1, <2>2, <2>3, <2>4, <2>5, Zenon DEF SessionNext
<1>4. ASSUME NEW parts \in SUBSET Parts, ClearAll(parts)
      PROVE  SessionTypeOK'
  BY <1>4, <1>0 DEF SessionTypeOK, ClearAll
<1> QED BY <1>1, <1>3, <1>4, Zenon DEF Next, AgentNext, ServerNext, vars

LEMMA ArchiveTyped ==
  ASSUME TypeOK, [Next]_vars
  PROVE  ArchiveTypeOK'
<1>0. ArchiveTypeOK /\ ReposTyped
  BY DEF TypeOK, MemoryTypeOK, ReposTyped
<1>1. CASE UNCHANGED adminVars
  BY <1>0, <1>1 DEF ArchiveTypeOK, adminVars
<1>2. CASE ExportNotes
  BY <1>2, <1>0, EmptyTyped DEF ArchiveTypeOK, ReposTyped, ExportNotes, Disturb
<1>3. CASE ExportFacts
  BY <1>3, <1>0 DEF ArchiveTypeOK, ReposTyped, ExportFacts, Disturb
<1>4. CASE ExportEpisodes
  BY <1>4, <1>0 DEF ArchiveTypeOK, ReposTyped, ExportEpisodes, Disturb
<1>5. CASE Import
  <2>1. restore' \in {"no", "alone", "complete"}
    BY <1>5 DEF Import
  <2>2. remembered' \in SUBSET Texts
    BY <1>5 DEF Import
  <2> QED BY <1>5, <2>1, <2>2, <1>0 DEF ArchiveTypeOK, Import, archiveVars
<1>6. CASE EndImport
  BY <1>6, <1>0 DEF ArchiveTypeOK, EndImport, archiveVars
<1>7. CASE Disturb /\ UNCHANGED archiveVars
  BY <1>7, <1>0 DEF ArchiveTypeOK, Disturb, archiveVars
<1>8. CASE ArchiveNext
  <2>1. CASE ImportItem
    BY <2>1, <1>1 DEF ImportItem
  <2>2. CASE Reset \/ Restart
    BY <2>2, <1>7 DEF Reset, Restart
  <2> QED BY <1>8, <2>1, <2>2, <1>2, <1>3, <1>4, <1>5, <1>6 DEF ArchiveNext
<1> QED BY <1>1, <1>7, <1>8, Zenon DEF Next, AgentNext, ServerNext, vars

LEMMA TypesKept == TypeOK /\ [Next]_vars => TypeOK'
<1> SUFFICES ASSUME TypeOK, [Next]_vars
             PROVE  TypeOK'
  OBVIOUS
<1>1. ReposTyped'
  BY Steps, MemoryStepTyped DEF TypeOK, MemoryTypeOK, ReposTyped
<1>2. MemoryTypeOK'
  BY <1>1, RequestTyped DEF TypeOK, MemoryTypeOK, ReposTyped, Requests
<1> QED BY <1>2, SessionTyped, ArchiveTyped DEF TypeOK

LEMMA InitTyped == Init => TypeOK
<1> SUFFICES ASSUME Init
             PROVE  TypeOK
  OBVIOUS
<1>1. MemoryTypeOK
  BY EmptyTyped, IdleTyped DEF Init, MemoryInit, MemoryTypeOK, Requests
<1>2. SessionTypeOK
  BY DEF Init, SessionInit, SessionTypeOK
<1>3. ArchiveTypeOK
  BY EmptyTyped DEF Init, ArchiveInit, ArchiveTypeOK
<1> QED BY <1>1, <1>2, <1>3 DEF TypeOK

\* Repositories, requests, sessions and archives keep their types.
THEOREM TypeCorrect == Spec => []TypeOK
BY InitTyped, TypesKept, PTL DEF Spec

-------------------------------------------------------------------------------
(* Nothing is stored twice.  Of the notes this is so because each is filed *)
(* under its text, a condition which the policies then ask about.          *)

FactsOnce ==
  \A i, j \in FactIds :
    i # j /\ Has(i) /\ Has(j) /\ facts[i].triple = facts[j].triple => {i, j} \cap given # {}

NotesFiled == \A i \in NoteIds : notes[i] # None => signatures[notes[i]] = i

LEMMA NothingTwiceFollows == ReposTyped /\ FactsOnce /\ NotesFiled => NothingTwice
BY DEF FactsOnce, NotesFiled, NothingTwice, ReposTyped

LEMMA FactsOnceSaved ==
  ASSUME ReposTyped, FactsOnce, NEW item \in Items, Save(item)
  PROVE  FactsOnce'
<1>1. ASSUME item.kind = "fact", NEW i \in FactIds, AddFact(item, i)
      PROVE  FactsOnce'
  <2>1. ASSUME NEW j \in FactIds, NEW k \in FactIds, j # k, Has(j)', Has(k)',
               facts'[j].triple = facts'[k].triple
        PROVE  {j, k} \cap given' # {}
    <3>1. facts'[i].triple = item.triple
      BY <1>1 DEF AddFact, ReposTyped
    <3>2. \A m \in FactIds \ {i} : facts'[m] = facts[m]
      BY <1>1 DEF AddFact, ReposTyped
    <3>3. \A m \in FactIds : facts[m] # None => facts[m].triple # item.triple
      BY <1>1 DEF AddFact, Holders
    <3>4. j # i /\ k # i
      BY <2>1, <3>1, <3>2, <3>3 DEF Has
    <3>5. {j, k} \cap given # {}
      BY <2>1, <3>2, <3>4 DEF FactsOnce, Has
    <3> QED BY <1>1, <3>4, <3>5 DEF AddFact
  <2> QED BY <2>1 DEF FactsOnce, Has
<1>2. CASE UNCHANGED <<facts, given>>
  BY <1>2 DEF FactsOnce, Has
<1>3. ASSUME NEW i \in NoteIds, AddNote(item, i)
      PROVE  FactsOnce'
  BY <1>3, <1>2 DEF AddNote
<1>4. ASSUME NEW i \in EpisodeIds, AddEpisode(item, i)
      PROVE  FactsOnce'
  BY <1>4, <1>2 DEF AddEpisode
<1>5. CASE KnownFact(item) \/ KnownNote(item) \/ Refuse(item)
  BY <1>5, <1>2 DEF KnownFact, KnownNote, Refuse, memory, ledger
<1> QED BY <1>1, <1>3, <1>4, <1>5, SaveAdds, Zenon

LEMMA FactsOnceMaintained ==
  ASSUME ReposTyped, FactsOnce, Maintain
  PROVE  FactsOnce'
<1>1. ASSUME NEW i \in FactIds, Retract(i)
      PROVE  FactsOnce'
  <2>1. \A m \in FactIds : (facts'[m] # None => facts[m] # None)
                           /\ (facts[m] # None => facts'[m].triple = facts[m].triple)
    BY <1>1, FactTyped DEF Retract, Has, Facts, ReposTyped
  <2> QED BY <1>1, <2>1 DEF FactsOnce, Has, Retract
<1>2. ASSUME NEW i \in FactIds, HardDelete(i)
      PROVE  FactsOnce'
  <2>1. facts'[i] = None /\ \A m \in FactIds \ {i} : facts'[m] = facts[m]
    BY <1>2 DEF HardDelete, ReposTyped
  <2> QED BY <1>2, <2>1 DEF FactsOnce, Has, HardDelete
<1>3. ASSUME NEW i \in FactIds, NEW t \in Triples, NEW open \in BOOLEAN, Patch(i, t, open)
      PROVE  FactsOnce'
  <2>1. \A m \in FactIds \ {i} : facts'[m] = facts[m]
    BY <1>3 DEF Patch, ReposTyped
  <2> QED BY <1>3, <2>1 DEF FactsOnce, Has, Patch
<1>4. ASSUME NEW i \in FactIds, NEW j \in FactIds, NEW t \in Triples, Supersede(i, j, t)
      PROVE  FactsOnce'
  <2>1. \A m \in FactIds \ {j} : (facts'[m] # None => facts[m] # None)
                                 /\ (facts[m] # None => facts'[m].triple = facts[m].triple)
    BY <1>4, FactTyped DEF Supersede, Has, Facts, ReposTyped
  <2>2. given' = given \cup {j}
    BY <1>4 DEF Supersede
  <2> QED BY <2>1, <2>2 DEF FactsOnce, Has
<1> QED BY <1>1, <1>2, <1>3, <1>4, Zenon DEF Maintain

LEMMA FactsOnceKept ==
  ASSUME ReposTyped, FactsOnce, MemoryStep
  PROVE  FactsOnce'
<1>1. CASE UNCHANGED <<facts, given>>
  BY <1>1 DEF FactsOnce, Has
<1>2. CASE facts' = NoFacts
  BY <1>2 DEF FactsOnce, Has, NoFacts
<1>3. ASSUME NEW parts \in SUBSET Parts, Clear(parts)
      PROVE  FactsOnce'
  BY <1>3, <1>1, <1>2 DEF Clear
<1>4. CASE Reset \/ Restart
  BY <1>4, <1>2 DEF Reset, Restart
<1>5. CASE UNCHANGED <<memory, ledger>>
  BY <1>5, <1>1 DEF memory, ledger
<1> QED BY <1>3, <1>4, <1>5, FactsOnceSaved, FactsOnceMaintained, Zenon DEF MemoryStep

LEMMA NotesFiledKept ==
  ASSUME ReposTyped, NotesFiled, MemoryStep
  PROVE  NotesFiled'
<1>1. CASE UNCHANGED <<notes, signatures>>
  BY <1>1 DEF NotesFiled
<1>2. CASE notes' = NoNotes
  BY <1>2 DEF NotesFiled, NoNotes
<1>3. ASSUME NEW item \in Items, Save(item)
      PROVE  NotesFiled'
  <2>1. ASSUME item.kind = "note", NEW i \in NoteIds, AddNote(item, i)
        PROVE  NotesFiled'
    <3>1. item.text \in Texts
      BY <2>1, ItemTyped
    <3>2. notes'[i] = item.text /\ \A m \in NoteIds \ {i} : notes'[m] = notes[m]
      BY <2>1 DEF AddNote, ReposTyped
    <3>3. signatures'[item.text] = i /\ \A t \in Texts \ {item.text} : signatures'[t] = signatures[t]
      BY <2>1, <3>1 DEF AddNote, ReposTyped
    <3>4. \A m \in NoteIds : notes[m] # item.text
      BY <2>1, <3>1, MemoryConstants DEF AddNote, NotesFiled
    <3>5. \A m \in NoteIds : notes[m] # None => notes[m] \in Texts
      BY DEF ReposTyped
    <3> QED BY <3>2, <3>3, <3>4, <3>5 DEF NotesFiled
  <2>2. ASSUME NEW i \in FactIds, AddFact(item, i)
        PROVE  NotesFiled'
    BY <2>2, <1>1 DEF AddFact
  <2>3. ASSUME NEW i \in EpisodeIds, AddEpisode(item, i)
        PROVE  NotesFiled'
    BY <2>3, <1>1 DEF AddEpisode
  <2>4. CASE KnownFact(item) \/ KnownNote(item) \/ Refuse(item)
    BY <2>4, <1>1 DEF KnownFact, KnownNote, Refuse, memory
  <2> QED BY <1>3, <2>1, <2>2, <2>3, <2>4, SaveAdds, Zenon
<1>4. CASE Maintain
  BY <1>4, <1>1 DEF Maintain, Retract, HardDelete, Patch, Supersede
<1>5. ASSUME NEW parts \in SUBSET Parts, Clear(parts)
      PROVE  NotesFiled'
  BY <1>5, <1>1, <1>2 DEF Clear
<1>6. CASE Reset \/ Restart
  BY <1>6, <1>2 DEF Reset, Restart
<1>7. CASE UNCHANGED <<memory, ledger>>
  BY <1>7, <1>1 DEF memory, ledger
<1> QED BY <1>3, <1>4, <1>5, <1>6, <1>7, Zenon DEF MemoryStep

LEMMA StoredOnceInit == Init => FactsOnce /\ NotesFiled
BY DEF Init, MemoryInit, FactsOnce, NotesFiled, Has, NoFacts, NoNotes

\* Writes, commits, imports and maintenance never store a text twice, nor a
\* triple that maintenance did not give (memory_policies.py:241, 290).
THEOREM StoredOnce == Spec => []NothingTwice
<1>1. TypeOK /\ FactsOnce /\ NotesFiled /\ [Next]_vars => FactsOnce' /\ NotesFiled'
  BY Steps, FactsOnceKept, NotesFiledKept DEF TypeOK, MemoryTypeOK, ReposTyped
<1>2. TypeOK /\ FactsOnce /\ NotesFiled => NothingTwice
  BY NothingTwiceFollows DEF TypeOK, MemoryTypeOK, ReposTyped
<1> QED BY <1>1, <1>2, InitTyped, TypesKept, StoredOnceInit, PTL DEF Spec

-------------------------------------------------------------------------------
(* What was promised is held.  A note that is known already is, because a  *)
(* signature that was not left behind tells where its text is.             *)

SignaturesTrue ==
  \A t \in Texts : signatures[t] # None /\ t \notin forgotten => notes[signatures[t]] = t

HeldTriple(x) == \E i \in FactIds : facts[i] # None /\ facts[i].triple = x
HeldText(t) == \E i \in NoteIds : notes[i] = t

TriplesHeld == \A x \in Triples : x \in promised => HeldTriple(x)
TextsHeld == \A t \in Texts : t \in promised => HeldText(t)
EpisodesHeld == \A e \in EpisodeIds : e \in promised => e \in episodes

LEMMA HeldFollows ==
  ASSUME ReposTyped, TriplesHeld, TextsHeld, EpisodesHeld
  PROVE  AcceptedIsHeld
<1>1. ASSUME NEW x \in promised
      PROVE  x \in Held
  <2>1. CASE x \in Triples
    BY <1>1, <2>1 DEF TriplesHeld, HeldTriple, Held, Has
  <2>2. CASE x \in Texts
    BY <1>1, <2>2, MemoryConstants DEF TextsHeld, HeldText, Held
  <2>3. CASE x \in EpisodeIds
    BY <1>1, <2>3 DEF EpisodesHeld, Held
  <2> QED BY <1>1, <2>1, <2>2, <2>3 DEF ReposTyped, Contents
<1> QED BY <1>1 DEF AcceptedIsHeld

\* A triple stays held when it stays at its identifier or is promised no more.
LEMMA TriplesStay ==
  ASSUME TriplesHeld,
         promised' \cap Triples \subseteq promised,
         \A i \in FactIds : facts[i] # None /\ facts[i].triple \in promised' =>
           facts'[i] # None /\ facts'[i].triple = facts[i].triple
  PROVE  TriplesHeld'
BY DEF TriplesHeld, HeldTriple

LEMMA TriplesHeldSaved ==
  ASSUME ReposTyped, TriplesHeld, NEW item \in Items, Save(item)
  PROVE  TriplesHeld'
<1>1. ASSUME item.kind = "fact", NEW i \in FactIds, AddFact(item, i)
      PROVE  TriplesHeld'
  <2>1. facts' = [facts EXCEPT ![i] = [triple |-> item.triple, open |-> item.open]]
    BY <1>1 DEF AddFact
  <2>2. facts'[i] = [triple |-> item.triple, open |-> item.open] /\ facts'[i] # None
    <3>1. [triple |-> item.triple, open |-> item.open] \in Facts
      BY <1>1, ItemTyped DEF Facts
    <3> QED BY <2>1, <3>1, MemoryConstants DEF ReposTyped
  <2>3. \A m \in FactIds \ {i} : facts'[m] = facts[m]
    BY <2>1 DEF ReposTyped
  <2>4. ASSUME NEW x \in Triples, x \in promised'
        PROVE  HeldTriple(x)'
    <3>1. CASE x = item.triple
      BY <2>2, <3>1 DEF HeldTriple
    <3>2. CASE x # item.triple
      <4>1. x \in promised /\ x # TripleAt(i)
        BY <1>1, <2>4, <3>2 DEF AddFact
      <4>2. PICK m \in FactIds : facts[m] # None /\ facts[m].triple = x
        BY <4>1 DEF TriplesHeld, HeldTriple
      <4>3. m # i
        BY <4>1, <4>2 DEF TripleAt
      <4> QED BY <2>3, <4>2, <4>3 DEF HeldTriple
    <3> QED BY <3>1, <3>2
  <2> QED BY <2>4 DEF TriplesHeld
<1>2. CASE facts' = facts /\ promised' \cap Triples \subseteq promised
  BY <1>2 DEF TriplesHeld, HeldTriple
<1>3. ASSUME item.kind = "note", NEW i \in NoteIds, AddNote(item, i)
      PROVE  TriplesHeld'
  BY <1>3, <1>2, ItemTyped, MemoryConstants DEF AddNote
<1>4. ASSUME NEW i \in EpisodeIds, AddEpisode(item, i)
      PROVE  TriplesHeld'
  BY <1>4, <1>2, MemoryConstants DEF AddEpisode
<1>5. CASE KnownFact(item)
  BY <1>5 DEF KnownFact, Holders, TriplesHeld, HeldTriple, memory
<1>6. CASE KnownNote(item)
  BY <1>6, <1>2, ItemTyped, MemoryConstants DEF KnownNote, memory
<1>7. CASE Refuse(item)
  BY <1>7, <1>2 DEF Refuse, memory, ledger
<1> QED BY <1>1, <1>3, <1>4, <1>5, <1>6, <1>7, SaveAdds, Zenon

LEMMA TriplesHeldMaintained ==
  ASSUME ReposTyped, TriplesHeld, Maintain
  PROVE  TriplesHeld'
<1>1. ASSUME NEW i \in FactIds, Retract(i) \/ HardDelete(i)
      PROVE  TriplesHeld'
  BY <1>1, TriplesStay DEF Retract, HardDelete, Has, TripleAt, ReposTyped
<1>2. ASSUME NEW i \in FactIds, NEW t \in Triples, NEW open \in BOOLEAN, Patch(i, t, open)
      PROVE  TriplesHeld'
  BY <1>2, TriplesStay DEF Patch, Has, TripleAt, ReposTyped
<1>3. ASSUME NEW i \in FactIds, NEW j \in FactIds, NEW t \in Triples, Supersede(i, j, t)
      PROVE  TriplesHeld'
  <2>1. \A m \in FactIds \ {i, j} : facts'[m] = facts[m]
    BY <1>3 DEF Supersede, ReposTyped
  <2>2. promised' = promised \ {TripleAt(i), TripleAt(j)}
    BY <1>3 DEF Supersede
  <2> QED BY <2>1, <2>2, TriplesStay DEF TripleAt
<1> QED BY <1>1, <1>2, <1>3, Zenon DEF Maintain

LEMMA TriplesHeldKept ==
  ASSUME ReposTyped, TriplesHeld, MemoryStep
  PROVE  TriplesHeld'
<1>1. CASE facts' = facts /\ promised' \subseteq promised
  BY <1>1 DEF TriplesHeld, HeldTriple
<1>2. CASE promised' \cap Triples = {}
  BY <1>2 DEF TriplesHeld
<1>3. ASSUME NEW parts \in SUBSET Parts, Clear(parts)
      PROVE  TriplesHeld'
  BY <1>3, <1>1, <1>2 DEF Clear, Cleared
<1>4. CASE Reset \/ Restart
  BY <1>4, <1>2 DEF Reset, Restart
<1>5. CASE UNCHANGED <<memory, ledger>>
  BY <1>5, <1>1 DEF memory, ledger
<1> QED BY <1>3, <1>4, <1>5, TriplesHeldSaved, TriplesHeldMaintained, Zenon DEF MemoryStep

NotesTold == NotesFiled /\ SignaturesTrue /\ TextsHeld

LEMMA NotesToldSaved ==
  ASSUME ReposTyped, NotesTold, NEW item \in Items, Save(item)
  PROVE  SignaturesTrue' /\ TextsHeld'
<1>1. ASSUME item.kind = "note", NEW i \in NoteIds, AddNote(item, i)
      PROVE  SignaturesTrue' /\ TextsHeld'
  <2>1. item.text \in Texts
    BY <1>1, ItemTyped
  <2>2. notes'[i] = item.text /\ \A m \in NoteIds \ {i} : notes'[m] = notes[m]
    BY <1>1 DEF AddNote, ReposTyped
  <2>3. signatures'[item.text] = i /\ \A t \in Texts \ {item.text} : signatures'[t] = signatures[t]
    BY <1>1, <2>1 DEF AddNote, ReposTyped
  <2>4. ASSUME NEW t \in Texts, signatures'[t] # None, t \notin forgotten'
        PROVE  notes'[signatures'[t]] = t
    <3>1. CASE t = item.text
      BY <2>2, <2>3, <3>1
    <3>2. CASE t # item.text
      <4>1. signatures[t] \in NoteIds /\ signatures'[t] = signatures[t]
        BY <2>3, <2>4, <3>2 DEF ReposTyped
      <4>2. t \notin forgotten /\ t \notin {notes[i]} \ {None}
        BY <1>1, <2>4 DEF AddNote
      <4>3. notes[signatures[t]] = t
        BY <2>4, <4>1, <4>2 DEF NotesTold, SignaturesTrue
      <4>4. signatures[t] # i
        BY <4>2, <4>3, MemoryConstants
      <4> QED BY <2>2, <4>1, <4>3, <4>4
    <3> QED BY <3>1, <3>2
  <2>5. ASSUME NEW t \in Texts, t \in promised'
        PROVE  HeldText(t)'
    <3>1. CASE t = item.text
      BY <2>2, <3>1 DEF HeldText
    <3>2. CASE t # item.text
      <4>1. t \in promised /\ t # notes[i]
        BY <1>1, <2>5, <3>2 DEF AddNote
      <4>2. PICK m \in NoteIds : notes[m] = t
        BY <4>1 DEF NotesTold, TextsHeld, HeldText
      <4> QED BY <2>2, <4>1, <4>2 DEF HeldText
    <3> QED BY <3>1, <3>2
  <2> QED BY <2>4, <2>5 DEF SignaturesTrue, TextsHeld
<1>2. CASE UNCHANGED <<notes, signatures, forgotten>> /\ promised' \cap Texts \subseteq promised
  <2>1. SignaturesTrue'
    BY <1>2 DEF NotesTold, SignaturesTrue
  <2> QED BY <1>2, <2>1 DEF NotesTold, TextsHeld, HeldText
<1>3. ASSUME item.kind = "fact", NEW i \in FactIds, AddFact(item, i)
      PROVE  SignaturesTrue' /\ TextsHeld'
  BY <1>3, <1>2, ItemTyped, MemoryConstants DEF AddFact
<1>4. ASSUME NEW i \in EpisodeIds, AddEpisode(item, i)
      PROVE  SignaturesTrue' /\ TextsHeld'
  BY <1>4, <1>2, MemoryConstants DEF AddEpisode
<1>5. CASE KnownFact(item)
  BY <1>5, <1>2, ItemTyped, MemoryConstants DEF KnownFact, memory
<1>6. CASE KnownNote(item)
  <2>1. item.text \in Texts /\ signatures[item.text] # None
    BY <1>6, ItemTyped DEF KnownNote
  <2>2. item.text \notin forgotten => HeldText(item.text)
    BY <2>1 DEF NotesTold, SignaturesTrue, HeldText, ReposTyped
  <2>3. \A t \in Texts : t \in promised' => HeldText(t)
    BY <1>6, <2>2 DEF KnownNote, NotesTold, TextsHeld
  <2>4. UNCHANGED <<notes, signatures, forgotten>>
    BY <1>6 DEF KnownNote, memory
  <2>5. SignaturesTrue'
    BY <2>4 DEF NotesTold, SignaturesTrue
  <2> QED BY <2>3, <2>4, <2>5 DEF TextsHeld, HeldText
<1>7. CASE Refuse(item)
  BY <1>7, <1>2 DEF Refuse, memory, ledger
<1> QED BY <1>1, <1>3, <1>4, <1>5, <1>6, <1>7, SaveAdds, Zenon

LEMMA NotesToldKept ==
  ASSUME ReposTyped, NotesTold, MemoryStep
  PROVE  SignaturesTrue' /\ TextsHeld'
<1>1. CASE UNCHANGED <<notes, signatures, forgotten>> /\ promised' \subseteq promised
  <2>1. SignaturesTrue'
    BY <1>1 DEF NotesTold, SignaturesTrue
  <2> QED BY <1>1, <2>1 DEF NotesTold, TextsHeld, HeldText
<1>2. CASE promised' \cap Texts = {} /\ \A t \in Texts : signatures'[t] # None => t \in forgotten'
  BY <1>2 DEF SignaturesTrue, TextsHeld
<1>3. ASSUME NEW parts \in SUBSET Parts, Clear(parts)
      PROVE  SignaturesTrue' /\ TextsHeld'
  <2>1. CASE "vectors" \in parts
    BY <1>3, <2>1, <1>2 DEF Clear, Cleared, NoSignatures
  <2>2. CASE "vectors" \notin parts
    BY <1>3, <2>2, <1>1 DEF Clear
  <2> QED BY <2>1, <2>2
<1>4. CASE Reset
  BY <1>4, <1>2 DEF Reset
<1>5. CASE Restart
  BY <1>5, <1>2 DEF Restart, NoSignatures
<1>6. CASE Maintain
  BY <1>6, <1>1 DEF Maintain, Retract, HardDelete, Patch, Supersede
<1>7. CASE UNCHANGED <<memory, ledger>>
  BY <1>7, <1>1 DEF memory, ledger
<1> QED BY <1>3, <1>4, <1>5, <1>6, <1>7, NotesToldSaved, Zenon DEF MemoryStep

LEMMA EpisodesHeldKept ==
  ASSUME ReposTyped, EpisodesHeld, MemoryStep
  PROVE  EpisodesHeld'
<1> USE DEF EpisodesHeld
<1>1. CASE episodes \subseteq episodes' /\ promised' \cap EpisodeIds \subseteq promised \cup (episodes' \ episodes)
  BY <1>1
<1>2. ASSUME NEW item \in Items, Save(item)
      PROVE  EpisodesHeld'
  <2>1. ASSUME item.kind = "fact", NEW i \in FactIds, AddFact(item, i)
        PROVE  EpisodesHeld'
    BY <2>1, <1>1, ItemTyped, MemoryConstants DEF AddFact
  <2>2. ASSUME item.kind = "note", NEW i \in NoteIds, AddNote(item, i)
        PROVE  EpisodesHeld'
    BY <2>2, <1>1, ItemTyped, MemoryConstants DEF AddNote
  <2>3. ASSUME NEW i \in EpisodeIds, AddEpisode(item, i)
        PROVE  EpisodesHeld'
    BY <2>3 DEF AddEpisode
  <2>4. CASE KnownFact(item)
    BY <2>4, <1>1, ItemTyped, MemoryConstants DEF KnownFact, memory
  <2>5. CASE KnownNote(item)
    BY <2>5, <1>1, ItemTyped, MemoryConstants DEF KnownNote, memory
  <2>6. CASE Refuse(item)
    BY <2>6, <1>1 DEF Refuse, memory, ledger
  <2> HIDE DEF EpisodesHeld
  <2> QED BY <1>2, <2>1, <2>2, <2>3, <2>4, <2>5, <2>6, SaveAdds, Zenon
<1>3. CASE Maintain
  BY <1>3, <1>1 DEF Maintain, Retract, HardDelete, Patch, Supersede
<1>4. ASSUME NEW parts \in SUBSET Parts, Clear(parts)
      PROVE  EpisodesHeld'
  BY <1>4 DEF Clear, Cleared
<1>5. CASE Reset \/ Restart
  BY <1>5 DEF Reset, Restart
<1>6. CASE UNCHANGED <<memory, ledger>>
  BY <1>6 DEF memory, ledger
<1> HIDE DEF EpisodesHeld
<1> QED BY <1>2, <1>3, <1>4, <1>5, <1>6, Zenon DEF MemoryStep

LEMMA HeldInit == Init => TriplesHeld /\ NotesTold /\ EpisodesHeld
BY DEF Init, MemoryInit, TriplesHeld, NotesTold, NotesFiled, SignaturesTrue, TextsHeld,
       EpisodesHeld, NoNotes, NoSignatures

\* Whatever a client was told is saved, or known, is held as long as nobody
\* changed, replaced or cleared it.
THEOREM PromisesKept == Spec => []AcceptedIsHeld
<1> DEFINE Inv == TriplesHeld /\ NotesTold /\ EpisodesHeld
<1>1. TypeOK /\ Inv /\ [Next]_vars => Inv'
  BY Steps, TriplesHeldKept, NotesFiledKept, NotesToldKept, EpisodesHeldKept
     DEF TypeOK, MemoryTypeOK, ReposTyped, NotesTold
<1>2. TypeOK /\ Inv => AcceptedIsHeld
  BY HeldFollows DEF TypeOK, MemoryTypeOK, ReposTyped, NotesTold
<1>3. Init => Inv
  BY HeldInit
<1> HIDE DEF Inv
<1> QED BY <1>1, <1>2, <1>3, InitTyped, TypesKept, PTL DEF Spec

-------------------------------------------------------------------------------
(* No turn is dropped unheard.  While a commit that is no dry run is under *)
(* way, each turn was distilled or was said since.                         *)

TurnsHeard ==
  request.for = "commit" /\ ~request.dry =>
    \A k \in 1..Len(turns) : turns[k].heard \/ turns[k].during

HeardInv == TurnsHeard /\ DroppedWasHeard

LEMMA SessionHeard ==
  ASSUME TypeOK, HeardInv, SessionNext
  PROVE  HeardInv'
<1>0. turns \in Seq(Turns) /\ Len(turns) \in Nat
  BY DEF TypeOK, SessionTypeOK
<1>1. ASSUME NEW s \in Statements, IngestTurn(s)
      PROVE  HeardInv'
  <2>1. UNCHANGED <<request, dropped>>
    BY <1>1 DEF IngestTurn
  <2>2. ASSUME request.for = "commit", ~request.dry, NEW k \in 1..Len(turns')
        PROVE  turns'[k].heard \/ turns'[k].during
    <3>1. Len(turns') = Len(turns) + 1
      BY <1>0, <1>1 DEF IngestTurn
    <3>2. CASE k = Len(turns) + 1
      <4>1. turns'[k] = [said |-> s, during |-> Busy, heard |-> FALSE]
        BY <1>0, <1>1, <3>2 DEF IngestTurn
      <4>2. Busy = TRUE
        BY <2>2 DEF Busy
      <4>3. turns'[k].during = Busy
        BY <4>1
      <4> QED BY <4>2, <4>3
    <3>3. CASE k # Len(turns) + 1
      <4>1. k \in 1..Len(turns)
        BY <1>0, <2>2, <3>1, <3>3
      <4>2. turns'[k] = turns[k]
        BY <1>0, <1>1, <4>1 DEF IngestTurn
      <4> QED BY <2>2, <4>1, <4>2 DEF HeardInv, TurnsHeard
    <3> QED BY <3>2, <3>3
  <2> QED BY <2>1, <2>2 DEF HeardInv, TurnsHeard, DroppedWasHeard
<1>2. CASE ClearSession
  BY <1>2 DEF ClearSession, HeardInv, TurnsHeard, DroppedWasHeard
<1>3. ASSUME NEW candidates \in Proposals, NEW dry \in BOOLEAN, NEW clear \in BOOLEAN,
             Commit(candidates, dry, clear)
      PROVE  HeardInv'
  <2>1. request'.dry = dry
    BY <1>3 DEF Commit
  <2>2. ASSUME ~dry, NEW k \in 1..Len(turns')
        PROVE  turns'[k].heard
    <3>1. turns' = [m \in 1..Len(turns) |-> [turns[m] EXCEPT !.heard = turns[m].heard \/ ~dry]]
      BY <1>3 DEF Commit
    <3>2. k \in 1..Len(turns)
      BY <1>0, <2>2, <3>1
    <3>3. turns[k] \in Turns
      BY <1>0, <3>2
    <3>4. turns'[k] = [turns[k] EXCEPT !.heard = turns[k].heard \/ ~dry]
      BY <3>1, <3>2
    <3> QED BY <2>2, <3>3, <3>4 DEF Turns
  <2>3. dropped' = {}
    BY <1>3 DEF Commit
  <2> QED BY <2>1, <2>2, <2>3 DEF HeardInv, TurnsHeard, DroppedWasHeard
<1>4. CASE CommitFails
  BY <1>4 DEF CommitFails, session, HeardInv, TurnsHeard, DroppedWasHeard
<1>5. CASE EndCommit
  <2>1. request' = Idle /\ request.for = "commit"
    BY <1>5 DEF EndCommit
  <2>2. TurnsHeard'
    BY <2>1 DEF TurnsHeard, Idle
  <2>3. CASE request.clear /\ ~request.dry
    <3>1. dropped' = {turns[k] : k \in 1..Len(turns)}
      BY <1>5, <2>3 DEF EndCommit
    <3>2. \A k \in 1..Len(turns) : turns[k].heard \/ turns[k].during
      BY <2>1, <2>3 DEF HeardInv, TurnsHeard
    <3> QED BY <2>2, <3>1, <3>2 DEF HeardInv, DroppedWasHeard
  <2>4. CASE ~(request.clear /\ ~request.dry)
    BY <1>5, <2>2, <2>4 DEF EndCommit, session, HeardInv, DroppedWasHeard
  <2> QED BY <2>3, <2>4
<1> QED BY <1>1, <1>2, <1>3, <1>4, <1>5, Zenon DEF SessionNext

LEMMA HeardKept ==
  ASSUME TypeOK, HeardInv, [Next]_vars
  PROVE  HeardInv'
<1>0. request \in Requests
  BY DEF TypeOK, MemoryTypeOK, Requests
<1>1. CASE UNCHANGED session /\ (request' = request \/ request'.for # "commit")
  BY <1>1 DEF session, HeardInv, TurnsHeard, DroppedWasHeard
<1>2. CASE UNCHANGED session /\ Handle
  BY <1>0, <1>2, HandleTyped DEF session, HeardInv, TurnsHeard, DroppedWasHeard
<1>3. CASE AgentNext
  <2>1. CASE \E item \in WriteItems[program] : Write(item) /\ UNCHANGED session
    BY <2>1, <1>1 DEF Write
  <2>2. CASE Maintain /\ UNCHANGED session
    BY <2>2, <1>1 DEF Maintain, Retract, HardDelete, Patch, Supersede
  <2>3. ASSUME NEW parts \in SUBSET Parts, ClearAll(parts)
        PROVE  HeardInv'
    BY <2>3 DEF ClearAll, Clear, HeardInv, TurnsHeard, DroppedWasHeard
  <2>4. ASSUME NEW parts \in SUBSET Parts, Clear(parts) /\ UNCHANGED session
        PROVE  HeardInv'
    BY <2>4, <1>1 DEF Clear
  <2> QED BY <1>3, <2>1, <2>2, <2>3, <2>4, <1>2, SessionHeard, Zenon DEF AgentNext
<1>4. CASE ServerNext
  <2>0. UNCHANGED session
    BY <1>4 DEF ServerNext
  <2>1. CASE ExportNotes \/ ExportFacts \/ ExportEpisodes \/ Reset
    BY <2>0, <2>1, <1>1 DEF ExportNotes, ExportFacts, ExportEpisodes, Reset
  <2>2. CASE Import \/ EndImport \/ Restart
    BY <2>0, <2>2, <1>1 DEF Import, EndImport, Restart, Idle
  <2>3. CASE ImportItem
    BY <2>0, <2>3, <1>2 DEF ImportItem
  <2>4. CASE \E item \in WriteItems[program] : Write(item)
    BY <2>0, <2>4, <1>1 DEF Write
  <2> QED BY <1>4, <2>1, <2>2, <2>3, <2>4, Zenon DEF ServerNext, ArchiveNext
<1>5. CASE UNCHANGED vars
  BY <1>5, <1>1 DEF vars
<1> QED BY <1>3, <1>4, <1>5, Zenon DEF Next

\* A turn that a commit takes from the buffer was distilled, or was said while
\* a commit was under way (memory.py:441).
THEOREM TurnsDroppedHeard == Spec => []DroppedWasHeard
<1>1. Init => HeardInv
  <2> SUFFICES ASSUME Init
               PROVE  HeardInv
    OBVIOUS
  <2>1. request.for = "nothing" /\ dropped = {}
    BY DEF Init, MemoryInit, SessionInit, Idle
  <2> QED BY <2>1 DEF HeardInv, TurnsHeard, DroppedWasHeard
<1>2. TypeOK /\ HeardInv /\ [Next]_vars => HeardInv'
  BY HeardKept
<1>3. HeardInv => DroppedWasHeard
  BY DEF HeardInv
<1> QED BY <1>1, <1>2, <1>3, InitTyped, TypesKept, PTL DEF Spec

-------------------------------------------------------------------------------
(* An archive comes back whole.  What the server holds passes its policies *)
(* and is held once, and so it is in an archive; while an import into an   *)
(* empty memory is alone at work, each item is either held as it was       *)
(* archived or still to come.                                              *)

ServerClean ==
  program = "server" =>
    /\ given = {}
    /\ \A i \in FactIds : facts[i] # None => facts[i].triple \notin Refusable
    /\ \A i \in NoteIds : notes[i] # None => notes[i] \notin Refusable

ArchiveClean ==
  /\ \A i \in FactIds : archive.facts[i] # None => archive.facts[i].triple \notin Refusable
  /\ \A i \in NoteIds : archive.notes[i] # None => archive.notes[i] \notin Refusable
  /\ \A i, j \in FactIds : i # j /\ archive.facts[i] # None /\ archive.facts[j] # None =>
       archive.facts[i].triple # archive.facts[j].triple
  /\ \A i, j \in NoteIds : i # j /\ archive.notes[i] # None => archive.notes[i] # archive.notes[j]

LEMMA ServerSaves ==
  ASSUME ReposTyped, ServerClean, program = "server", program' = program,
         NEW item \in Items, Save(item)
  PROVE  ServerClean'
<1>1. ASSUME item.kind = "fact", NEW i \in FactIds, AddFact(item, i)
      PROVE  ServerClean'
  <2>1. facts' = [facts EXCEPT ![i] = [triple |-> item.triple, open |-> item.open]]
        /\ given' = given \ {i} /\ notes' = notes /\ item.triple \notin Refusable
    BY <1>1 DEF AddFact, RefusesFact
  <2>2. facts'[i].triple = item.triple /\ \A m \in FactIds \ {i} : facts'[m] = facts[m]
    BY <2>1 DEF ReposTyped
  <2> QED BY <2>1, <2>2 DEF ServerClean
<1>2. ASSUME item.kind = "note", NEW i \in NoteIds, AddNote(item, i)
      PROVE  ServerClean'
  BY <1>2 DEF ServerClean, AddNote, ReposTyped
<1>3. CASE UNCHANGED <<facts, notes, given>>
  BY <1>3 DEF ServerClean
<1>4. ASSUME NEW i \in EpisodeIds, AddEpisode(item, i)
      PROVE  ServerClean'
  BY <1>4, <1>3 DEF AddEpisode
<1>5. CASE KnownFact(item) \/ KnownNote(item) \/ Refuse(item)
  BY <1>5, <1>3 DEF KnownFact, KnownNote, Refuse, memory, ledger
<1> QED BY <1>1, <1>2, <1>4, <1>5, SaveAdds, Zenon

LEMMA ServerCleanKept ==
  ASSUME TypeOK, ServerClean, [Next]_vars
  PROVE  ServerClean'
<1>0. ReposTyped /\ program' = program
  BY RequestTyped DEF TypeOK, MemoryTypeOK, ReposTyped
<1>1. CASE program # "server"
  BY <1>0, <1>1 DEF ServerClean
<1>2. CASE UNCHANGED <<memory, ledger>>
  BY <1>0, <1>2 DEF ServerClean, memory, ledger
<1>3. CASE program = "server" /\ \E item \in Items : Save(item)
  BY <1>0, <1>3, ServerSaves
<1>4. CASE program = "server" /\ (Reset \/ Restart)
  BY <1>4, <1>0 DEF ServerClean, Reset, Restart, NoFacts, NoNotes
<1>5. CASE program = "server" /\ Next
  <2>1. ServerNext
    BY <1>5 DEF Next, AgentNext
  <2>2. CASE ExportNotes \/ ExportFacts \/ ExportEpisodes \/ Import \/ EndImport
    BY <2>2, <1>2 DEF ExportNotes, ExportFacts, ExportEpisodes, Import, EndImport
  <2>3. CASE ImportItem
    BY <2>3, <1>2, <1>3, <1>5, HandleSaves DEF ImportItem
  <2>4. CASE \E item \in WriteItems[program] : Write(item)
    <3>1. WriteItems[program] \subseteq Items
      BY ProgramsConstants DEF TypeOK, MemoryTypeOK
    <3> QED BY <2>4, <3>1, <1>3, <1>5 DEF Write
  <2> QED BY <2>1, <2>2, <2>3, <2>4, <1>4, <1>5, Zenon DEF ServerNext, ArchiveNext
<1>6. CASE UNCHANGED vars
  BY <1>6, <1>2 DEF vars
<1> QED BY <1>1, <1>5, <1>6

LEMMA ArchiveCleanKept ==
  ASSUME TypeOK, ServerClean, FactsOnce, NotesFiled, ArchiveClean, [Next]_vars
  PROVE  ArchiveClean'
<1>0. ReposTyped /\ ArchiveTypeOK
  BY DEF TypeOK, MemoryTypeOK, ReposTyped
<1>1. CASE archive' = archive
  BY <1>1 DEF ArchiveClean
<1>2. CASE ServerNext /\ ExportNotes
  <2>1. archive' = [notes |-> notes, facts |-> NoFacts, episodes |-> {}]
    BY <1>2 DEF ExportNotes
  <2>2. archive'.notes = notes /\ archive'.facts = NoFacts
    BY <2>1
  <2>3. \A i \in NoteIds : notes[i] # None => notes[i] \notin Refusable /\ signatures[notes[i]] = i
    BY <1>2 DEF ServerNext, ServerClean, NotesFiled
  <2> QED BY <2>2, <2>3 DEF ArchiveClean, NoFacts
<1>3. CASE ServerNext /\ ExportFacts
  <2>1. archive'.facts = facts /\ archive'.notes = archive.notes
    BY <1>3, <1>0 DEF ExportFacts, ArchiveTypeOK
  <2>2. given = {} /\ \A i \in FactIds : facts[i] # None => facts[i].triple \notin Refusable
    BY <1>3 DEF ServerNext, ServerClean
  <2>3. \A i, j \in FactIds : i # j /\ facts[i] # None /\ facts[j] # None =>
          facts[i].triple # facts[j].triple
    BY <2>2 DEF FactsOnce, Has
  <2> QED BY <2>1, <2>2, <2>3 DEF ArchiveClean
<1>4. CASE ServerNext /\ ExportEpisodes
  <2>1. archive'.facts = archive.facts /\ archive'.notes = archive.notes
    BY <1>4, <1>0 DEF ExportEpisodes, ArchiveTypeOK
  <2> QED BY <2>1 DEF ArchiveClean
<1>5. CASE UNCHANGED adminVars \/ UNCHANGED archiveVars
  BY <1>5, <1>1 DEF adminVars, archiveVars
<1>6. CASE Import \/ EndImport \/ Reset \/ Restart
  BY <1>6, <1>1 DEF Import, EndImport, Reset, Restart, archiveVars
<1>7. CASE ImportItem
  BY <1>7, <1>5 DEF ImportItem
<1> QED BY <1>2, <1>3, <1>4, <1>5, <1>6, <1>7, Zenon
        DEF Next, AgentNext, ServerNext, ArchiveNext, vars

Archived == FactsOf \cup NotesOf \cup EpisodesOf

FactDue(i) == \E m \in request.items : m.kind = "fact" /\ m.id = i
NoteDue(i) == \E m \in request.items : m.kind = "note" /\ m.id = i
EpisodeDue(e) == \E m \in request.items : m.kind = "episode" /\ m.id = e

FactsBack ==
  \A i \in FactIds : facts[i] = IF FactDue(i) THEN None ELSE archive.facts[i]

NotesBack ==
  /\ \A i \in NoteIds :
       /\ NoteDue(i) => notes[i] = None
       /\ notes[i] = None \/ notes[i] = archive.notes[i]
       /\ NoteDue(i) \/ notes[i] = archive.notes[i] \/ archive.notes[i] \in remembered
  /\ \A t \in Texts : signatures[t] # None /\ t \notin remembered => notes[signatures[t]] = t

EpisodesBack ==
  /\ episodes \subseteq archive.episodes
  /\ \A e \in archive.episodes : e \in episodes \/ EpisodeDue(e)

Importing ==
  /\ program = "server" /\ request.for = "import" /\ ~request.dry
  /\ request.items \subseteq Archived
  /\ FactsBack /\ NotesBack /\ EpisodesBack

RestoreInv ==
  /\ restore = "alone" => Importing
  /\ restore = "complete" => program = "server" /\ request.items = {}
  /\ RestoreComplete

LEMMA ArchivedItem ==
  ASSUME ArchiveTypeOK, NEW m \in Archived
  PROVE  /\ m.kind \in {"fact", "note", "episode"}
         /\ m.kind = "fact" =>
              /\ m.id \in FactIds /\ archive.facts[m.id] # None
              /\ m = [kind |-> "fact", id |-> m.id, triple |-> archive.facts[m.id].triple,
                      open |-> archive.facts[m.id].open]
         /\ m.kind = "note" =>
              /\ m.id \in NoteIds /\ archive.notes[m.id] # None
              /\ m = [kind |-> "note", id |-> m.id, text |-> archive.notes[m.id]]
         /\ m.kind = "episode" =>
              /\ m.id \in archive.episodes
              /\ m = [kind |-> "episode", id |-> m.id]
<1>1. CASE m \in FactsOf
  BY <1>1 DEF FactsOf
<1>2. CASE m \in NotesOf
  BY <1>2 DEF NotesOf
<1>3. CASE m \in EpisodesOf
  BY <1>3 DEF EpisodesOf
<1> QED BY <1>1, <1>2, <1>3 DEF Archived

\* With an item goes what is due under its identifier, and nothing else.
LEMMA ItemDone ==
  ASSUME ArchiveTypeOK, request.items \subseteq Archived, NEW item \in request.items,
         request'.items = request.items \ {item}
  PROVE  /\ \A i \in FactIds : FactDue(i)' <=> FactDue(i) /\ ~(item.kind = "fact" /\ item.id = i)
         /\ \A i \in NoteIds : NoteDue(i)' <=> NoteDue(i) /\ ~(item.kind = "note" /\ item.id = i)
         /\ \A e \in EpisodeIds :
              EpisodeDue(e)' <=> EpisodeDue(e) /\ ~(item.kind = "episode" /\ item.id = e)
<1>1. \A m \in request.items : m.kind = item.kind /\ m.id = item.id => m = item
  BY ArchivedItem
<1> QED BY <1>1 DEF FactDue, NoteDue, EpisodeDue

LEMMA FactImported ==
  ASSUME TypeOK, ArchiveClean, Importing, NEW item \in request.items, item.kind = "fact",
         request'.items = request.items \ {item}, archive' = archive, remembered' = remembered,
         Save(item)
  PROVE  FactsBack' /\ NotesBack' /\ EpisodesBack'
<1>0. ReposTyped /\ ArchiveTypeOK /\ item \in Items
  BY DEF TypeOK, MemoryTypeOK, ReposTyped, Importing
<1>1. PICK i \in FactIds : i = item.id /\ archive.facts[i] # None /\ archive.facts[i] \in Facts
        /\ item.triple = archive.facts[i].triple /\ item.open = archive.facts[i].open
  BY <1>0, ArchivedItem DEF Importing, ArchiveTypeOK
<1>2. FactDue(i)
  BY <1>1 DEF FactDue
<1>3. \A m \in FactIds : facts[m] # None => facts[m].triple # item.triple
  <2>1. ASSUME NEW m \in FactIds, facts[m] # None
        PROVE  m # i /\ archive.facts[m] = facts[m]
    BY <2>1, <1>2 DEF Importing, FactsBack
  <2> QED BY <2>1, <1>1 DEF ArchiveClean
<1>4. ~RefusesFact(item.triple)
  BY <1>1 DEF ArchiveClean, Importing, RefusesFact
<1>5. AddFact(item, i)
  <2>1. ~KnownFact(item) /\ ~KnownNote(item) /\ ~Refuse(item)
    BY <1>3, <1>4 DEF KnownFact, KnownNote, Refuse, Holders
  <2>2. \A j : j \in IdsFor(item) => j = i
    BY <1>1, MemoryConstants DEF IdsFor
  <2>3. PICK j \in IdsFor(item) : AddFact(item, j)
    BY <1>0, <2>1, SaveAdds, Zenon
  <2> QED BY <2>2, <2>3
<1>6. facts'[i] = archive.facts[i] /\ \A m \in FactIds \ {i} : facts'[m] = facts[m]
  BY <1>0, <1>1, <1>5 DEF AddFact, ReposTyped, Facts
<1>7. request.items \subseteq Archived
  BY DEF Importing
<1>8. \A m \in FactIds : FactDue(m)' <=> FactDue(m) /\ m # i
  BY <1>0, <1>1, <1>7, ItemDone
<1>9. FactsBack'
  BY <1>6, <1>8 DEF Importing, FactsBack
<1>10. \A m \in NoteIds : NoteDue(m)' <=> NoteDue(m)
  BY <1>0, <1>7, ItemDone
<1>11. NotesBack'
  BY <1>5, <1>10 DEF Importing, NotesBack, AddFact
<1>12. \A e \in EpisodeIds : EpisodeDue(e)' <=> EpisodeDue(e)
  BY <1>0, <1>7, ItemDone
<1>13. EpisodesBack'
  BY <1>0, <1>5, <1>12 DEF Importing, EpisodesBack, AddFact, ArchiveTypeOK
<1> QED BY <1>9, <1>11, <1>13

LEMMA NoteImported ==
  ASSUME TypeOK, ArchiveClean, Importing, NEW item \in request.items, item.kind = "note",
         request'.items = request.items \ {item}, archive' = archive, remembered' = remembered,
         Save(item)
  PROVE  FactsBack' /\ NotesBack' /\ EpisodesBack'
<1>0. ReposTyped /\ ArchiveTypeOK /\ item \in Items
  BY DEF TypeOK, MemoryTypeOK, ReposTyped, Importing
<1>1. PICK i \in NoteIds : i = item.id /\ archive.notes[i] # None /\ item.text = archive.notes[i]
  BY <1>0, ArchivedItem DEF Importing
<1>2. item.text \in Texts /\ NoteDue(i) /\ notes[i] = None
  BY <1>0, <1>1, ItemTyped DEF NoteDue, Importing, NotesBack
<1>3. request.items \subseteq Archived
  BY DEF Importing
<1>4. \A m \in NoteIds : NoteDue(m)' <=> NoteDue(m) /\ m # i
  BY <1>0, <1>1, <1>3, ItemDone
<1>5. \A m \in FactIds : FactDue(m)' <=> FactDue(m)
  BY <1>0, <1>3, ItemDone
<1>6. \A e \in EpisodeIds : EpisodeDue(e)' <=> EpisodeDue(e)
  BY <1>0, <1>3, ItemDone
<1>7. UNCHANGED <<facts, episodes>> => FactsBack' /\ EpisodesBack'
  BY <1>0, <1>5, <1>6 DEF Importing, FactsBack, EpisodesBack, ArchiveTypeOK
<1>8. CASE AddNote(item, i)
  <2>1. notes'[i] = item.text /\ \A m \in NoteIds \ {i} : notes'[m] = notes[m]
    BY <1>0, <1>8 DEF AddNote, ReposTyped
  <2>2. signatures'[item.text] = i /\ \A t \in Texts \ {item.text} : signatures'[t] = signatures[t]
    BY <1>0, <1>2, <1>8 DEF AddNote, ReposTyped
  <2>3. \A t \in Texts : notes[signatures[t]] = t => signatures[t] # i
    BY <1>2, MemoryConstants
  <2>4. \A t \in Texts : signatures[t] # None => signatures[t] \in NoteIds
    BY <1>0 DEF ReposTyped
  <2>5. \A t \in Texts : signatures'[t] # None /\ t \notin remembered => notes'[signatures'[t]] = t
    BY <2>1, <2>2, <2>3, <2>4 DEF Importing, NotesBack
  <2>6. \A m \in NoteIds :
          /\ NoteDue(m)' => notes'[m] = None
          /\ notes'[m] = None \/ notes'[m] = archive.notes[m]
          /\ NoteDue(m)' \/ notes'[m] = archive.notes[m] \/ archive.notes[m] \in remembered
    BY <1>1, <1>4, <2>1 DEF Importing, NotesBack
  <2>7. NotesBack'
    BY <2>5, <2>6 DEF NotesBack
  <2> QED BY <1>7, <1>8, <2>7 DEF AddNote
<1>9. CASE KnownNote(item)
  <2>1. UNCHANGED <<facts, notes, signatures, episodes>> /\ signatures[item.text] # None
    BY <1>9 DEF KnownNote, memory
  <2>2. archive.notes[i] \in remembered
    <3>1. SUFFICES ASSUME item.text \notin remembered
                   PROVE  FALSE
      BY <1>1
    <3>2. signatures[item.text] \in NoteIds /\ notes[signatures[item.text]] = item.text
      BY <1>0, <1>2, <2>1, <3>1 DEF Importing, NotesBack, ReposTyped
    <3>3. signatures[item.text] # i /\ archive.notes[signatures[item.text]] = item.text
      BY <1>2, <3>2, MemoryConstants DEF Importing, NotesBack
    <3> QED BY <1>1, <3>2, <3>3 DEF ArchiveClean
  <2>3. NotesBack'
    BY <1>4, <2>1, <2>2 DEF Importing, NotesBack
  <2> QED BY <1>7, <2>1, <2>3
<1>10. AddNote(item, i) \/ KnownNote(item)
  <2>1. item.text \notin Refusable
    BY <1>1 DEF ArchiveClean
  <2>2. ~KnownFact(item) /\ ~Refuse(item)
    BY <2>1 DEF KnownFact, Refuse
  <2>3. \A j : j \in IdsFor(item) => j = i
    BY <1>1, MemoryConstants DEF IdsFor
  <2>4. KnownNote(item) \/ \E j \in IdsFor(item) : AddNote(item, j)
    BY <1>0, <2>2, SaveAdds, Zenon
  <2> QED BY <2>3, <2>4
<1> QED BY <1>8, <1>9, <1>10

LEMMA EpisodeImported ==
  ASSUME TypeOK, Importing, NEW item \in request.items, item.kind = "episode",
         request'.items = request.items \ {item}, archive' = archive, remembered' = remembered,
         Save(item)
  PROVE  FactsBack' /\ NotesBack' /\ EpisodesBack'
<1>0. ReposTyped /\ ArchiveTypeOK /\ item \in Items
  BY DEF TypeOK, MemoryTypeOK, ReposTyped, Importing
<1>1. item.id \in archive.episodes /\ item.id \in EpisodeIds
  BY <1>0, ArchivedItem DEF Importing, ArchiveTypeOK
<1>2. AddEpisode(item, item.id)
  <2>1. ~KnownFact(item) /\ ~KnownNote(item) /\ ~Refuse(item)
    BY DEF KnownFact, KnownNote, Refuse
  <2>2. \A j : j \in IdsFor(item) => j = item.id
    BY <1>1, MemoryConstants DEF IdsFor
  <2>3. PICK j \in IdsFor(item) : AddEpisode(item, j)
    BY <1>0, <2>1, SaveAdds, Zenon
  <2> QED BY <2>2, <2>3
<1>3. request.items \subseteq Archived
  BY DEF Importing
<1>4. \A m \in FactIds : FactDue(m)' <=> FactDue(m)
  BY <1>0, <1>3, ItemDone
<1>5. \A m \in NoteIds : NoteDue(m)' <=> NoteDue(m)
  BY <1>0, <1>3, ItemDone
<1>6. \A e \in EpisodeIds : EpisodeDue(e)' <=> EpisodeDue(e) /\ e # item.id
  BY <1>0, <1>1, <1>3, ItemDone
<1>7. FactsBack'
  BY <1>2, <1>4 DEF Importing, FactsBack, AddEpisode
<1>8. NotesBack'
  BY <1>2, <1>5 DEF Importing, NotesBack, AddEpisode
<1>9. EpisodesBack'
  BY <1>0, <1>1, <1>2, <1>6 DEF Importing, EpisodesBack, AddEpisode, ArchiveTypeOK
<1> QED BY <1>7, <1>8, <1>9

LEMMA ItemImported ==
  ASSUME TypeOK, ArchiveClean, RestoreInv, ImportItem
  PROVE  RestoreInv'
<1>1. PICK item \in Due :
        /\ request' = [request EXCEPT !.items = request.items \ {item}]
        /\ IF request.dry THEN UNCHANGED <<memory, ledger>> ELSE Save(item)
        /\ UNCHANGED program
  BY DEF ImportItem, Handle
<1>2. item \in request.items
  BY DEF Due
<1>3. UNCHANGED <<archive, restore, remembered>>
  BY DEF ImportItem, adminVars
<1>4. restore # "complete"
  BY <1>2 DEF RestoreInv
<1>5. CASE restore = "alone"
  <2>1. Importing
    BY <1>5 DEF RestoreInv
  <2>2. request \in Requests /\ request'.items = request.items \ {item}
        /\ request'.for = request.for /\ request'.dry = request.dry
    BY <1>1 DEF TypeOK, MemoryTypeOK, Requests
  <2>3. Save(item)
    BY <1>1, <2>1 DEF Importing
  <2>4. item.kind \in {"fact", "note", "episode"}
    BY <1>2, <2>1, ArchivedItem DEF Importing, TypeOK
  <2>5. FactsBack' /\ NotesBack' /\ EpisodesBack'
    BY <1>2, <1>3, <2>1, <2>2, <2>3, <2>4, FactImported, NoteImported, EpisodeImported
  <2>6. Archived' = Archived
    BY <1>3 DEF Archived, FactsOf, NotesOf, EpisodesOf
  <2>7. Importing'
    BY <1>1, <2>1, <2>2, <2>5, <2>6 DEF Importing
  <2> QED BY <1>3, <1>5, <2>7 DEF RestoreInv, RestoreComplete
<1>6. CASE restore # "alone"
  BY <1>3, <1>4, <1>6 DEF RestoreInv, RestoreComplete
<1> QED BY <1>5, <1>6

LEMMA ImportBegun ==
  ASSUME TypeOK, program = "server", Import
  PROVE  RestoreInv'
<1>0. ReposTyped /\ ArchiveTypeOK
  BY DEF TypeOK, MemoryTypeOK, ReposTyped
<1>1. CASE ~Empty
  BY <1>1 DEF Import, RestoreInv, RestoreComplete
<1>2. CASE Empty
  <2>1. request' = [for |-> "import", items |-> Archived, dry |-> FALSE, clear |-> FALSE]
        /\ restore' = "alone" /\ remembered' = {t \in Texts : signatures[t] # None}
        /\ UNCHANGED <<program, facts, notes, signatures, episodes, archive>>
    BY <1>2 DEF Import, Archived, memory, archiveVars
  <2>2. facts = NoFacts /\ notes = NoNotes /\ episodes = {}
    BY <1>2 DEF Empty
  <2>3. Archived' = Archived /\ request'.items = Archived
    BY <2>1 DEF Archived, FactsOf, NotesOf, EpisodesOf
  <2>4. ASSUME NEW i \in FactIds, archive.facts[i] # None
        PROVE  FactDue(i)'
    <3>1. PICK m \in FactsOf :
            m = [kind |-> "fact", id |-> i, triple |-> archive.facts[i].triple,
                 open |-> archive.facts[i].open]
      BY <2>4 DEF FactsOf
    <3>2. m.kind = "fact" /\ m.id = i
      BY <3>1
    <3> QED BY <3>2, <2>3 DEF FactDue, Archived
  <2>5. ASSUME NEW i \in NoteIds, archive.notes[i] # None
        PROVE  NoteDue(i)'
    <3>1. PICK m \in NotesOf : m = [kind |-> "note", id |-> i, text |-> archive.notes[i]]
      BY <2>5 DEF NotesOf
    <3>2. m.kind = "note" /\ m.id = i
      BY <3>1
    <3> QED BY <3>2, <2>3 DEF NoteDue, Archived
  <2>6. ASSUME NEW e \in archive.episodes
        PROVE  EpisodeDue(e)'
    <3>1. PICK m \in EpisodesOf : m = [kind |-> "episode", id |-> e]
      BY DEF EpisodesOf
    <3>2. m.kind = "episode" /\ m.id = e
      BY <3>1
    <3> QED BY <3>2, <2>3 DEF EpisodeDue, Archived
  <2>7. FactsBack'
    BY <2>1, <2>2, <2>4 DEF FactsBack, NoFacts
  <2>8. NotesBack'
    BY <2>1, <2>2, <2>5 DEF NotesBack, NoNotes
  <2>9. EpisodesBack'
    BY <2>1, <2>2, <2>6 DEF EpisodesBack
  <2>10. Importing'
    BY <2>1, <2>3, <2>7, <2>8, <2>9 DEF Importing
  <2> QED BY <2>1, <2>10 DEF RestoreInv, RestoreComplete
<1> QED BY <1>1, <1>2

LEMMA ImportEnded ==
  ASSUME TypeOK, RestoreInv, EndImport
  PROVE  RestoreInv'
<1>0. facts \in [FactIds -> Facts \cup {None}] /\ ArchiveTypeOK
  BY DEF TypeOK, MemoryTypeOK
<1>1. CASE restore # "alone"
  BY <1>1 DEF EndImport, RestoreInv, RestoreComplete
<1>2. CASE restore = "alone"
  <2>1. Importing /\ request.items = {}
    BY <1>2 DEF RestoreInv, EndImport
  <2>2. \A i \in FactIds : facts[i] = archive.facts[i]
    BY <2>1 DEF Importing, FactsBack, FactDue
  <2>3. facts = archive.facts
    BY <1>0, <2>2 DEF ArchiveTypeOK
  <2>4. episodes = archive.episodes
    BY <2>1 DEF Importing, EpisodesBack, EpisodeDue
  <2>5. \A i \in NoteIds : notes[i] = archive.notes[i] \/ archive.notes[i] \in remembered
    BY <2>1 DEF Importing, NotesBack, NoteDue
  <2>6. UNCHANGED <<program, facts, notes, episodes, archive, remembered>>
        /\ request'.items = {} /\ restore' = "complete"
    BY <1>2 DEF EndImport, memory, archiveVars, Idle
  <2>7. program = "server"
    BY <2>1 DEF Importing
  <2>8. RestoreComplete'
    BY <2>3, <2>4, <2>5, <2>6 DEF RestoreComplete
  <2> QED BY <2>6, <2>7, <2>8 DEF RestoreInv
<1> QED BY <1>1, <1>2

LEMMA RestoreInvKept ==
  ASSUME TypeOK, ArchiveClean, RestoreInv, [Next]_vars
  PROVE  RestoreInv'
<1>1. CASE Disturb
  BY <1>1 DEF Disturb, RestoreInv, RestoreComplete
<1>2. CASE UNCHANGED vars
  <2>1. UNCHANGED <<program, facts, notes, signatures, episodes, request, archive, restore, remembered>>
    BY <1>2 DEF vars, memory, adminVars
  <2>2. RestoreComplete'
    BY <2>1 DEF RestoreInv, RestoreComplete
  <2>3. Importing => Importing'
    BY <2>1 DEF Importing, Archived, FactsOf, NotesOf, EpisodesOf, FactsBack, NotesBack, EpisodesBack,
                FactDue, NoteDue, EpisodeDue
  <2> QED BY <2>1, <2>2, <2>3 DEF RestoreInv
<1>3. CASE AgentNext
  <2>1. restore \notin {"alone", "complete"} /\ restore' = restore
    BY <1>3 DEF AgentNext, RestoreInv, Importing, adminVars
  <2> QED BY <2>1 DEF RestoreInv, RestoreComplete
<1>4. CASE ServerNext
  <2>0. program = "server"
    BY <1>4 DEF ServerNext
  <2>1. CASE ExportNotes \/ ExportFacts \/ ExportEpisodes \/ Reset \/ Restart
    BY <2>1, <1>1 DEF ExportNotes, ExportFacts, ExportEpisodes, Reset, Restart
  <2> QED BY <1>4, <2>0, <2>1, <1>1, ImportBegun, ItemImported, ImportEnded, Zenon
          DEF ServerNext, ArchiveNext
<1> QED BY <1>2, <1>3, <1>4 DEF Next

LEMMA RestoreInit == Init => ServerClean /\ ArchiveClean /\ RestoreInv
<1> SUFFICES ASSUME Init
             PROVE  ServerClean /\ ArchiveClean /\ RestoreInv
  OBVIOUS
<1>1. ServerClean
  BY DEF Init, MemoryInit, ServerClean, NoFacts, NoNotes
<1>2. archive.facts = NoFacts /\ archive.notes = NoNotes /\ restore = "no"
  BY DEF Init, ArchiveInit
<1>3. ArchiveClean
  BY <1>2 DEF ArchiveClean, NoFacts, NoNotes
<1> QED BY <1>1, <1>2, <1>3 DEF RestoreInv, RestoreComplete

\* An archive imported into an empty memory, with nobody else at work, gives
\* back every fact with its status, every episode, and every note but those the
\* memory knows from before a reset (export_import.py:35, admin.py:36).
THEOREM ArchiveRestored == Spec => []RestoreComplete
<1> DEFINE Inv == FactsOnce /\ NotesFiled /\ ServerClean /\ ArchiveClean /\ RestoreInv
<1>1. TypeOK /\ Inv /\ [Next]_vars => Inv'
  <2>1. TypeOK /\ FactsOnce /\ NotesFiled /\ [Next]_vars => FactsOnce' /\ NotesFiled'
    BY Steps, FactsOnceKept, NotesFiledKept DEF TypeOK, MemoryTypeOK, ReposTyped
  <2> QED BY <2>1, ServerCleanKept, ArchiveCleanKept, RestoreInvKept
<1>2. Init => Inv
  BY StoredOnceInit, RestoreInit
<1>3. Inv => RestoreComplete
  BY DEF RestoreInv
<1> HIDE DEF Inv
<1> QED BY <1>1, <1>2, <1>3, InitTyped, TypesKept, PTL DEF Spec
==============================================================================
