------------------------------- MODULE Memory -------------------------------
(***************************************************************************)
(* OmniMemory (src/app/memory.py): facts, notes and episodes behind one    *)
(* facade, written through the policies of src/app/writeback and changed   *)
(* past them by maintenance, clears and resets.                            *)
(*                                                                         *)
(* An item passes the policies and is saved in one step: what can happen   *)
(* between the two is the subject of module Writeback.  Here requests go   *)
(* on for long, and whatever a program may do in between, it does.         *)
(*                                                                         *)
(* A fact is a triple, in a slot (its subject and predicate), and open or  *)
(* closed (status retracted or historical).  A note is its text.  The      *)
(* vector repository also keeps a table of the texts it has seen, which    *)
(* the policies ask; it is not the same as what the repository holds.      *)
(***************************************************************************)
EXTENDS Integers, FiniteSets

CONSTANTS FactIds, NoteIds, EpisodeIds, Triples, Texts,
          SlotOf,     \* triple -> its slot
          Refusable,  \* triples and texts that a policy refuses for themselves
          Fresh,      \* stands for an identifier that is made up for the item
          None

Facts == [triple : Triples, open : BOOLEAN]

FactItems == [kind : {"fact"}, id : FactIds \cup {Fresh}, triple : Triples, open : BOOLEAN]
NoteItems == [kind : {"note"}, id : NoteIds \cup {Fresh}, text : Texts]
EpisodeItems == [kind : {"episode"}, id : EpisodeIds \cup {Fresh}]
Items == FactItems \cup NoteItems \cup EpisodeItems

Contents == Triples \cup Texts \cup EpisodeIds

ASSUME MemoryConstants ==
  /\ Refusable \subseteq Triples \cup Texts
  /\ Fresh \notin FactIds \cup NoteIds \cup EpisodeIds
  /\ None \notin Facts \cup Texts \cup NoteIds
  /\ Triples \cap Texts = {} /\ Triples \cap EpisodeIds = {} /\ Texts \cap EpisodeIds = {}

VARIABLES program,     \* "server", "agent" or "strict agent"
          facts,       \* graph repository: id -> fact or None
          notes,       \* vector repository: id -> text or None
          signatures,  \* vector repository: text -> id it was saved under, or None
          episodes,    \* episodic repository: ids
          request,     \* what is left of the request under way
          given,       \* history: ids whose triple maintenance gave them
          promised,    \* history: what a client was told is saved, or known,
                       \* and was not changed, replaced or cleared since
          forgotten    \* history: texts replaced or reset since they were saved

memory == <<facts, notes, signatures, episodes>>
ledger == <<given, promised, forgotten>>

Idle == [for |-> "nothing", items |-> {}, dry |-> FALSE, clear |-> FALSE]

MemoryTypeOK ==
  /\ program \in {"server", "agent", "strict agent"}
  /\ facts \in [FactIds -> Facts \cup {None}]
  /\ notes \in [NoteIds -> Texts \cup {None}]
  /\ signatures \in [Texts -> NoteIds \cup {None}]
  /\ episodes \in SUBSET EpisodeIds
  /\ request \in [for : {"nothing", "commit", "import"}, items : SUBSET Items,
                  dry : BOOLEAN, clear : BOOLEAN]
  /\ given \in SUBSET FactIds
  /\ promised \in SUBSET Contents
  /\ forgotten \in SUBSET Texts

NoFacts == [i \in FactIds |-> None]
NoNotes == [i \in NoteIds |-> None]
NoSignatures == [t \in Texts |-> None]

MemoryInit ==
  /\ program \in {"server", "agent", "strict agent"}
  /\ facts = NoFacts
  /\ notes = NoNotes
  /\ signatures = NoSignatures
  /\ episodes = {}
  /\ request = Idle
  /\ given = {} /\ promised = {} /\ forgotten = {}

-------------------------------------------------------------------------------
(* One item goes through the policies.                                     *)

TripleAt(i) == IF facts[i] = None THEN None ELSE facts[i].triple

\* Facts of any status count, for the conflict and for the duplicate.
HoldersOpen(t) == {i \in FactIds : facts[i] # None /\ facts[i].triple = t /\ facts[i].open}
Holders(t) == {i \in FactIds : facts[i] # None /\ facts[i].triple = t}
Rivals(t) == {i \in FactIds : /\ facts[i] # None /\ facts[i].triple # t
                              /\ SlotOf[facts[i].triple] = SlotOf[t]}

RefusesFact(t) == t \in Refusable \/ (program = "strict agent" /\ Rivals(t) # {})

AddFact(item, i) ==
  /\ item.kind = "fact" /\ ~RefusesFact(item.triple) /\ Holders(item.triple) = {}
  /\ facts' = [facts EXCEPT ![i] = [triple |-> item.triple, open |-> item.open]]
  /\ given' = given \ {i}
  /\ promised' = (promised \ {TripleAt(i)}) \cup {item.triple}
  /\ UNCHANGED <<notes, signatures, episodes, forgotten>>

KnownFact(item) ==
  /\ item.kind = "fact" /\ ~RefusesFact(item.triple) /\ Holders(item.triple) # {}
  /\ promised' = promised \cup {item.triple}
  /\ UNCHANGED <<memory, given, forgotten>>

\* An identifier that is saved with another text keeps the signature of the
\* old one, which is then known and nowhere.
AddNote(item, i) ==
  /\ item.kind = "note" /\ item.text \notin Refusable /\ signatures[item.text] = None
  /\ notes' = [notes EXCEPT ![i] = item.text]
  /\ signatures' = [signatures EXCEPT ![item.text] = i]
  /\ promised' = (promised \ {notes[i]}) \cup {item.text}
  /\ forgotten' = forgotten \cup ({notes[i]} \ {None})
  /\ UNCHANGED <<facts, episodes, given>>

KnownNote(item) ==
  /\ item.kind = "note" /\ item.text \notin Refusable /\ signatures[item.text] # None
  /\ promised' = promised \cup ({item.text} \ forgotten)
  /\ UNCHANGED <<memory, given, forgotten>>

AddEpisode(item, i) ==
  /\ item.kind = "episode"
  /\ episodes' = episodes \cup {i}
  /\ promised' = promised \cup {i}
  /\ UNCHANGED <<facts, notes, signatures, given, forgotten>>

Refuse(item) ==
  /\ \/ item.kind = "fact" /\ RefusesFact(item.triple)
     \/ item.kind = "note" /\ item.text \in Refusable
  /\ UNCHANGED <<memory, ledger>>

\* The identifiers an item may be saved under.
IdsFor(item) ==
  IF item.id # Fresh THEN {item.id}
  ELSE CASE item.kind = "fact" -> {i \in FactIds : facts[i] = None}
         [] item.kind = "note" ->
              {i \in NoteIds : notes[i] = None /\ \A t \in Texts : signatures[t] # i}
         [] item.kind = "episode" -> EpisodeIds \ episodes

Save(item) ==
  \/ \E i \in IdsFor(item) : AddFact(item, i) \/ AddNote(item, i) \/ AddEpisode(item, i)
  \/ KnownFact(item) \/ KnownNote(item) \/ Refuse(item)

\* A client writes one item: write_fact, write_note, write_items.
Write(item) == Save(item) /\ UNCHANGED <<program, request>>

-------------------------------------------------------------------------------
(* The items of a request, one after the other.                            *)

Rank(item) == CASE item.kind = "fact" -> 1
                [] item.kind = "episode" -> 2
                [] item.kind = "note" -> 3

\* An archive goes in by kinds, what a session yields in any order.
Due == IF request.for = "import"
       THEN {m \in request.items : \A n \in request.items : Rank(m) <= Rank(n)}
       ELSE request.items

Handle ==
  \E item \in Due :
    /\ request' = [request EXCEPT !.items = @ \ {item}]
    /\ IF request.dry THEN UNCHANGED <<memory, ledger>> ELSE Save(item)
    /\ UNCHANGED program

-------------------------------------------------------------------------------
(* Maintenance (src/app/fact_maintenance.py) asks no policy.               *)

Has(i) == facts[i] # None

Patch(i, t, open) ==
  /\ Has(i)
  /\ facts' = [facts EXCEPT ![i] = [triple |-> t, open |-> open]]
  /\ given' = given \cup {i}
  /\ promised' = promised \ {TripleAt(i)}
  /\ UNCHANGED <<program, notes, signatures, episodes, request, forgotten>>

Retract(i) ==
  /\ Has(i)
  /\ facts' = [facts EXCEPT ![i].open = FALSE]
  /\ promised' = promised \ {TripleAt(i)}
  /\ UNCHANGED <<program, notes, signatures, episodes, request, given, forgotten>>

\* The old fact is closed, then the new one saved, whatever j held.
Supersede(i, j, t) ==
  /\ Has(i)
  /\ facts' = [facts EXCEPT ![i].open = FALSE, ![j] = [triple |-> t, open |-> TRUE]]
  /\ given' = given \cup {j}
  /\ promised' = promised \ {TripleAt(i), TripleAt(j)}
  /\ UNCHANGED <<program, notes, signatures, episodes, request, forgotten>>

HardDelete(i) ==
  /\ Has(i)
  /\ facts' = [facts EXCEPT ![i] = None]
  /\ given' = given \ {i}
  /\ promised' = promised \ {TripleAt(i)}
  /\ UNCHANGED <<program, notes, signatures, episodes, request, forgotten>>

Maintain ==
  \E i \in FactIds :
    \/ Retract(i) \/ HardDelete(i)
    \/ \E t \in Triples :
         \/ \E open \in BOOLEAN : Patch(i, t, open)
         \/ \E j \in FactIds : Supersede(i, j, t)

-------------------------------------------------------------------------------
(* Clearing; which also ends the promises about what is cleared.           *)

Parts == {"vectors", "facts", "episodes"}

Cleared(parts) ==
  (IF "facts" \in parts THEN Triples ELSE {}) \cup
  (IF "vectors" \in parts THEN Texts ELSE {}) \cup
  (IF "episodes" \in parts THEN EpisodeIds ELSE {})

\* A defect: the table of signatures is not cleared with the notes.
ClearNotesOnly(parts) ==
  /\ facts' = IF "facts" \in parts THEN NoFacts ELSE facts
  /\ given' = IF "facts" \in parts THEN {} ELSE given
  /\ notes' = IF "vectors" \in parts THEN NoNotes ELSE notes
  /\ episodes' = IF "episodes" \in parts THEN {} ELSE episodes
  /\ promised' = promised \ Cleared(parts)
  /\ forgotten' = IF "vectors" \in parts THEN {} ELSE forgotten
  /\ UNCHANGED <<program, signatures, request>>

Clear(parts) ==
  /\ facts' = IF "facts" \in parts THEN NoFacts ELSE facts
  /\ given' = IF "facts" \in parts THEN {} ELSE given
  /\ notes' = IF "vectors" \in parts THEN NoNotes ELSE notes
  /\ signatures' = IF "vectors" \in parts THEN NoSignatures ELSE signatures
  /\ episodes' = IF "episodes" \in parts THEN {} ELSE episodes
  /\ promised' = promised \ Cleared(parts)
  /\ forgotten' = IF "vectors" \in parts THEN {} ELSE forgotten
  /\ UNCHANGED <<program, request>>
==============================================================================
