------------------------------ MODULE Programs ------------------------------
(***************************************************************************)
(* The two kinds of program around OmniMemory: an agent, with a session    *)
(* and maintenance (the library, and the MCP server of src/app/mcp_server  *)
(* .py), and the HTTP server (src/app/main.py), with its administration.   *)
(* An agent may reject conflicting facts; the server never does.           *)
(***************************************************************************)
EXTENDS Session, Archive

CONSTANT WriteItems   \* program -> what its clients write by themselves

ASSUME ProgramsConstants == WriteItems \in [{"server", "agent", "strict agent"} -> SUBSET Items]

vars == <<program, memory, ledger, request, session, adminVars>>

TypeOK == MemoryTypeOK /\ SessionTypeOK /\ ArchiveTypeOK

Init == MemoryInit /\ SessionInit /\ ArchiveInit

AgentNext ==
  /\ program \in {"agent", "strict agent"}
  /\ \/ SessionNext
     \/ \E item \in WriteItems[program] : Write(item) /\ UNCHANGED session
     \/ Handle /\ UNCHANGED session
     \/ Maintain /\ UNCHANGED session
     \/ \E parts \in SUBSET Parts :
          ClearAll(parts) \/ (Clear(parts) /\ UNCHANGED session)
  /\ UNCHANGED adminVars

ServerNext ==
  /\ program = "server"
  /\ \/ ArchiveNext
     \/ \E item \in WriteItems[program] : Write(item) /\ Disturb /\ UNCHANGED archiveVars
  /\ UNCHANGED session

Next == AgentNext \/ ServerNext

Spec == Init /\ [][Next]_vars

-------------------------------------------------------------------------------
(* Properties.                                                             *)

\* Writes, commits of turns that were committed before and archives that are
\* imported again store nothing twice, also when the fact was retracted or
\* superseded in between: a triple is under two identifiers only if maintenance
\* gave it to one of them, a text never is (memory_policies.py:241, 290).
NothingTwice ==
  /\ \A i, j \in FactIds :
       i # j /\ Has(i) /\ Has(j) /\ facts[i].triple = facts[j].triple =>
         {i, j} \cap given # {}
  /\ \A i, j \in NoteIds : i # j /\ notes[i] # None => notes[i] # notes[j]

Held == {facts[i].triple : i \in {j \in FactIds : Has(j)}} \cup
        ({notes[i] : i \in NoteIds} \ {None}) \cup episodes

\* What a client was told is saved, or known already, is held until it is
\* cleared, unless maintenance changed it, its identifier was saved again with
\* something else, or the notes were forgotten by a reset that keeps their
\* signatures (vector_repo.py:117, admin.py:36).
AcceptedIsHeld == promised \subseteq Held

\* An import into an empty memory that is alone at work gives back what was
\* exported: every fact with its status, every episode, every note but those
\* that the memory had known before a reset (export_import.py:35).
RestoreComplete ==
  restore = "complete" =>
    /\ facts = archive.facts
    /\ episodes = archive.episodes
    /\ \A i \in NoteIds : notes[i] = archive.notes[i] \/ archive.notes[i] \in remembered

\* A turn that a commit took from the buffer had been distilled, by it or by an
\* earlier one that kept it, unless it was said while a commit was under way
\* (memory.py:441): a dry run or a distiller that fails loses none.
DroppedWasHeard == \A turn \in dropped : turn.heard \/ turn.during
==============================================================================
