------------------------------- MODULE Archive -------------------------------
(***************************************************************************)
(* The administration of the server (src/app/admin.py): an archive of the  *)
(* memory is exported and imported (src/app/export_import.py), the memory  *)
(* is reset, and a restart begins with an empty one.                       *)
(*                                                                         *)
(* Requests run in a pool of threads.  An export reads notes, facts and    *)
(* episodes one after the other, an import is a request of many items, and *)
(* clients go on writing in between.  One administrator waits for the      *)
(* answer of an export or an import before the next one (a bound, like     *)
(* that an export is not cut off by a restart), may reset at any time, and *)
(* imports the archive of the last export.                                 *)
(***************************************************************************)
EXTENDS Memory

VARIABLES archive,    \* notes, facts and episodes as they were read
          exporting,  \* "no", or the part that is read next
          restore,    \* history: "no", "alone" while an import into an empty
                      \* memory is the only one at work, then "complete"
          remembered  \* history: texts that were known when it began

archiveVars == <<archive, exporting>>
adminVars == <<archive, exporting, restore, remembered>>

ArchiveTypeOK ==
  /\ archive \in [notes : [NoteIds -> Texts \cup {None}],
                  facts : [FactIds -> Facts \cup {None}],
                  episodes : SUBSET EpisodeIds]
  /\ exporting \in {"no", "facts", "episodes"}
  /\ restore \in {"no", "alone", "complete"}
  /\ remembered \in SUBSET Texts

ArchiveInit ==
  /\ archive = [notes |-> NoNotes, facts |-> NoFacts, episodes |-> {}]
  /\ exporting = "no"
  /\ restore = "no"
  /\ remembered = {}

\* Someone else is at work: nothing more is said of the import.
Disturb == restore' = "no" /\ remembered' = {}

ExportNotes ==
  /\ exporting = "no" /\ request.for = "nothing"
  /\ archive' = [notes |-> notes, facts |-> NoFacts, episodes |-> {}]
  /\ exporting' = "facts"
  /\ Disturb
  /\ UNCHANGED <<program, memory, ledger, request>>

ExportFacts ==
  /\ exporting = "facts"
  /\ archive' = [archive EXCEPT !.facts = facts]
  /\ exporting' = "episodes"
  /\ Disturb
  /\ UNCHANGED <<program, memory, ledger, request>>

ExportEpisodes ==
  /\ exporting = "episodes"
  /\ archive' = [archive EXCEPT !.episodes = episodes]
  /\ exporting' = "no"
  /\ Disturb
  /\ UNCHANGED <<program, memory, ledger, request>>

\* A defect: facts lose their meta, and with it their status, like notes do.
FactsOfBare ==
  {[kind |-> "fact", id |-> i, triple |-> archive.facts[i].triple, open |-> TRUE] :
     i \in {j \in FactIds : archive.facts[j] # None}}

FactsOf ==
  {[kind |-> "fact", id |-> i, triple |-> archive.facts[i].triple, open |-> archive.facts[i].open] :
     i \in {j \in FactIds : archive.facts[j] # None}}

\* Of a note only its identifier and text, or payload, are imported.
NotesOf ==
  {[kind |-> "note", id |-> i, text |-> archive.notes[i]] :
     i \in {j \in NoteIds : archive.notes[j] # None}}

EpisodesOf == {[kind |-> "episode", id |-> i] : i \in archive.episodes}

Empty == facts = NoFacts /\ notes = NoNotes /\ episodes = {}

Import ==
  /\ exporting = "no" /\ request.for = "nothing"
  /\ request' = [for |-> "import", items |-> FactsOf \cup NotesOf \cup EpisodesOf,
                 dry |-> FALSE, clear |-> FALSE]
  /\ restore' = IF Empty THEN "alone" ELSE "no"
  /\ remembered' = IF Empty THEN {t \in Texts : signatures[t] # None} ELSE {}
  /\ UNCHANGED <<program, memory, ledger, archiveVars>>

ImportItem == Handle /\ UNCHANGED adminVars

EndImport ==
  /\ request.for = "import" /\ request.items = {}
  /\ request' = Idle
  /\ restore' = IF restore = "alone" THEN "complete" ELSE "no"
  /\ UNCHANGED <<program, memory, ledger, archiveVars, remembered>>

\* /admin/reset forgets the notes and keeps their signatures.
Reset ==
  /\ facts' = NoFacts /\ notes' = NoNotes /\ episodes' = {}
  /\ given' = {} /\ promised' = {}
  /\ forgotten' = {t \in Texts : signatures[t] # None}
  /\ Disturb
  /\ UNCHANGED <<program, signatures, request, archiveVars>>

\* The server keeps its memory in the process; the client keeps the archive.
Restart ==
  /\ exporting = "no"
  /\ facts' = NoFacts /\ notes' = NoNotes /\ signatures' = NoSignatures /\ episodes' = {}
  /\ given' = {} /\ promised' = {} /\ forgotten' = {}
  /\ request' = Idle
  /\ Disturb
  /\ UNCHANGED <<program, archiveVars>>

ArchiveNext ==
  \/ ExportNotes \/ ExportFacts \/ ExportEpisodes
  \/ Import \/ ImportItem \/ EndImport
  \/ Reset \/ Restart
==============================================================================
