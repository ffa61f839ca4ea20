----------------------------- MODULE LocalFiles -----------------------------
(***************************************************************************)
(* The directory .omni-memory of the command line and the MCP server       *)
(* (src/app/cli.py, _local_memory): facts, decisions and experiences, each *)
(* kind in a JSON file (src/infra/repo/persistent_fact_repo.py,            *)
(* decision_repo.py, experience_repo.py).  The vectors beside them are the *)
(* subject of module VectorSnapshot.                                       *)
(*                                                                         *)
(* Any number of processes use the directory, with no lock.  One reads     *)
(* each file once, when it starts, and from then on works on its own copy; *)
(* every change of the copy writes the whole file again.  write_text opens *)
(* the file, which empties it, and then writes: two steps, between which   *)
(* another process may read or write the file, or this one be killed.      *)
(* An empty file loads as no records; one that was cut stops the process   *)
(* that loads it.                                                          *)
(*                                                                         *)
(* Of a record its identifier and, for a fact, its successor are kept.     *)
(* A command is the list of repository calls it makes; the policies that   *)
(* decide on a write are the subject of module Writeback.                  *)
(***************************************************************************)
EXTENDS Integers, Sequences, FiniteSets

CONSTANTS Processes, Ids, Absent, Open,
          Files,      \* the files, in the order _local_memory loads them
          Void, Torn  \* a file with no content or missing, one that was cut

Kinds == {Files[n] : n \in DOMAIN Files}

\* A record is open, or a fact closed in favour of another.
Records == {Open} \cup Ids
Maps == [Ids -> Records \cup {Absent}]
NoRecords == [i \in Ids |-> Absent]

\* A repository call: the records of a kind it sets, and to what.
Writes == [kind : Kinds, ids : SUBSET Ids, to : Records \cup {Absent}]

ASSUME FileConstants ==
  /\ Absent \notin Records
  /\ Open \notin Ids
  /\ {Void, Torn} \cap Maps = {}
  /\ Files \in Seq({"facts", "decisions", "experiences"})
  /\ Len(Files) >= 1 /\ Files[1] = "facts"

VARIABLES disk,      \* kind -> what the file holds
          memory,    \* per process: kind -> its copy
          pc,        \* per process
          at,        \* per process: the next file to load
          todo,      \* per process: the calls its command has still to make
          truth,     \* history: kind -> what the calls that returned left
          disturbed, \* history: kinds that a kill or a second process spoiled
          dropped    \* history: facts removed, or whose save a kill prevented

state == <<disk, memory, pc, at, todo>>
vars == <<state, truth, disturbed, dropped>>

TypeOK ==
  /\ disk \in [Kinds -> Maps \cup {Void, Torn}]
  /\ memory \in [Processes -> [Kinds -> Maps]]
  /\ pc \in [Processes -> {"down", "load", "idle", "apply", "write"}]
  /\ at \in [Processes -> DOMAIN Files]
  /\ todo \in [Processes -> Seq(Writes)]
  /\ truth \in [Kinds -> Maps]
  /\ disturbed \subseteq Kinds
  /\ dropped \subseteq Ids

Init ==
  /\ disk = [k \in Kinds |-> Void]
  /\ memory = [p \in Processes |-> [k \in Kinds |-> NoRecords]]
  /\ pc = [p \in Processes |-> "down"]
  /\ at = [p \in Processes |-> 1]
  /\ todo = [p \in Processes |-> <<>>]
  /\ truth = [k \in Kinds |-> NoRecords]
  /\ disturbed = {}
  /\ dropped = {}

-------------------------------------------------------------------------------
Current(p) == Head(todo[p])
Writing(p, k) == pc[p] = "write" /\ Current(p).kind = k

\* p has its copy of the records of kind k.
Loaded(p, k) ==
  \/ pc[p] \in {"idle", "apply", "write"}
  \/ pc[p] = "load" /\ k \in {Files[n] : n \in 1..(at[p] - 1)}

Start(p) ==
  /\ pc[p] = "down"
  /\ pc' = [pc EXCEPT ![p] = "load"]
  /\ UNCHANGED <<disk, memory, at, todo, truth, disturbed, dropped>>

\* Loading a file while another process writes it.
LoadDisturbs(p, k) ==
  disturbed' = IF \E q \in Processes : Writing(q, k) THEN disturbed \cup {k} ELSE disturbed

LoadTorn(p) ==
  LET k == Files[at[p]] IN
  /\ pc[p] = "load" /\ disk[k] = Torn
  /\ pc' = [pc EXCEPT ![p] = "down"]
  /\ memory' = [memory EXCEPT ![p] = [j \in Kinds |-> NoRecords]]
  /\ at' = [at EXCEPT ![p] = 1]
  /\ UNCHANGED <<disk, todo, truth, disturbed, dropped>>

\* A defect: the process starts with nothing, whatever the file holds.
LoadForgets(p) ==
  LET k == Files[at[p]] IN
  /\ pc[p] = "load" /\ disk[k] # Torn
  /\ IF at[p] < Len(Files)
     THEN at' = [at EXCEPT ![p] = @ + 1] /\ UNCHANGED pc
     ELSE pc' = [pc EXCEPT ![p] = "idle"] /\ at' = [at EXCEPT ![p] = 1]
  /\ LoadDisturbs(p, k)
  /\ UNCHANGED <<disk, memory, todo, truth, dropped>>

\* A defect: the last file is taken for one before the last.
LoadBeyond(p) ==
  LET k == Files[at[p]] IN
  /\ pc[p] = "load" /\ disk[k] # Torn
  /\ memory' = [memory EXCEPT ![p][k] = IF disk[k] = Void THEN NoRecords ELSE disk[k]]
  /\ IF at[p] <= Len(Files)
     THEN at' = [at EXCEPT ![p] = @ + 1] /\ UNCHANGED pc
     ELSE pc' = [pc EXCEPT ![p] = "idle"] /\ at' = [at EXCEPT ![p] = 1]
  /\ LoadDisturbs(p, k)
  /\ UNCHANGED <<disk, todo, truth, dropped>>

Load(p) ==
  LET k == Files[at[p]] IN
  /\ pc[p] = "load" /\ disk[k] # Torn
  /\ memory' = [memory EXCEPT ![p][k] = IF disk[k] = Void THEN NoRecords ELSE disk[k]]
  /\ IF at[p] < Len(Files)
     THEN at' = [at EXCEPT ![p] = @ + 1] /\ UNCHANGED pc
     ELSE pc' = [pc EXCEPT ![p] = "idle"] /\ at' = [at EXCEPT ![p] = 1]
  /\ LoadDisturbs(p, k)
  /\ UNCHANGED <<disk, todo, truth, dropped>>

-------------------------------------------------------------------------------
(* Commands.                                                               *)

Call(p, ws) ==
  /\ pc[p] = "idle"
  /\ todo' = [todo EXCEPT ![p] = ws]
  /\ pc' = [pc EXCEPT ![p] = "apply"]
  /\ UNCHANGED <<disk, memory, at, truth, disturbed, dropped>>

Set(k, ids, to) == [kind |-> k, ids |-> ids, to |-> to]

Save(p, k, i) == Call(p, <<Set(k, {i}, Open)>>)

Has(p, i) == memory[p]["facts"][i] # Absent

\* Patch or retract of a fact that was closed: it keeps its successor, so that
\* no record changes, but the file is written again.
Rewrite(p, i) == Has(p, i) /\ Call(p, <<Set("facts", {}, Open)>>)

\* A defect: the new fact is not saved.
SupersedeHalf(p, i, j) ==
  Has(p, i) /\ Call(p, <<Set("facts", {i}, j)>>)

Supersede(p, i, j) ==
  Has(p, i) /\ Call(p, <<Set("facts", {i}, j), Set("facts", {j}, Open)>>)

\* hard_delete of one fact, gc_expired of those whose time has come; what
\* removes nothing writes nothing.
Remove(p, ids) ==
  ids # {} /\ (\A i \in ids : Has(p, i)) /\ Call(p, <<Set("facts", ids, Absent)>>)

\* The kinds to clear are the caller's choice; they are cleared in this order.
Clear(p, chosen) ==
  /\ \A m, n \in DOMAIN chosen : m < n => chosen[m] < chosen[n]
  /\ Call(p, [n \in DOMAIN chosen |-> Set(Files[chosen[n]], Ids, Absent)])

\* The facts that stop being there.
Dropped(w) == IF w.kind = "facts" /\ w.to = Absent THEN w.ids ELSE {}

Result(map, w) == [i \in Ids |-> IF i \in w.ids THEN w.to ELSE map[i]]

\* The copy is changed and the file opened, which empties it.
Apply(p) ==
  LET w == Current(p) IN
  /\ pc[p] = "apply"
  /\ memory' = [memory EXCEPT ![p][w.kind] = Result(@, w)]
  /\ disk' = [disk EXCEPT ![w.kind] = Void]
  /\ pc' = [pc EXCEPT ![p] = "write"]
  /\ disturbed' = IF \E q \in Processes \ {p} : Loaded(q, w.kind)
                  THEN disturbed \cup {w.kind} ELSE disturbed
  /\ dropped' = dropped \cup Dropped(w)
  /\ UNCHANGED <<at, todo, truth>>

\* The file is written.  If another process has written it since it was opened
\* here, what is there is overwritten, but not cut to the new length.
Finish(p) ==
  LET w == Current(p)
      k == w.kind
  IN
  /\ pc[p] = "write"
  /\ \/ disk' = [disk EXCEPT ![k] = memory[p][k]]
     \/ disk[k] # Void /\ disk' = [disk EXCEPT ![k] = Torn]
  /\ truth' = [truth EXCEPT ![k] = Result(@, w)]
  /\ todo' = [todo EXCEPT ![p] = Tail(@)]
  /\ pc' = [pc EXCEPT ![p] = IF Len(todo[p]) = 1 THEN "idle" ELSE "apply"]
  /\ UNCHANGED <<memory, at, disturbed, dropped>>

\* The process ends: by itself when it is idle, or killed.
Exit(p) ==
  /\ pc[p] # "down"
  /\ pc' = [pc EXCEPT ![p] = "down"]
  /\ memory' = [memory EXCEPT ![p] = [k \in Kinds |-> NoRecords]]
  /\ todo' = [todo EXCEPT ![p] = <<>>]
  /\ IF pc[p] = "write"
     THEN /\ \/ UNCHANGED disk
             \/ disk' = [disk EXCEPT ![Current(p).kind] = Torn]
          /\ disturbed' = disturbed \cup {Current(p).kind}
     ELSE UNCHANGED <<disk, disturbed>>
  /\ dropped' = dropped \cup UNION {todo[p][n].ids : n \in DOMAIN todo[p]}
  /\ at' = [at EXCEPT ![p] = 1]
  /\ UNCHANGED truth

Next ==
  \E p \in Processes :
    \/ Start(p) \/ LoadTorn(p) \/ Load(p)
    \/ \E ids \in SUBSET Ids : Remove(p, ids)
    \/ \E i \in Ids, k \in Kinds : Save(p, k, i)
    \/ \E i \in Ids : Rewrite(p, i)
    \/ \E i, j \in Ids : Supersede(p, i, j)
    \/ \E n \in DOMAIN Files : \E chosen \in [1..n -> DOMAIN Files] : Clear(p, chosen)
    \/ Apply(p) \/ Finish(p) \/ Exit(p)

Spec == Init /\ [][Next]_vars

-------------------------------------------------------------------------------
(* Properties.                                                             *)

Content(k) == IF disk[k] = Void THEN NoRecords ELSE disk[k]

\* Unless a process was killed while it wrote a file, or one held or loaded a
\* copy while another wrote, the file holds what the calls that returned left,
\* whatever processes came and went, and so does the copy of a process that is
\* not writing it.  In particular such a file always loads.
CallsDurable ==
  \A k \in Kinds \ disturbed :
    /\ (\A p \in Processes : ~Writing(p, k)) => Content(k) = truth[k]
    /\ \A p \in Processes : Loaded(p, k) /\ ~Writing(p, k) => memory[p][k] = truth[k]

\* A fact on disk that names its successor has it on disk, unless that is still
\* to be saved by the process at work, was removed later, or would have been
\* saved by a process that was killed between the two calls of supersede.
SuccessorKept ==
  "facts" \notin disturbed =>
    \A i \in Ids : Content("facts")[i] \in Ids =>
      LET j == Content("facts")[i]
      IN  \/ Content("facts")[j] # Absent
          \/ j \in dropped
          \/ \E p \in Processes : \E n \in DOMAIN todo[p] :
               todo[p][n].kind = "facts" /\ j \in todo[p][n].ids
==============================================================================
