---------------------------- MODULE VectorSnapshot ----------------------------
(***************************************************************************)
(* PersistentVectorRepo (src/infra/repo/persistent_vector_repo.py): every  *)
(* call that changes the vector repository rewrites its snapshot, four     *)
(* files one after the other, and a new process starts from those files.   *)
(* Writing a file truncates it and then fills it, so a process that stops  *)
(* in the middle leaves that file torn and the following ones as they were.*)
(*                                                                         *)
(* The commands of the CLI are short-lived processes over one directory:   *)
(* Stop and Start alternate.  One process is alive at a time.              *)
(***************************************************************************)
EXTENDS VectorStore

CONSTANTS Torn,     \* content of a file whose writing did not end
          MaxKills  \* bound: processes killed while they write

ASSUME SnapshotConstants ==
  /\ MaxKills \in Nat
  /\ Torn # None
  /\ \A m \in {Torn, None} :
       /\ m \notin Seq(Texts) /\ m \notin Seq(Ids) /\ m \notin Nat
       /\ m \notin [Ids -> Objects \cup {None}]

VARIABLES disk,   \* what each file of the snapshot holds
          flush,  \* the file the running call writes next, 0 between calls
          mode,   \* the process is "up", "down", or cannot start
          kills,  \* how many processes were killed while they wrote
          acked,  \* the objects stored when the last call returned, or found
                  \* by the process that started last
          tried   \* the objects the last call meant to leave on disk

ghosts == <<kills, acked, tried>>
snapVars == <<index, ids, store, sigs, sigIndex, result, disk, flush, mode, ghosts>>

\* index.faiss, ids.json, store.json and meta.json, in the order of save().
Files == 1..4

Image(f) ==
  CASE f = 1 -> index
    [] f = 2 -> ids
    [] f = 3 -> store
    [] f = 4 -> Len(ids)

SnapTypeOK ==
  /\ TypeOK
  /\ disk[1] \in {None, Torn} \/ disk[1] \in Seq(Texts)
  /\ disk[2] \in {None, Torn} \/ disk[2] \in Seq(Ids)
  /\ disk[3] \in {None, Torn} \/ disk[3] \in [Ids -> Objects \cup {None}]
  /\ disk[4] \in {None, Torn} \/ disk[4] \in Nat
  /\ flush \in {0} \cup Files
  /\ mode \in {"up", "down", "refused"}
  /\ kills \in 0..MaxKills
  /\ {acked, tried} \subseteq [Ids -> Objects \cup {None}]

SnapInit ==
  /\ Init
  /\ disk = [f \in Files |-> None]
  /\ flush = 0
  /\ mode = "up"
  /\ kills = 0
  /\ acked = store
  /\ tried = store

-------------------------------------------------------------------------------

Ready == mode = "up" /\ flush = 0

\* The call changed the memory and goes on to write it.
Flush ==
  /\ flush' = 1
  /\ tried' = store'
  /\ UNCHANGED <<disk, mode, kills, acked>>

\* A defect: a refreshed duplicate is not written.
SnapSaveNewOnly ==
  /\ Ready
  /\ Save
  /\ IF result' = "saved"
     THEN Flush
     ELSE UNCHANGED <<disk, flush, mode, ghosts>>

\* save_object flushes whenever the inner repository answers, new note or
\* duplicate alike; an exception leaves it before the flush.
SnapSave ==
  /\ Ready
  /\ Save
  /\ IF result' \in {"saved", "duplicate"}
     THEN Flush
     ELSE UNCHANGED <<disk, flush, mode, ghosts>>

\* gc_expired flushes when it removed something, clear always does.
SnapGc ==
  /\ Ready
  /\ \E now \in Times : GcExpired(now)
  /\ Flush

SnapClear ==
  /\ Ready
  /\ Clear
  /\ Flush

\* An identifier without an object stops the collection at its row: the index
\* has been replaced and holds the rows embedded so far, nothing else changed.
SnapGcAborts ==
  /\ Ready
  /\ \E now \in Times :
       /\ Dead(now) # {}
       /\ \E n \in 0..Len(ids) :
          \E mask \in [1..n -> 1..Len(ids)], m \in 1..n :
            /\ IsKeepMask(mask, n, Dead(now))
            /\ ids[mask[m]] \notin Stored
            /\ \A a \in 1..(m - 1) : ids[mask[a]] \in Stored
            /\ index' = [a \in 1..(m - 1) |-> store[ids[mask[a]]].text]
  /\ result' = "key_error"
  /\ UNCHANGED <<ids, store, sigs, sigIndex, disk, flush, mode, ghosts>>

Truncate ==
  /\ flush \in Files
  /\ disk[flush] # Torn
  /\ disk' = [disk EXCEPT ![flush] = Torn]
  /\ UNCHANGED <<index, ids, store, sigs, sigIndex, result, flush, mode, ghosts>>

\* A defect: the count is written once and for all.
FillMetaOnce ==
  /\ flush \in Files
  /\ disk[flush] = Torn
  /\ disk' = [disk EXCEPT ![flush] = Image(flush)]
  /\ IF flush = 4 \/ (flush = 3 /\ disk[4] # None)
     THEN flush' = 0 /\ acked' = store
     ELSE flush' = flush + 1 /\ UNCHANGED acked
  /\ UNCHANGED <<index, ids, store, sigs, sigIndex, result, mode, kills, tried>>

Fill ==
  /\ flush \in Files
  /\ disk[flush] = Torn
  /\ disk' = [disk EXCEPT ![flush] = Image(flush)]
  /\ IF flush = 4
     THEN flush' = 0 /\ acked' = store
     ELSE flush' = flush + 1 /\ UNCHANGED acked
  /\ UNCHANGED <<index, ids, store, sigs, sigIndex, result, mode, kills, tried>>

\* The process ends and its memory with it, between two calls or, killed, in
\* the middle of one.
Stop ==
  /\ mode = "up"
  /\ mode' = "down"
  /\ flush' = 0
  /\ kills' = IF flush = 0 THEN kills ELSE kills + 1
  /\ index' = <<>>
  /\ ids' = <<>>
  /\ store' = [i \in Ids |-> None]
  /\ sigs' = [i \in Ids |-> None]
  /\ sigIndex' = [t \in Texts |-> None]
  /\ result' = "none"
  /\ UNCHANGED <<disk, acked, tried>>

Complete == \A f \in Files : disk[f] # None

\* A defect: a torn file counts as a missing one.
StartForgiving ==
  /\ mode # "up"
  /\ mode' = "up"
  /\ IF \A f \in Files : disk[f] \notin {None, Torn}
     THEN index' = disk[1] /\ ids' = disk[2] /\ store' = disk[3]
     ELSE UNCHANGED <<index, ids, store>>
  /\ acked' = store'
  /\ UNCHANGED <<sigs, sigIndex, result, disk, flush, kills, tried>>

\* The constructor.  An incomplete snapshot is ignored, an unreadable file is
\* an exception; otherwise index, ids and store are replaced by what the files
\* hold, whether or not they belong together.  The signature tables stay as a
\* new object has them: empty.
Start ==
  /\ mode # "up"
  /\ IF Complete /\ \E f \in Files : disk[f] = Torn
     THEN mode' = "refused" /\ UNCHANGED <<index, ids, store, acked>>
     ELSE /\ mode' = "up"
          /\ IF Complete
             THEN index' = disk[1] /\ ids' = disk[2] /\ store' = disk[3]
             ELSE UNCHANGED <<index, ids, store>>
          /\ acked' = store'
  /\ UNCHANGED <<sigs, sigIndex, result, disk, flush, kills, tried>>

Calls ==
  \/ SnapSave
  \/ SnapGc
  \/ SnapGcAborts
  \/ SnapClear
  \/ Truncate
  \/ Fill
  \/ Start

OrderlyStop == Ready /\ Stop

\* Processes that end between two calls.
OrderlySpec == SnapInit /\ [][Calls \/ OrderlyStop]_snapVars

\* Processes that can also be killed while a call writes, MaxKills of them.
Kill == flush # 0 /\ kills < MaxKills /\ Stop

CrashSpec == SnapInit /\ [][Calls \/ OrderlyStop \/ Kill]_snapVars

-------------------------------------------------------------------------------

\* What a process started now would find.
Recovered == IF Complete THEN <<disk[1], disk[2], disk[3]>>
             ELSE <<<<>>, <<>>, [i \in Ids |-> None]>>

\* As long as no process was killed, the snapshot is the memory between two
\* calls, so that what a call has acknowledged is on disk; refused and failed
\* calls leave no difference.
DiskIsMemory == kills = 0 /\ Ready => Recovered = <<index, ids, store>>

\* As long as no process was killed while it wrote, each snapshot that a
\* process may start from can be read and has a row for each identifier and an
\* object for each row, so a restart never makes a search fail.
SnapshotBacked ==
  kills = 0 /\ flush = 0 /\ Complete =>
    /\ \A f \in Files : disk[f] # Torn
    /\ Len(disk[1]) = Len(disk[2])
    /\ disk[4] = Len(disk[2])
    /\ \A k \in 1..Len(disk[2]) : disk[3][disk[2][k]] # None

\* A kill costs at most the call it interrupted: whenever a process can start
\* from the files, it finds the objects of the last call that returned or
\* those of the call that was writing.
KillCostsOneCall ==
  (\A f \in Files : disk[f] # Torn) => Recovered[3] \in {acked, tried}

\* A text the repository holds is known as a duplicate, in a new process as in
\* the one that saved it (vector_repo.py:116).
StoredTextIsKnown == \A i \in Stored : sigIndex[store[i].text] # None
==============================================================================
