---------------------------- MODULE VectorThreads ----------------------------
(***************************************************************************)
(* save_object of VectorStoreRepo, statement by statement, run by several  *)
(* threads.  The HTTP endpoints that write memory are plain functions, so  *)
(* the server runs each request in a thread of its pool, and the           *)
(* repository takes no lock.  A thread can be descheduled between any two  *)
(* statements; one assignment to a dictionary, one append to a list and    *)
(* one index.add are indivisible.                                          *)
(*                                                                         *)
(* Only saves run here; result is that of the last save that returned.     *)
(***************************************************************************)
EXTENDS VectorStore

CONSTANT Threads

VARIABLES pc,   \* the statement each thread is about to run
          job   \* the object each thread is saving

threadVars == <<index, ids, store, sigs, sigIndex, result, pc, job>>

Labels == {"idle", "lookup", "refresh", "claim", "sign", "row", "id", "put"}

Jobs == UNION {[id : {i}, text : TextsOf[i], exp : Expiries] : i \in Ids}

ASSUME ThreadsConstants ==
  /\ IsFiniteSet(Threads) /\ Threads # {}
  /\ None \notin Jobs

ThreadsTypeOK ==
  /\ TypeOK
  /\ pc \in [Threads -> Labels]
  /\ job \in [Threads -> Jobs \cup {None}]

ThreadsInit ==
  /\ Init
  /\ pc = [p \in Threads |-> "idle"]
  /\ job = [p \in Threads |-> None]

Goto(p, label) == pc' = [pc EXCEPT ![p] = label]

Return(p, answer) ==
  /\ Goto(p, "idle")
  /\ job' = [job EXCEPT ![p] = None]
  /\ result' = answer

\* A defect: no capacity test.
EnterUnchecked(p, j) ==
  /\ pc[p] = "idle"
  /\ Goto(p, "lookup")
  /\ job' = [job EXCEPT ![p] = j]
  /\ UNCHANGED <<index, ids, store, sigs, sigIndex, result>>

\* The call, up to and including the capacity test.
Enter(p, j) ==
  /\ pc[p] = "idle"
  /\ ~Full
  /\ Goto(p, "lookup")
  /\ job' = [job EXCEPT ![p] = j]
  /\ UNCHANGED <<index, ids, store, sigs, sigIndex, result>>

EnterFull(p) ==
  /\ pc[p] = "idle"
  /\ Full
  /\ Return(p, "capacity")
  /\ UNCHANGED repo

\* A defect: the identifier is looked up instead of the text.
LookUpById(p) ==
  /\ pc[p] = "lookup"
  /\ Goto(p, IF sigs[job[p].id] # None THEN "refresh" ELSE "claim")
  /\ UNCHANGED <<index, ids, store, sigs, sigIndex, result, job>>

\* if sig in self._sig_index
LookUp(p) ==
  /\ pc[p] = "lookup"
  /\ Goto(p, IF sigIndex[job[p].text] # None THEN "refresh" ELSE "claim")
  /\ UNCHANGED <<index, ids, store, sigs, sigIndex, result, job>>

\* self._store[dup_id].meta = obj.meta
Refresh(p) ==
  LET dup == sigIndex[job[p].text] IN
  /\ pc[p] = "refresh"
  /\ IF dup \in Stored
     THEN /\ store' = [store EXCEPT ![dup] =
                         [text |-> store[dup].text, exp |-> job[p].exp]]
          /\ Return(p, "duplicate")
     ELSE /\ Return(p, "key_error")
          /\ UNCHANGED store
  /\ UNCHANGED <<index, ids, sigs, sigIndex>>

\* self._sig_index[sig] = obj.id
Claim(p) ==
  /\ pc[p] = "claim"
  /\ sigIndex' = [sigIndex EXCEPT ![job[p].text] = job[p].id]
  /\ Goto(p, "sign")
  /\ UNCHANGED <<index, ids, store, sigs, result, job>>

\* self._sigs[obj.id] = sig
Sign(p) ==
  /\ pc[p] = "sign"
  /\ sigs' = [sigs EXCEPT ![job[p].id] = job[p].text]
  /\ Goto(p, "row")
  /\ UNCHANGED <<index, ids, store, sigIndex, result, job>>

\* self._index.add(emb)
AddRow(p) ==
  /\ pc[p] = "row"
  /\ index' = Append(index, job[p].text)
  /\ Goto(p, "id")
  /\ UNCHANGED <<ids, store, sigs, sigIndex, result, job>>

\* A defect: an identifier that is listed is not listed again.
AddIdOnce(p) ==
  /\ pc[p] = "id"
  /\ ids' = IF \E k \in 1..Len(ids) : ids[k] = job[p].id
            THEN ids ELSE Append(ids, job[p].id)
  /\ Goto(p, "put")
  /\ UNCHANGED <<index, store, sigs, sigIndex, result, job>>

\* self._ids.append(obj.id)
AddId(p) ==
  /\ pc[p] = "id"
  /\ ids' = Append(ids, job[p].id)
  /\ Goto(p, "put")
  /\ UNCHANGED <<index, store, sigs, sigIndex, result, job>>

\* self._store[obj.id] = obj
Put(p) ==
  /\ pc[p] = "put"
  /\ store' = [store EXCEPT ![job[p].id] =
                 [text |-> job[p].text, exp |-> job[p].exp]]
  /\ Return(p, "saved")
  /\ UNCHANGED <<index, ids, sigs, sigIndex>>

Step(p) ==
  \/ \E j \in Jobs : Enter(p, j)
  \/ EnterFull(p)
  \/ LookUp(p)
  \/ Refresh(p)
  \/ Claim(p)
  \/ Sign(p)
  \/ AddRow(p)
  \/ AddId(p)
  \/ Put(p)

ThreadsNext == \E p \in Threads : Step(p)

ThreadsSpec == ThreadsInit /\ [][ThreadsNext]_threadVars

-------------------------------------------------------------------------------

Quiet == \A p \in Threads : pc[p] = "idle"

\* Each thread that passed the capacity test before the others appended adds
\* one row too many, and no more than one: the capacity is exceeded by at most
\* the number of the other threads.
CapacityOvershoot == Len(ids) < MaxElements + Cardinality(Threads)

Rows(t) == {k \in 1..Len(index) : index[k] = t}
Entries(t) == {k \in 1..Len(ids) : store[ids[k]].text = t}

\* When no save is under way there are as many rows as identifiers, every
\* identifier is stored, every stored object has a row, and the rows are the
\* embeddings of the texts of the stored objects: what a race can cost is
\* duplicates and the order of the rows, never a row too many or too few.
QuietRowsBacked ==
  Quiet =>
    /\ RowsBacked
    /\ OneTextPerId => \A t \in Texts : Cardinality(Rows(t)) = Cardinality(Entries(t))

\* The two ways in which saves of one text can go wrong need two threads at it
\* (vector_repo.py:117, 123): a refresh that does not find its object has met a
\* save by another thread, between the statement that publishes the signature
\* and the one that stores the object; and a text that is stored twice was being
\* saved by several threads at once, for one of its identifiers is the one of
\* its signature, and there are no more of them than threads.
AnomaliesNeedRace ==
  /\ \A p \in Threads :
       pc[p] = "refresh" /\ sigIndex[job[p].text] \notin Stored =>
         \E q \in Threads \ {p} :
           job[q] # None /\ job[q].text = job[p].text
             /\ pc[q] \in {"sign", "row", "id", "put"}
  /\ Quiet /\ OneTextPerId =>
       \A t \in Texts :
         LET holders == {i \in Stored : store[i].text = t} IN
         holders # {} =>
           sigIndex[t] \in holders /\ Cardinality(holders) <= Cardinality(Threads)
==============================================================================
