----------------------------- MODULE VectorStore -----------------------------
(***************************************************************************)
(* VectorStoreRepo (src/infra/repo/vector_repo.py): an in-memory note      *)
(* store made of five structures that every operation has to keep in step: *)
(*                                                                         *)
(*   index    - the rows of the FAISS index.  A row is the embedding of a  *)
(*              text, so it is represented by that text.                   *)
(*   ids      - the identifier of the object behind each row.              *)
(*   store    - identifier -> object.                                      *)
(*   sigs     - identifier -> signature of the text it was saved with.     *)
(*   sigIndex - signature -> the identifier that first had it.             *)
(*                                                                         *)
(* A signature is a digest of the normalised text; two texts are the same  *)
(* member of Texts exactly when their signatures agree.  Of an object's    *)
(* meta only expire_at is kept, None standing for "no expiry".             *)
(*                                                                         *)
(* Operations are atomic here: one caller at a time.  The interleaving of  *)
(* the statements of save_object is the subject of VectorThreads, files    *)
(* and restarts the subject of VectorSnapshot.                             *)
(***************************************************************************)
EXTENDS Integers, Sequences, FiniteSets

CONSTANTS Ids,          \* object identifiers
          Texts,        \* note texts, up to signature
          TextsOf,      \* TextsOf[i]: texts that callers save under i
          Times,        \* expiry times, and the times gc is called with
          MaxElements,  \* capacity of the repository
          None          \* absence of a value

Expiries == Times \cup {None}

Objects == [text : Texts, exp : Expiries]

ASSUME VectorConstants ==
  /\ TextsOf \in [Ids -> SUBSET Texts]
  /\ Times \subseteq Int
  /\ MaxElements \in Nat
  /\ None \notin Ids \cup Texts \cup Times \cup Objects
  /\ None \notin [id : Ids, exp : Expiries]

VARIABLES index, ids, store, sigs, sigIndex, result

repo == <<index, ids, store, sigs, sigIndex>>
vars == <<index, ids, store, sigs, sigIndex, result>>

Results == {"none", "saved", "duplicate", "capacity", "key_error"}

TypeOK ==
  /\ index \in Seq(Texts)
  /\ ids \in Seq(Ids)
  /\ store \in [Ids -> Objects \cup {None}]
  /\ sigs \in [Ids -> Texts \cup {None}]
  /\ sigIndex \in [Texts -> Ids \cup {None}]
  /\ result \in Results

Stored == {i \in Ids : store[i] # None}

Init ==
  /\ index = <<>>
  /\ ids = <<>>
  /\ store = [i \in Ids |-> None]
  /\ sigs = [i \in Ids |-> None]
  /\ sigIndex = [t \in Texts |-> None]
  /\ result = "none"

-------------------------------------------------------------------------------
(* save_object(obj).  The capacity test comes before the duplicate test.   *)

Full == Len(ids) >= MaxElements

RefuseSave ==
  /\ Full
  /\ result' = "capacity"
  /\ UNCHANGED repo

\* A defect the checks must notice: the refreshed note has no meta.
RefreshDropsMeta(t, e) ==
  /\ ~Full
  /\ sigIndex[t] \in Stored
  /\ store' = [store EXCEPT ![sigIndex[t]] = [text |-> t]]
  /\ result' = "duplicate"
  /\ UNCHANGED <<index, ids, sigs, sigIndex>>

\* The text has a signature already: the meta of the object that holds it
\* is replaced.  Looking that object up fails when it is not stored.
RefreshDuplicate(t, e) ==
  /\ ~Full
  /\ sigIndex[t] # None
  /\ IF sigIndex[t] \in Stored
     THEN /\ store' = [store EXCEPT ![sigIndex[t]] =
                         [text |-> store[sigIndex[t]].text, exp |-> e]]
          /\ result' = "duplicate"
     ELSE /\ result' = "key_error"
          /\ UNCHANGED store
  /\ UNCHANGED <<index, ids, sigs, sigIndex>>

AddNote(i, t, e) ==
  /\ ~Full
  /\ sigIndex[t] = None
  /\ sigIndex' = [sigIndex EXCEPT ![t] = i]
  /\ sigs' = [sigs EXCEPT ![i] = t]
  /\ index' = Append(index, t)
  /\ ids' = Append(ids, i)
  /\ store' = [store EXCEPT ![i] = [text |-> t, exp |-> e]]
  /\ result' = "saved"

SaveObject(i, t, e) ==
  \/ RefuseSave
  \/ RefreshDuplicate(t, e)
  \/ AddNote(i, t, e)

-------------------------------------------------------------------------------
(* gc_expired(now), clear() and the two ways an administrator wipes the    *)
(* store.  They report through their return value, never through result.   *)

\* A defect: a note is due at the very instant of its expiry.
ExpiredEarly(i, now) ==
  /\ i \in Stored
  /\ store[i].exp # None
  /\ store[i].exp <= now

Expired(i, now) ==
  /\ i \in Stored
  /\ store[i].exp # None
  /\ store[i].exp < now

Dead(now) == {i \in Stored : Expired(i, now)}

\* The positions of ids that survive, in order: keep_mask of the code.
IsKeepMask(mask, n, dead) ==
  /\ mask \in [1..n -> {k \in 1..Len(ids) : ids[k] \notin dead}]
  /\ \A a, b \in 1..n : a < b => mask[a] < mask[b]
  /\ \A k \in 1..Len(ids) : ids[k] \notin dead => \E a \in 1..n : mask[a] = k

\* The rows are embedded again, from the text of the stored object.
Rebuild(mask, n) ==
  /\ \A a \in 1..n : ids[mask[a]] \in Stored
  /\ ids' = [a \in 1..n |-> ids[mask[a]]]
  /\ index' = [a \in 1..n |-> store[ids[mask[a]]].text]

\* Defects: the collection forgets the signatures; it drops the dead from
\* ids and store but keeps the rows.
GcKeepsSignatures(now) ==
  LET dead == Dead(now) IN
  /\ dead # {}
  /\ \E n \in 0..Len(ids) :
     \E mask \in [1..n -> 1..Len(ids)] :
       IsKeepMask(mask, n, dead) /\ Rebuild(mask, n)
  /\ store' = [i \in Ids |-> IF i \in dead THEN None ELSE store[i]]
  /\ result' = "none"
  /\ UNCHANGED <<sigs, sigIndex>>

GcKeepsRows(now) ==
  LET dead == Dead(now) IN
  /\ dead # {}
  /\ ids' = SelectSeq(ids, LAMBDA i : i \notin dead)
  /\ store' = [i \in Ids |-> IF i \in dead THEN None ELSE store[i]]
  /\ sigs' = [i \in Ids |-> IF i \in dead THEN None ELSE sigs[i]]
  /\ sigIndex' = [t \in Texts |-> IF sigIndex[t] \in dead THEN None ELSE sigIndex[t]]
  /\ result' = "none"
  /\ UNCHANGED index

\* The signatures of the dead are dropped where they still point at them.
GcExpired(now) ==
  LET dead == Dead(now) IN
  /\ dead # {}
  /\ \E n \in 0..Len(ids) :
     \E mask \in [1..n -> 1..Len(ids)] :
       IsKeepMask(mask, n, dead) /\ Rebuild(mask, n)
  /\ sigIndex' = [t \in Texts |->
                    IF sigIndex[t] \in dead /\ sigs[sigIndex[t]] = t
                    THEN None ELSE sigIndex[t]]
  /\ sigs' = [i \in Ids |-> IF i \in dead THEN None ELSE sigs[i]]
  /\ store' = [i \in Ids |-> IF i \in dead THEN None ELSE store[i]]
  /\ result' = "none"

Clear ==
  /\ index' = <<>>
  /\ ids' = <<>>
  /\ store' = [i \in Ids |-> None]
  /\ sigs' = [i \in Ids |-> None]
  /\ sigIndex' = [t \in Texts |-> None]
  /\ result' = "none"

\* POST /admin/reset recreates the index and empties ids and store by hand;
\* the two signature tables are left as they are.
AdminReset ==
  /\ index' = <<>>
  /\ ids' = <<>>
  /\ store' = [i \in Ids |-> None]
  /\ result' = "none"
  /\ UNCHANGED <<sigs, sigIndex>>

Save == \E i \in Ids, e \in Expiries : \E t \in TextsOf[i] : SaveObject(i, t, e)

CoreNext ==
  \/ Save
  \/ \E now \in Times : GcExpired(now)
  \/ Clear

\* What a process does to its repository without an administrator.
CoreSpec == Init /\ [][CoreNext]_vars

ServerSpec == Init /\ [][CoreNext \/ AdminReset]_vars

-------------------------------------------------------------------------------
(* Properties of the repository for any use of identifiers.                *)

\* Search and garbage collection index the rows by position and look every
\* identifier up: there is one row per identifier and each is stored, so
\* neither semantic_search nor gc_expired can fail half way, whatever mix of
\* saves under reused identifiers, collections and resets came before.
RowsBacked ==
  /\ Len(index) = Len(ids)
  /\ \A k \in 1..Len(ids) : ids[k] \in Stored
  /\ \A i \in Stored : \E k \in 1..Len(ids) : ids[k] = i

(* Properties that need every identifier to stand for one text, as those   *)
(* made from a digest of the note or a random number do.                   *)

OneTextPerId ==
  \A i \in Ids : \A t, u \in TextsOf[i] : t = u

\* The two signature tables and the store tell the same story: a signature
\* leads to a stored object with that very text, and the text of every stored
\* object leads back to it.  So no text is stored twice, and a save that is
\* answered as a duplicate has its text in the store.
SignaturesCoherent ==
  /\ \A t \in Texts : sigIndex[t] # None =>
       /\ sigIndex[t] \in Stored
       /\ store[sigIndex[t]].text = t
  /\ \A i \in Stored :
       /\ sigIndex[store[i].text] = i
       /\ sigs[i] = store[i].text

\* A row of the index is the embedding of the text of the object it stands
\* for, and no object has two rows: a search scores each note once, by its
\* own text.
RowsAligned ==
  /\ Len(index) = Len(ids)
  /\ \A k \in 1..Len(ids) : ids[k] \in Stored /\ index[k] = store[ids[k]].text
  /\ \A k, l \in 1..Len(ids) : ids[k] = ids[l] => k = l

\* Refreshing a duplicate never fails for want of the object
\* (vector_repo.py:116-121).
NoLookupFailure == result # "key_error"

\* The whole repository is a map from texts to notes.
notesBar ==
  [t \in Texts |->
     IF sigIndex[t] = None THEN None
     ELSE [id |-> sigIndex[t], exp |-> store[sigIndex[t]].exp]]

Promise == INSTANCE NoteMap WITH notes <- notesBar

\* Saves, refreshes, collections and clears, each of which touches up to
\* five structures, are steps of that map.
ImplementsNoteMap == Promise!Spec
==============================================================================
