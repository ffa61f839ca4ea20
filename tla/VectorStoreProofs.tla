--------------------------- MODULE VectorStoreProofs ---------------------------
(***************************************************************************)
(* What holds of the vector repository for every set of identifiers,       *)
(* texts and expiry times and for every capacity; then of save_object run  *)
(* by any number of threads statement by statement; and last of the        *)
(* snapshot on disk, for any number of restarts and killed processes.      *)
(* The second and the third part have their own states beside that of the  *)
(* repository, and do not speak of each other's.                           *)
(***************************************************************************)
EXTENDS VectorThreads, VectorSnapshot, FiniteSetTheorems, TLAPS

ServerNext == CoreNext \/ AdminReset

\* A function on 1..n is a sequence of length n.
LEMMA SeqOfFunction ==
  ASSUME NEW S, NEW n \in Nat, NEW f \in [1..n -> S]
  PROVE  f \in Seq(S) /\ Len(f) = n
OBVIOUS

\* Every step of the repository keeps the five structures well typed.
LEMMA TypeStep ==
  ASSUME TypeOK, [ServerNext]_vars
  PROVE  TypeOK'
<1> USE VectorConstants DEF TypeOK, Results, Expiries
<1>1. ASSUME NEW i \in Ids, NEW t \in TextsOf[i], NEW e \in Expiries,
             SaveObject(i, t, e)
      PROVE  TypeOK'
  <2>0. t \in Texts
    BY <1>1
  <2>1. CASE RefuseSave
    BY <2>1 DEF RefuseSave, repo
  <2>2. CASE RefreshDuplicate(t, e)
    <3>1. sigIndex[t] \in Ids
      BY <2>0, <2>2 DEF RefreshDuplicate
    <3>2. CASE sigIndex[t] \in Stored
      <4>1. [text |-> store[sigIndex[t]].text, exp |-> e] \in Objects
        BY <3>1, <3>2 DEF Stored, Objects
      <4> QED BY <2>2, <3>1, <3>2, <4>1 DEF RefreshDuplicate
    <3>3. CASE sigIndex[t] \notin Stored
      BY <2>2, <3>3 DEF RefreshDuplicate
    <3> QED BY <3>2, <3>3
  <2>3. CASE AddNote(i, t, e)
    <3>1. [text |-> t, exp |-> e] \in Objects
      BY <2>0 DEF Objects
    <3> QED BY <2>0, <2>3, <3>1 DEF AddNote
  <2> QED BY <1>1, <2>1, <2>2, <2>3 DEF SaveObject
<1>2. ASSUME NEW now \in Times, GcExpired(now)
      PROVE  TypeOK'
  <2>0. PICK n \in 0..Len(ids) : \E mask \in [1..n -> 1..Len(ids)] :
          IsKeepMask(mask, n, Dead(now)) /\ Rebuild(mask, n)
    BY <1>2, Zenon DEF GcExpired
  <2>1. PICK mask \in [1..n -> 1..Len(ids)] :
          IsKeepMask(mask, n, Dead(now)) /\ Rebuild(mask, n)
    BY <2>0
  <2>2. n \in Nat
    BY <2>1
  <2>3. \A a \in 1..n : /\ ids[mask[a]] \in Ids
                        /\ store[ids[mask[a]]].text \in Texts
    BY <2>1 DEF Rebuild, Stored, Objects
  <2>4. ids' \in Seq(Ids) /\ index' \in Seq(Texts)
    <3>1. ids' \in [1..n -> Ids]
      BY <2>1, <2>3 DEF Rebuild
    <3>2. index' \in [1..n -> Texts]
      BY <2>1, <2>3 DEF Rebuild
    <3> QED BY <2>2, <3>1, <3>2, SeqOfFunction
  <2> QED BY <1>2, <2>4 DEF GcExpired
<1>3. ASSUME Clear PROVE TypeOK'
  BY <1>3 DEF Clear
<1>4. ASSUME AdminReset PROVE TypeOK'
  BY <1>4 DEF AdminReset
<1>5. ASSUME UNCHANGED vars PROVE TypeOK'
  BY <1>5 DEF vars
<1> QED BY <1>1, <1>2, <1>3, <1>4, <1>5 DEF ServerNext, CoreNext, Save

\* The five structures keep their types in a server, resets included.
THEOREM TypeCorrect == ServerSpec => []TypeOK
<1>1. Init => TypeOK
  BY VectorConstants DEF Init, TypeOK, Results
<1>2. TypeOK /\ [ServerNext]_vars => TypeOK'
  BY TypeStep
<1> QED BY <1>1, <1>2, PTL DEF ServerSpec, ServerNext

-------------------------------------------------------------------------------
(* Every row has its object.                                               *)

\* What a collection leaves in ids and index, position by position.
LEMMA Rebuilt ==
  ASSUME TypeOK, NEW now \in Times, GcExpired(now)
  PROVE  \E n \in Nat :
         \E mask \in [1..n -> 1..Len(ids)] :
           /\ IsKeepMask(mask, n, Dead(now))
           /\ Rebuild(mask, n)
           /\ Len(ids') = n
           /\ Len(index') = n
<1>0. PICK n \in 0..Len(ids) : \E mask \in [1..n -> 1..Len(ids)] :
        IsKeepMask(mask, n, Dead(now)) /\ Rebuild(mask, n)
  BY Zenon DEF GcExpired
<1>1. PICK mask \in [1..n -> 1..Len(ids)] :
        IsKeepMask(mask, n, Dead(now)) /\ Rebuild(mask, n)
  BY <1>0
<1>2. Len(ids) \in Nat
  BY DEF TypeOK
<1>3. n \in Nat
  BY <1>2
<1>4. ids' \in [1..n -> Ids]
  BY <1>1 DEF Rebuild, Stored
<1>5. index' \in [1..n -> Texts]
  BY <1>1 DEF Rebuild, Stored, TypeOK, Objects
<1>6. Len(ids') = n /\ Len(index') = n
  BY <1>3, <1>4, <1>5, SeqOfFunction
<1> QED BY <1>1, <1>3, <1>6

LEMMA RowsBackedStep ==
  ASSUME TypeOK, TypeOK', RowsBacked, [ServerNext]_vars
  PROVE  RowsBacked'
<1> USE VectorConstants DEF TypeOK
<1>1. ASSUME NEW i \in Ids, NEW t \in TextsOf[i], NEW e \in Expiries,
             SaveObject(i, t, e)
      PROVE  RowsBacked'
  <2>0. t \in Texts
    BY <1>1
  <2>1. CASE RefuseSave
    BY <2>1 DEF RefuseSave, repo, RowsBacked, Stored
  <2>2. CASE RefreshDuplicate(t, e)
    <3>1. Stored' = Stored
      <4>1. CASE sigIndex[t] \in Stored
        <5>1. [text |-> store[sigIndex[t]].text, exp |-> e] \in Objects
          BY <4>1 DEF Objects, Stored
        <5> QED BY <2>2, <4>1, <5>1 DEF RefreshDuplicate, Stored
      <4>2. CASE sigIndex[t] \notin Stored
        BY <2>2, <4>2 DEF RefreshDuplicate, Stored
      <4> QED BY <4>1, <4>2
    <3> QED BY <2>2, <3>1 DEF RefreshDuplicate, RowsBacked
  <2>3. CASE AddNote(i, t, e)
    <3>1. [text |-> t, exp |-> e] # None
      BY <2>0 DEF Objects
    <3>2. Stored' = Stored \cup {i}
      BY <2>3, <3>1 DEF AddNote, Stored
    <3>3. /\ ids' = Append(ids, i)
          /\ Len(ids') = Len(ids) + 1
          /\ Len(index') = Len(index) + 1
      BY <2>3 DEF AddNote
    <3>4. /\ \A k \in 1..Len(ids) : ids'[k] = ids[k]
          /\ ids'[Len(ids) + 1] = i
      BY <3>3
    <3> QED BY <3>2, <3>3, <3>4 DEF RowsBacked
  <2> QED BY <1>1, <2>1, <2>2, <2>3 DEF SaveObject
<1>2. ASSUME NEW now \in Times, GcExpired(now)
      PROVE  RowsBacked'
  <2>1. PICK n \in Nat : \E mask \in [1..n -> 1..Len(ids)] :
          /\ IsKeepMask(mask, n, Dead(now)) /\ Rebuild(mask, n)
          /\ Len(ids') = n /\ Len(index') = n
    BY <1>2, Rebuilt
  <2>2. PICK mask \in [1..n -> 1..Len(ids)] :
          /\ IsKeepMask(mask, n, Dead(now)) /\ Rebuild(mask, n)
          /\ Len(ids') = n /\ Len(index') = n
    BY <2>1
  <2>3. Stored' = Stored \ Dead(now)
    BY <1>2 DEF GcExpired, Stored
  <2>4. \A a \in 1..n : ids'[a] = ids[mask[a]] /\ ids'[a] \in Stored'
    BY <2>2, <2>3 DEF Rebuild, IsKeepMask
  <2>5. ASSUME NEW i \in Stored'
        PROVE  \E a \in 1..n : ids'[a] = i
    <3>1. PICK k \in 1..Len(ids) : ids[k] = i
      BY <2>3, <2>5 DEF RowsBacked
    <3>2. PICK a \in 1..n : mask[a] = k
      BY <2>2, <2>3, <2>5, <3>1 DEF IsKeepMask
    <3> QED BY <2>4, <3>1, <3>2
  <2> QED BY <2>2, <2>4, <2>5 DEF RowsBacked
<1>3. ASSUME Clear PROVE RowsBacked'
  BY <1>3 DEF Clear, RowsBacked, Stored
<1>4. ASSUME AdminReset PROVE RowsBacked'
  BY <1>4 DEF AdminReset, RowsBacked, Stored
<1>5. ASSUME UNCHANGED vars PROVE RowsBacked'
  BY <1>5 DEF vars, RowsBacked, Stored
<1> QED BY <1>1, <1>2, <1>3, <1>4, <1>5 DEF ServerNext, CoreNext, Save

\* Whatever identifiers callers use and however often an administrator
\* resets the server, every row has its object and every object a row, so the
\* lookups of semantic_search and gc_expired cannot fail.
THEOREM RowsAlwaysBacked == ServerSpec => []RowsBacked
<1>1. Init => TypeOK /\ RowsBacked
  BY VectorConstants DEF Init, TypeOK, Results, RowsBacked, Stored
<1>2. TypeOK /\ RowsBacked /\ [ServerNext]_vars => (TypeOK /\ RowsBacked)'
  BY TypeStep, RowsBackedStep
<1> QED BY <1>1, <1>2, PTL DEF ServerSpec, ServerNext

-------------------------------------------------------------------------------
(* With one text per identifier the signature tables agree with the store. *)

\* An object carries a text its identifier stands for.  With one text per
\* identifier this is what makes an identifier that is saved with an unknown
\* text a new one.
TextsAllowed == \A i \in Stored : store[i].text \in TextsOf[i]

Coherent ==
  /\ TypeOK
  /\ TextsAllowed
  /\ SignaturesCoherent
  /\ RowsAligned

\* Saving keeps the tables, the rows and the objects in step.
LEMMA SaveCoherent ==
  ASSUME OneTextPerId, Coherent, TypeOK',
         NEW i \in Ids, NEW t \in TextsOf[i], NEW e \in Expiries,
         SaveObject(i, t, e)
  PROVE  Coherent'
<1> USE VectorConstants DEF TypeOK, Coherent
<1>0. t \in Texts
  OBVIOUS
<1>1. CASE RefuseSave
  BY <1>1 DEF RefuseSave, repo, TextsAllowed, SignaturesCoherent, RowsAligned,
              Stored
<1>2. CASE RefreshDuplicate(t, e)
  <2> DEFINE d == sigIndex[t]
             o == [text |-> store[d].text, exp |-> e]
  <2>1. d \in Stored /\ store[d].text = t
    BY <1>0, <1>2 DEF RefreshDuplicate, SignaturesCoherent
  <2>2. o \in Objects /\ o.text = t /\ o # None
    BY <1>0, <2>1 DEF Objects
  <2>3. /\ store' = [store EXCEPT ![d] = o]
        /\ UNCHANGED <<index, ids, sigs, sigIndex>>
    BY <1>2, <2>1 DEF RefreshDuplicate
  <2> HIDE DEF d, o
  <2>4. Stored' = Stored
    BY <2>1, <2>2, <2>3 DEF Stored
  <2>5. \A j \in Stored : store'[j].text = store[j].text
    BY <2>1, <2>2, <2>3 DEF Stored
  <2> QED BY <2>3, <2>4, <2>5 DEF TextsAllowed, SignaturesCoherent, RowsAligned
<1>3. CASE AddNote(i, t, e)
  <2> DEFINE o == [text |-> t, exp |-> e]
  <2>1. o \in Objects /\ o.text = t /\ o # None
    BY <1>0 DEF Objects
  <2>2. i \notin Stored
    <3>1. SUFFICES ASSUME i \in Stored PROVE FALSE
      OBVIOUS
    <3>2. store[i].text = t
      BY <3>1 DEF TextsAllowed, OneTextPerId
    <3>3. sigIndex[t] = i
      BY <3>1, <3>2 DEF SignaturesCoherent
    <3>4. sigIndex[t] = None
      BY <1>3 DEF AddNote
    <3> QED BY <3>3, <3>4
  <2>3. /\ store' = [store EXCEPT ![i] = o]
        /\ sigs' = [sigs EXCEPT ![i] = t]
        /\ sigIndex' = [sigIndex EXCEPT ![t] = i]
        /\ ids' = Append(ids, i)
        /\ index' = Append(index, t)
        /\ sigIndex[t] = None
    BY <1>3 DEF AddNote
  <2> HIDE DEF o
  <2>4. /\ Stored' = Stored \cup {i}
        /\ store'[i].text = t
        /\ \A j \in Stored : store'[j] = store[j] /\ sigs'[j] = sigs[j]
    BY <2>1, <2>2, <2>3 DEF Stored
  <2>5. TextsAllowed'
    BY <2>4 DEF TextsAllowed
  <2>6. SignaturesCoherent'
    <3>1. ASSUME NEW u \in Texts, sigIndex'[u] # None
          PROVE  sigIndex'[u] \in Stored' /\ store'[sigIndex'[u]].text = u
      <4>1. CASE u = t
        BY <1>0, <2>3, <2>4, <4>1
      <4>2. CASE u # t
        BY <1>0, <2>3, <2>4, <3>1, <4>2 DEF SignaturesCoherent
      <4> QED BY <4>1, <4>2
    <3>2. ASSUME NEW j \in Stored'
          PROVE  sigIndex'[store'[j].text] = j /\ sigs'[j] = store'[j].text
      <4>1. CASE j = i
        BY <1>0, <2>3, <2>4, <4>1
      <4>2. CASE j # i
        <5>1. j \in Stored /\ store[j].text \in Texts /\ store[j].text # t
          <6>1. j \in Stored
            BY <2>4, <4>2, <3>2
          <6> QED BY <6>1, <2>3 DEF SignaturesCoherent, Stored, Objects
        <5> QED BY <1>0, <2>3, <2>4, <5>1 DEF SignaturesCoherent
      <4> QED BY <4>1, <4>2
    <3> QED BY <3>1, <3>2 DEF SignaturesCoherent
  <2>7. RowsAligned'
    <3>1. /\ Len(ids') = Len(ids) + 1
          /\ Len(index') = Len(index) + 1
          /\ \A k \in 1..Len(ids) : ids'[k] = ids[k]
          /\ \A k \in 1..Len(index) : index'[k] = index[k]
          /\ ids'[Len(ids) + 1] = i
          /\ index'[Len(index) + 1] = t
      BY <1>0, <2>3
    <3>2. \A k \in 1..Len(ids) : ids[k] \in Stored /\ ids[k] # i
      BY <2>2 DEF RowsAligned
    <3>3. Len(index) = Len(ids) /\ Len(ids) \in Nat
      BY DEF RowsAligned
    <3>4. ASSUME NEW k \in 1..Len(ids')
          PROVE  ids'[k] \in Stored' /\ index'[k] = store'[ids'[k]].text
      <4>1. CASE k = Len(ids) + 1
        BY <2>4, <3>1, <3>3, <4>1
      <4>2. CASE k \in 1..Len(ids)
        BY <2>4, <3>1, <3>3, <4>2 DEF RowsAligned
      <4> QED BY <3>1, <3>3, <4>1, <4>2
    <3>5. ASSUME NEW k \in 1..Len(ids'), NEW l \in 1..Len(ids'), ids'[k] = ids'[l]
          PROVE  k = l
      <4>1. CASE k \in 1..Len(ids) /\ l \in 1..Len(ids)
        BY <3>1, <3>5, <4>1 DEF RowsAligned
      <4>2. CASE k = Len(ids) + 1
        <5>1. ids'[l] = i
          BY <3>1, <3>5, <4>2
        <5>2. l \notin 1..Len(ids)
          BY <3>1, <3>2, <5>1
        <5> QED BY <3>1, <3>3, <4>2, <5>2
      <4>3. CASE l = Len(ids) + 1
        <5>1. ids'[k] = i
          BY <3>1, <3>5, <4>3
        <5>2. k \notin 1..Len(ids)
          BY <3>1, <3>2, <5>1
        <5> QED BY <3>1, <3>3, <4>3, <5>2
      <4> QED BY <3>1, <3>3, <4>1, <4>2, <4>3
    <3> QED BY <3>1, <3>3, <3>4, <3>5 DEF RowsAligned
  <2> QED BY <2>5, <2>6, <2>7
<1> QED BY <1>1, <1>2, <1>3 DEF SaveObject

\* So does a collection.
LEMMA GcCoherent ==
  ASSUME Coherent, TypeOK', NEW now \in Times, GcExpired(now)
  PROVE  Coherent'
<1> USE VectorConstants DEF TypeOK, Coherent
<1>1. PICK n \in Nat : \E mask \in [1..n -> 1..Len(ids)] :
        /\ IsKeepMask(mask, n, Dead(now)) /\ Rebuild(mask, n)
        /\ Len(ids') = n /\ Len(index') = n
  BY Rebuilt
<1>2. PICK mask \in [1..n -> 1..Len(ids)] :
        /\ IsKeepMask(mask, n, Dead(now)) /\ Rebuild(mask, n)
        /\ Len(ids') = n /\ Len(index') = n
  BY <1>1
<1>3. /\ Stored' = Stored \ Dead(now)
      /\ Dead(now) \subseteq Stored
      /\ \A j \in Stored' : store'[j] = store[j] /\ sigs'[j] = sigs[j]
  BY DEF GcExpired, Stored, Dead
<1>4. \A u \in Texts : sigIndex'[u] =
        IF sigIndex[u] \in Dead(now) /\ sigs[sigIndex[u]] = u
        THEN None ELSE sigIndex[u]
  BY DEF GcExpired
<1>5. TextsAllowed'
  BY <1>3 DEF TextsAllowed
<1>6. SignaturesCoherent'
  <2>1. ASSUME NEW u \in Texts, sigIndex'[u] # None
        PROVE  sigIndex'[u] \in Stored' /\ store'[sigIndex'[u]].text = u
    <3>1. /\ sigIndex'[u] = sigIndex[u]
          /\ sigIndex[u] \in Stored
          /\ store[sigIndex[u]].text = u
          /\ sigs[sigIndex[u]] = u
      BY <1>4, <2>1 DEF SignaturesCoherent
    <3>2. sigIndex[u] \notin Dead(now)
      BY <1>4, <2>1, <3>1
    <3> QED BY <1>3, <3>1, <3>2
  <2>2. ASSUME NEW j \in Stored'
        PROVE  sigIndex'[store'[j].text] = j /\ sigs'[j] = store'[j].text
    <3>1. /\ j \in Stored /\ j \notin Dead(now)
          /\ store[j].text \in Texts
      BY <1>3, <2>2 DEF Stored, Objects
    <3> QED BY <1>3, <1>4, <2>2, <3>1 DEF SignaturesCoherent
  <2> QED BY <2>1, <2>2 DEF SignaturesCoherent
<1>7. RowsAligned'
  <2>1. ASSUME NEW k \in 1..n
        PROVE  /\ ids'[k] \in Stored' /\ ids'[k] = ids[mask[k]]
               /\ index'[k] = store'[ids'[k]].text
    BY <1>2, <1>3 DEF Rebuild, IsKeepMask
  <2>2. ASSUME NEW k \in 1..n, NEW l \in 1..n, ids'[k] = ids'[l]
        PROVE  k = l
    <3>1. mask[k] = mask[l]
      BY <1>2, <2>1, <2>2 DEF RowsAligned
    <3> QED BY <1>2, <3>1 DEF IsKeepMask
  <2> QED BY <1>2, <2>1, <2>2 DEF RowsAligned
<1> QED BY <1>5, <1>6, <1>7

LEMMA CoherentStep ==
  ASSUME OneTextPerId, Coherent, [CoreNext]_vars
  PROVE  Coherent'
<1>0. TypeOK'
  BY TypeStep DEF Coherent, ServerNext
<1>1. ASSUME Clear PROVE Coherent'
  BY <1>0, <1>1, VectorConstants
  DEF Clear, Coherent, TextsAllowed, SignaturesCoherent, RowsAligned, Stored
<1>2. ASSUME UNCHANGED vars PROVE Coherent'
  BY <1>0, <1>2
  DEF vars, Coherent, TextsAllowed, SignaturesCoherent, RowsAligned, Stored
<1> QED BY <1>0, <1>1, <1>2, SaveCoherent, GcCoherent DEF CoreNext, Save

\* A signature always leads to a stored object with its text, and the text of
\* every stored object leads back to it, when identifiers stand for one text.
THEOREM SignaturesAlwaysCoherent ==
  ASSUME OneTextPerId
  PROVE  CoreSpec => []SignaturesCoherent
<1>1. Init => Coherent
  BY VectorConstants DEF Init, Coherent, TypeOK, Results, TextsAllowed,
                         SignaturesCoherent, RowsAligned, Stored
<1>2. Coherent /\ [CoreNext]_vars => Coherent'
  BY CoherentStep
<1>3. Coherent => SignaturesCoherent
  BY DEF Coherent
<1> QED BY <1>1, <1>2, <1>3, PTL DEF CoreSpec

\* Each object then has exactly one row, the embedding of its own text.
THEOREM RowsAlwaysAligned ==
  ASSUME OneTextPerId
  PROVE  CoreSpec => []RowsAligned
<1>1. Init => Coherent
  BY VectorConstants DEF Init, Coherent, TypeOK, Results, TextsAllowed,
                         SignaturesCoherent, RowsAligned, Stored
<1>2. Coherent /\ [CoreNext]_vars => Coherent'
  BY CoherentStep
<1>3. Coherent => RowsAligned
  BY DEF Coherent
<1> QED BY <1>1, <1>2, <1>3, PTL DEF CoreSpec

-------------------------------------------------------------------------------
(* The repository implements the map it promises.                          *)

\* A signature stands for a note of the map, which is never None.
LEMMA NotesBarShape ==
  ASSUME Coherent, NEW t \in Texts
  PROVE  /\ sigIndex[t] = None => notesBar[t] = None
         /\ sigIndex[t] # None =>
              /\ notesBar[t] = [id |-> sigIndex[t], exp |-> store[sigIndex[t]].exp]
              /\ notesBar[t] # None
              /\ sigIndex[t] \in Stored
              /\ store[sigIndex[t]].text = t
<1>1. CASE sigIndex[t] = None
  BY <1>1 DEF notesBar
<1>2. CASE sigIndex[t] # None
  <2> DEFINE note == [id |-> sigIndex[t], exp |-> store[sigIndex[t]].exp]
  <2>1. sigIndex[t] \in Stored /\ store[sigIndex[t]].text = t
    BY <1>2 DEF Coherent, SignaturesCoherent
  <2>2. sigIndex[t] \in Ids /\ store[sigIndex[t]].exp \in Expiries
    BY <2>1 DEF Coherent, TypeOK, Stored, Objects
  <2>3. note \in [id : Ids, exp : Expiries]
    BY <2>2
  <2>4. notesBar[t] = note
    BY <1>2 DEF notesBar
  <2> QED BY <1>2, <2>1, <2>3, <2>4, VectorConstants
<1> QED BY <1>1, <1>2

LEMMA SaveMaps ==
  ASSUME OneTextPerId, Coherent, Coherent',
         NEW i \in Ids, NEW t \in TextsOf[i], NEW e \in Expiries,
         SaveObject(i, t, e)
  PROVE  [Promise!Next]_notesBar
<1>0. t \in Texts
  BY VectorConstants
<1>1. CASE RefuseSave
  BY <1>1 DEF RefuseSave, repo, notesBar
<1>2. CASE RefreshDuplicate(t, e)
  <2> DEFINE d == sigIndex[t]
  <2>1. /\ d \in Stored /\ d \in Ids /\ store[d].text = t
        /\ notesBar[t] # None /\ notesBar[t].id = d
    <3>1. sigIndex[t] # None
      BY <1>2 DEF RefreshDuplicate
    <3>2. /\ notesBar[t] = [id |-> d, exp |-> store[d].exp]
          /\ notesBar[t] # None
          /\ d \in Stored
          /\ store[d].text = t
      BY <1>0, <3>1, NotesBarShape
    <3> QED BY <3>2 DEF Stored
  <2>2. /\ store' = [store EXCEPT ![d] = [text |-> store[d].text, exp |-> e]]
        /\ sigIndex' = sigIndex
    BY <1>2, <2>1 DEF RefreshDuplicate
  <2>3. store'[d].exp = e /\ \A j \in Ids \ {d} : store'[j] = store[j]
    BY <2>1, <2>2 DEF Coherent, TypeOK
  <2>4. \A u \in Texts \ {t} : sigIndex[u] # None =>
           sigIndex[u] \in Ids \ {d}
    BY <2>1, NotesBarShape DEF Stored
  <2>5. notesBar' = [notesBar EXCEPT ![t] = [id |-> notesBar[t].id, exp |-> e]]
    <3>1. \A u \in Texts \ {t} : notesBar'[u] = notesBar[u]
      BY <2>2, <2>3, <2>4 DEF notesBar
    <3>2. notesBar'[t] = [id |-> d, exp |-> e]
      BY <1>0, <1>2, <2>2, <2>3 DEF notesBar, RefreshDuplicate
    <3>3. /\ notesBar' = [u \in Texts |-> notesBar'[u]]
          /\ notesBar = [u \in Texts |-> notesBar[u]]
      BY DEF notesBar
    <3>4. notesBar[t].id = d
      BY <2>1
    <3> HIDE DEF d
    <3>5. [id |-> notesBar[t].id, exp |-> e] = [id |-> d, exp |-> e]
      BY <3>4
    <3> QED BY <1>0, <3>1, <3>2, <3>3, <3>5
  <2>6. Promise!Refresh(t, e)
    BY <1>0, <2>1, <2>5 DEF Promise!Refresh, Promise!Held
  <2> QED BY <1>0, <2>6 DEF Promise!Next, Expiries
<1>3. CASE AddNote(i, t, e)
  <2>1. /\ sigIndex[t] = None
        /\ sigIndex' = [sigIndex EXCEPT ![t] = i]
        /\ store' = [store EXCEPT ![i] = [text |-> t, exp |-> e]]
    BY <1>3 DEF AddNote
  <2>2. ASSUME NEW u \in Texts, sigIndex[u] # None PROVE sigIndex[u] # i
    <3>1. SUFFICES ASSUME sigIndex[u] = i PROVE FALSE
      OBVIOUS
    <3>2. store[i].text = u /\ i \in Stored
      BY <2>2, <3>1, NotesBarShape
    <3>3. u = t
      BY <3>2 DEF Coherent, TextsAllowed, OneTextPerId
    <3> QED BY <2>1, <2>2, <3>3
  <2>3. notesBar' = [notesBar EXCEPT ![t] = [id |-> i, exp |-> e]]
    <3>1. ASSUME NEW u \in Texts, u # t PROVE notesBar'[u] = notesBar[u]
      <4>1. sigIndex'[u] = sigIndex[u]
        BY <2>1, <3>1 DEF Coherent, TypeOK
      <4>2. sigIndex[u] # None =>
               store'[sigIndex[u]] = store[sigIndex[u]]
        BY <2>1, <2>2 DEF Coherent, TypeOK
      <4> QED BY <4>1, <4>2 DEF notesBar
    <3>2. notesBar'[t] = [id |-> i, exp |-> e]
      <4>1. sigIndex'[t] = i /\ i # None /\ store'[i].exp = e
        BY <1>0, <2>1, VectorConstants DEF Coherent, TypeOK
      <4> QED BY <1>0, <4>1 DEF notesBar
    <3> QED BY <1>0, <3>1, <3>2 DEF notesBar
  <2>4. Promise!Add(i, t, e)
    <3>1. t \notin Promise!Held
      BY <1>0, <2>1, NotesBarShape DEF Promise!Held
    <3>2. \A u \in Promise!Held : notesBar[u].id # i
      <4>1. TAKE u \in Promise!Held
      <4>2. u \in Texts /\ notesBar[u] # None
        BY DEF Promise!Held
      <4>3. sigIndex[u] # None
        BY <4>2, NotesBarShape
      <4>4. notesBar[u] = [id |-> sigIndex[u], exp |-> store[sigIndex[u]].exp]
        BY <4>2, <4>3, NotesBarShape
      <4> QED BY <2>2, <4>2, <4>3, <4>4
    <3> QED BY <2>3, <3>1, <3>2 DEF Promise!Add
  <2> QED BY <1>0, <2>4 DEF Promise!Next, Expiries
<1> QED BY <1>1, <1>2, <1>3 DEF SaveObject

LEMMA GcMaps ==
  ASSUME Coherent, Coherent', NEW now \in Times, GcExpired(now)
  PROVE  Promise!Forget(now)
<1>1. \A u \in Texts : sigIndex'[u] =
        IF sigIndex[u] \in Dead(now) /\ sigs[sigIndex[u]] = u
        THEN None ELSE sigIndex[u]
  BY DEF GcExpired
<1>2. \A j \in Ids : store'[j] = IF j \in Dead(now) THEN None ELSE store[j]
  BY DEF GcExpired
<1>3. ASSUME NEW u \in Texts
      PROVE  notesBar'[u] = IF /\ notesBar[u] # None
                               /\ notesBar[u].exp # None
                               /\ notesBar[u].exp < now
                            THEN None ELSE notesBar[u]
  <2>1. CASE sigIndex[u] = None
    BY <1>1, <2>1, NotesBarShape DEF notesBar
  <2>2. CASE sigIndex[u] # None
    <3> DEFINE d == sigIndex[u]
    <3>1. /\ d \in Stored /\ sigs[d] = u
          /\ notesBar[u] # None
          /\ notesBar[u] = [id |-> d, exp |-> store[d].exp]
      BY <2>2, NotesBarShape DEF Coherent, SignaturesCoherent
    <3>2. CASE d \in Dead(now)
      BY <1>1, <3>1, <3>2 DEF Dead, Expired, notesBar
    <3>3. CASE d \notin Dead(now)
      <4>1. sigIndex'[u] = d /\ store'[d] = store[d]
        BY <1>1, <1>2, <3>1, <3>3 DEF Stored
      <4>2. notesBar'[u] = notesBar[u]
        BY <4>1, <3>1, <2>2 DEF notesBar
      <4>3. ~(notesBar[u].exp # None /\ notesBar[u].exp < now)
        BY <3>1, <3>3 DEF Dead, Expired
      <4> QED BY <4>2, <4>3
    <3> QED BY <3>2, <3>3
  <2> QED BY <2>1, <2>2
<1>4. notesBar' = [u \in Texts |-> notesBar'[u]]
  BY DEF notesBar
<1> QED BY <1>3, <1>4 DEF Promise!Forget

\* With one text per identifier the vector repository, for every capacity and
\* every mix of saves, duplicates, collections and clears, behaves as a map
\* from texts to notes.
THEOREM RepositoryImplementsMap ==
  ASSUME OneTextPerId
  PROVE  CoreSpec => ImplementsNoteMap
<1>1. Init => Coherent /\ Promise!Init
  <2>1. Init => Coherent
    BY VectorConstants DEF Init, Coherent, TypeOK, Results, TextsAllowed,
                           SignaturesCoherent, RowsAligned, Stored
  <2>2. Init => Promise!Init
    BY DEF Init, Promise!Init, notesBar
  <2> QED BY <2>1, <2>2
<1>2. Coherent /\ [CoreNext]_vars => Coherent'
  BY CoherentStep
<1>3. Coherent /\ Coherent' /\ [CoreNext]_vars => [Promise!Next]_notesBar
  <2>1. ASSUME UNCHANGED vars PROVE notesBar' = notesBar
    BY <2>1 DEF vars, notesBar
  <2>2. ASSUME Clear PROVE Promise!Clear
    BY <2>2 DEF Clear, Promise!Clear, notesBar
  <2> QED BY <2>1, <2>2, SaveMaps, GcMaps DEF CoreNext, Save, Promise!Next
<1> QED BY <1>1, <1>2, <1>3, PTL DEF CoreSpec, ImplementsNoteMap, Promise!Spec

-------------------------------------------------------------------------------
(* Threads.                                                                *)

LEMMA JobTyped ==
  ASSUME NEW j \in Jobs
  PROVE  /\ j.id \in Ids /\ j.text \in TextsOf[j.id] /\ j.text \in Texts /\ j.exp \in Expiries
         /\ [text |-> j.text, exp |-> j.exp] \in Objects
<1>1. PICK i \in Ids : j \in [id : {i}, text : TextsOf[i], exp : Expiries]
  BY DEF Jobs
<1> QED BY <1>1, VectorConstants DEF Objects

\* A thread at work has an object to save.
ThreadsTyped ==
  /\ ThreadsTypeOK
  /\ \A p \in Threads : pc[p] # "idle" => job[p] \in Jobs

LEMMA StepTyped ==
  ASSUME ThreadsTyped, NEW p \in Threads, Step(p)
  PROVE  ThreadsTyped'
<1> USE DEF ThreadsTyped, ThreadsTypeOK, TypeOK, Labels, Results, Goto, Return
<1>0. pc[p] # "idle" => /\ job[p] \in Jobs /\ job[p].id \in Ids /\ job[p].text \in Texts
                        /\ job[p].exp \in Expiries
                        /\ [text |-> job[p].text, exp |-> job[p].exp] \in Objects
  BY JobTyped
<1>1. ASSUME NEW j \in Jobs, Enter(p, j) PROVE ThreadsTyped'
  BY <1>1 DEF Enter
<1>2. CASE EnterFull(p)
  BY <1>2 DEF EnterFull, repo
<1>3. CASE LookUp(p)
  BY <1>3 DEF LookUp
<1>4. CASE Refresh(p)
  <2>1. CASE sigIndex[job[p].text] \in Stored
    <3>1. sigIndex[job[p].text] \in Ids /\ store[sigIndex[job[p].text]] \in Objects
      BY <2>1 DEF Stored
    <3>2. [text |-> store[sigIndex[job[p].text]].text, exp |-> job[p].exp] \in Objects
      BY <1>0, <1>4, <3>1 DEF Refresh, Objects
    <3> QED BY <1>4, <2>1, <3>1, <3>2 DEF Refresh
  <2>2. CASE sigIndex[job[p].text] \notin Stored
    BY <1>4, <2>2 DEF Refresh
  <2> QED BY <2>1, <2>2
<1>5. CASE Claim(p)
  BY <1>0, <1>5 DEF Claim
<1>6. CASE Sign(p)
  BY <1>0, <1>6 DEF Sign
<1>7. CASE AddRow(p)
  BY <1>0, <1>7 DEF AddRow
<1>8. CASE AddId(p)
  BY <1>0, <1>8 DEF AddId
<1>9. CASE Put(p)
  BY <1>0, <1>9 DEF Put
<1> QED BY <1>1, <1>2, <1>3, <1>4, <1>5, <1>6, <1>7, <1>8, <1>9 DEF Step

LEMMA InitTyped == ThreadsInit => ThreadsTyped
BY DEF ThreadsInit, Init, ThreadsTyped, ThreadsTypeOK, TypeOK, Labels, Results

LEMMA NextTyped == ThreadsTyped /\ [ThreadsNext]_threadVars => ThreadsTyped'
<1> SUFFICES ASSUME ThreadsTyped, [ThreadsNext]_threadVars PROVE ThreadsTyped'
  OBVIOUS
<1>1. CASE ThreadsNext
  BY <1>1, StepTyped DEF ThreadsNext
<1>2. CASE UNCHANGED threadVars
  BY <1>2 DEF threadVars, ThreadsTyped, ThreadsTypeOK, TypeOK
<1> QED BY <1>1, <1>2

\* Tables, rows, threads and jobs keep their types.
THEOREM ThreadsTypeCorrect == ThreadsSpec => []ThreadsTypeOK
<1>1. ThreadsTyped => ThreadsTypeOK
  BY DEF ThreadsTyped
<1> QED BY <1>1, InitTyped, NextTyped, PTL DEF ThreadsSpec

-------------------------------------------------------------------------------
(* A set of threads that one thread joins or leaves.                       *)

LEMMA JoinOrLeave ==
  ASSUME NEW S \in SUBSET Threads, NEW T, NEW p \in Threads
  PROVE  /\ IsFiniteSet(S) /\ Cardinality(S) \in Nat /\ Cardinality(S) <= Cardinality(Threads)
         /\ Cardinality(Threads) \in Nat /\ Cardinality(Threads) > 0
         /\ p \in S /\ T = S \ {p} => Cardinality(T) = Cardinality(S) - 1
         /\ p \notin S /\ T = S \cup {p} => Cardinality(T) = Cardinality(S) + 1
<1>1. IsFiniteSet(Threads) /\ Threads # {}
  BY ThreadsConstants
<1>2. Cardinality(Threads) \in Nat /\ Cardinality(Threads) # 0
  BY <1>1, FS_CardinalityType, FS_EmptySet
<1>3. IsFiniteSet(S) /\ Cardinality(S) <= Cardinality(Threads)
  BY <1>1, FS_Subset
<1>4. Cardinality(S) \in Nat
  BY <1>3, FS_CardinalityType
<1>5. Cardinality(S \ {p}) = IF p \in S THEN Cardinality(S) - 1 ELSE Cardinality(S)
  BY <1>3, FS_RemoveElement
<1>6. Cardinality(S \cup {p}) = IF p \in S THEN Cardinality(S) ELSE Cardinality(S) + 1
  BY <1>3, FS_AddElement
<1> QED BY <1>2, <1>3, <1>4, <1>5, <1>6

-------------------------------------------------------------------------------
(* The capacity: a thread that passed the test and has not appended its    *)
(* identifier counts as a row.                                             *)

Entered == {"lookup", "refresh", "claim", "sign", "row", "id"}
Inside == {p \in Threads : pc[p] \in Entered}

RoomLeft == Len(ids) + Cardinality(Inside) < MaxElements + Cardinality(Threads)

LEMMA StepLeavesRoom ==
  ASSUME ThreadsTyped, RoomLeft, NEW p \in Threads, Step(p)
  PROVE  RoomLeft'
<1> USE DEF Goto, Return
<1>0. Inside \in SUBSET Threads /\ Inside' \in SUBSET Threads
  BY DEF Inside
<1>1. /\ Cardinality(Inside) \in Nat /\ Cardinality(Inside') \in Nat
      /\ Cardinality(Inside') <= Cardinality(Threads)
      /\ Cardinality(Threads) \in Nat /\ MaxElements \in Nat /\ Len(ids) \in Nat
      /\ p \in Inside /\ Inside' = Inside \ {p} => Cardinality(Inside') = Cardinality(Inside) - 1
  BY <1>0, JoinOrLeave, VectorConstants DEF ThreadsTyped, ThreadsTypeOK, TypeOK
<1>2. ASSUME NEW j \in Jobs, Enter(p, j) PROVE RoomLeft'
  <2>1. Len(ids) < MaxElements /\ ids' = ids
    BY <1>2, <1>1 DEF Enter, Full
  <2> QED BY <1>1, <2>1 DEF RoomLeft
<1>3. CASE ids' = ids /\ Inside' = Inside
  BY <1>3 DEF RoomLeft
<1>4. CASE ids' = ids /\ p \in Inside /\ Inside' = Inside \ {p}
  BY <1>1, <1>4 DEF RoomLeft
<1>5. CASE Len(ids') = Len(ids) + 1 /\ p \in Inside /\ Inside' = Inside \ {p}
  BY <1>1, <1>5 DEF RoomLeft
<1> USE DEF ThreadsTyped, ThreadsTypeOK, TypeOK, Labels, Inside, Entered
<1>6. CASE EnterFull(p)
  BY <1>3, <1>6 DEF EnterFull, repo
<1>7. CASE LookUp(p)
  BY <1>3, <1>7 DEF LookUp
<1>8. CASE Refresh(p)
  BY <1>4, <1>8 DEF Refresh
<1>9. CASE Claim(p)
  BY <1>3, <1>9 DEF Claim
<1>10. CASE Sign(p)
  BY <1>3, <1>10 DEF Sign
<1>11. CASE AddRow(p)
  BY <1>3, <1>11 DEF AddRow
<1>12. CASE AddId(p)
  <2>1. Len(ids') = Len(ids) + 1
    BY <1>12 DEF AddId
  <2>2. p \in Inside /\ Inside' = Inside \ {p}
    BY <1>12 DEF AddId
  <2> QED BY <1>5, <2>1, <2>2
<1>13. CASE Put(p)
  BY <1>3, <1>13 DEF Put
<1> QED BY <1>2, <1>6, <1>7, <1>8, <1>9, <1>10, <1>11, <1>12, <1>13 DEF Step

\* However many threads pass the test of vector_repo.py:109 together, the
\* capacity is exceeded by fewer rows than there are threads.
THEOREM OvershootBounded == ThreadsSpec => []CapacityOvershoot
<1>1. ThreadsInit => RoomLeft
  <2> SUFFICES ASSUME ThreadsInit PROVE RoomLeft
    OBVIOUS
  <2>1. Inside = {} /\ Len(ids) = 0
    BY DEF ThreadsInit, Init, Inside, Entered
  <2>2. Cardinality(Inside) = 0
    BY <2>1, FS_EmptySet
  <2>3. PICK p : p \in Threads
    BY ThreadsConstants
  <2>4. Cardinality(Threads) \in Nat /\ Cardinality(Threads) > 0
    BY <2>3, JoinOrLeave
  <2> QED BY <2>1, <2>2, <2>4, VectorConstants DEF RoomLeft
<1>2. ThreadsTyped /\ RoomLeft /\ [ThreadsNext]_threadVars => RoomLeft'
  <2> SUFFICES ASSUME ThreadsTyped, RoomLeft, [ThreadsNext]_threadVars PROVE RoomLeft'
    OBVIOUS
  <2>1. CASE ThreadsNext
    BY <2>1, StepLeavesRoom DEF ThreadsNext
  <2>2. CASE UNCHANGED threadVars
    BY <2>2 DEF threadVars, RoomLeft, Inside
  <2> QED BY <2>1, <2>2
<1>3. ThreadsTyped /\ RoomLeft => CapacityOvershoot
  <2> SUFFICES ASSUME ThreadsTyped, RoomLeft PROVE CapacityOvershoot
    OBVIOUS
  <2>1. PICK p : p \in Threads
    BY ThreadsConstants
  <2>2. Inside \in SUBSET Threads
    BY DEF Inside
  <2>3. Cardinality(Inside) \in Nat /\ Cardinality(Threads) \in Nat
    BY <2>1, <2>2, JoinOrLeave
  <2>4. Len(ids) \in Nat /\ MaxElements \in Nat
    BY VectorConstants DEF ThreadsTyped, ThreadsTypeOK, TypeOK
  <2> QED BY <2>3, <2>4 DEF RoomLeft, CapacityOvershoot
<1> QED BY <1>1, <1>2, <1>3, InitTyped, NextTyped, PTL DEF ThreadsSpec

-------------------------------------------------------------------------------
(* A text whose signature is claimed is stored under that identifier, or   *)
(* about to be; one whose signature is not has not been saved.             *)

PastClaim == {"sign", "row", "id", "put"}
Savers(t, labels) == {p \in Threads : pc[p] \in labels /\ job[p].text = t}
Holders(t) == {i \in Stored : store[i].text = t}

Claimed ==
  \A t \in Texts : sigIndex[t] # None =>
    /\ t \in TextsOf[sigIndex[t]]
    /\ \/ sigIndex[t] \in Stored
       \/ \E q \in Savers(t, PastClaim) : job[q].id = sigIndex[t]

Unclaimed ==
  /\ \A t \in Texts : sigIndex[t] = None => Holders(t) = {} /\ Savers(t, PastClaim) = {}
  /\ \A p \in Threads : pc[p] = "refresh" => sigIndex[job[p].text] # None

TextsKept == \A i \in Stored : store[i].text \in TextsOf[i]

ClaimInv == Claimed /\ Unclaimed /\ TextsKept

\* What a step of p does to pc and job, and to the objects that are stored.
LEMMA StepShape ==
  ASSUME ThreadsTyped, NEW p \in Threads, Step(p)
  PROVE  /\ \A q \in Threads : q # p => pc'[q] = pc[q] /\ job'[q] = job[q]
         /\ pc'[p] # "idle" /\ pc[p] # "idle" => job'[p] = job[p]
         /\ pc'[p] \in {"idle", "lookup", "refresh", "claim", "sign", "row", "id", "put"}
BY DEF Step, Enter, EnterFull, LookUp, Refresh, Claim, Sign, AddRow, AddId, Put,
       Goto, Return, ThreadsTyped, ThreadsTypeOK

LEMMA SaversStep ==
  ASSUME ThreadsTyped, NEW p \in Threads, Step(p), NEW t, NEW CONSTANT labels
  PROVE  Savers(t, labels)' = IF pc'[p] \in labels /\ job'[p].text = t
                              THEN Savers(t, labels) \cup {p} ELSE Savers(t, labels) \ {p}
BY StepShape DEF Savers

\* A save changes the text of no identifier but the one it puts.
LEMMA RefreshKeepsTexts ==
  ASSUME ThreadsTyped, NEW p \in Threads, Refresh(p)
  PROVE  /\ Stored' = Stored /\ sigIndex' = sigIndex
         /\ \A i \in Stored : store'[i].text = store[i].text
<1> USE DEF ThreadsTyped, ThreadsTypeOK, TypeOK
<1> DEFINE dup == sigIndex[job[p].text]
<1>1. CASE dup \in Stored
  <2>1. store' = [store EXCEPT ![dup] = [text |-> store[dup].text, exp |-> job[p].exp]]
    BY <1>1 DEF Refresh
  <2>2. job[p] \in Jobs /\ job[p].exp \in Expiries
    BY JobTyped DEF Refresh
  <2>3. store[dup] \in Objects
    BY <1>1 DEF Stored
  <2>4. [text |-> store[dup].text, exp |-> job[p].exp] # None
    BY <2>2, <2>3, VectorConstants DEF Objects
  <2> QED BY <1>1, <2>1, <2>4 DEF Stored, Refresh
<1>2. CASE dup \notin Stored
  BY <1>2 DEF Refresh, Stored
<1> QED BY <1>1, <1>2

LEMMA StepClaims ==
  ASSUME ThreadsTyped, ClaimInv, NEW p \in Threads, Step(p)
  PROVE  ClaimInv'
<1> DEFINE t0 == job[p].text
           i0 == job[p].id
<1> USE DEF Goto, Return
<1>0. pc[p] # "idle" => /\ i0 \in Ids /\ t0 \in Texts /\ t0 \in TextsOf[i0]
                        /\ [text |-> t0, exp |-> job[p].exp] \in Objects
  BY JobTyped DEF ThreadsTyped
<1>s. \A t \in Texts :
        Savers(t, PastClaim)' = IF pc'[p] \in PastClaim /\ job'[p].text = t
                                THEN Savers(t, PastClaim) \cup {p} ELSE Savers(t, PastClaim) \ {p}
  BY SaversStep DEF PastClaim
<1>j. \A q \in Threads : q # p => pc'[q] = pc[q] /\ job'[q] = job[q]
  BY StepShape
<1>t. /\ sigIndex \in [Texts -> Ids \cup {None}] /\ pc \in [Threads -> Labels]
      /\ job \in [Threads -> Jobs \cup {None}] /\ store \in [Ids -> Objects \cup {None}]
  BY DEF ThreadsTyped, ThreadsTypeOK, TypeOK
\* A step before the claim, or one that ends without saving.
<1>1. ASSUME Stored' = Stored, \A i \in Stored : store'[i].text = store[i].text,
             sigIndex' = sigIndex, pc[p] \notin PastClaim, pc'[p] \notin PastClaim,
             pc'[p] = "refresh" => sigIndex[job'[p].text] # None
      PROVE  ClaimInv'
  <2>1. \A t \in Texts : Savers(t, PastClaim)' = Savers(t, PastClaim) /\ p \notin Savers(t, PastClaim)
    BY <1>1, <1>s DEF Savers
  <2>2. \A t \in Texts : Holders(t)' = Holders(t)
    BY <1>1 DEF Holders
  <2>3. Claimed'
    BY <1>1, <1>j, <2>1 DEF ClaimInv, Claimed, Savers
  <2>4. Unclaimed'
    BY <1>1, <1>j, <2>1, <2>2 DEF ClaimInv, Unclaimed
  <2>5. TextsKept'
    BY <1>1 DEF ClaimInv, TextsKept
  <2> QED BY <2>3, <2>4, <2>5 DEF ClaimInv
\* A step between the claim and the save.
<1>2. ASSUME store' = store, sigIndex' = sigIndex, job' = job,
             pc[p] \in PastClaim, pc'[p] \in PastClaim
      PROVE  ClaimInv'
  <2>1. \A t \in Texts : Savers(t, PastClaim)' = Savers(t, PastClaim)
    BY <1>2, <1>s DEF Savers
  <2>2. Stored' = Stored /\ \A t \in Texts : Holders(t)' = Holders(t)
    BY <1>2 DEF Holders, Stored
  <2>3. Claimed'
    BY <1>2, <2>1, <2>2 DEF ClaimInv, Claimed
  <2>4. Unclaimed'
    BY <1>2, <1>j, <2>1, <2>2 DEF ClaimInv, Unclaimed, PastClaim
  <2>5. TextsKept'
    BY <1>2, <2>2 DEF ClaimInv, TextsKept
  <2> QED BY <2>3, <2>4, <2>5 DEF ClaimInv
<1>3. ASSUME NEW j \in Jobs, Enter(p, j) PROVE ClaimInv'
  BY <1>1, <1>3, <1>t DEF Enter, Stored, PastClaim
<1>4. CASE EnterFull(p)
  BY <1>1, <1>4, <1>t DEF EnterFull, repo, Stored, PastClaim
<1>5. CASE LookUp(p)
  BY <1>1, <1>5, <1>t DEF LookUp, Stored, PastClaim
<1>6. CASE Refresh(p)
  <2>1. pc[p] = "refresh" /\ pc'[p] = "idle"
    BY <1>6, <1>t DEF Refresh
  <2> QED BY <1>1, <1>6, <2>1, RefreshKeepsTexts DEF PastClaim
<1>7. CASE Claim(p)
  <2>1. /\ store' = store /\ job' = job /\ pc[p] = "claim" /\ pc'[p] = "sign"
        /\ sigIndex' = [sigIndex EXCEPT ![t0] = i0]
    BY <1>7, <1>t DEF Claim
  <2>2. p \in Savers(t0, PastClaim)' /\ \A t \in Texts : t # t0 => Savers(t, PastClaim)' = Savers(t, PastClaim)
    BY <1>0, <1>s, <2>1 DEF PastClaim, Savers
  <2>3. Stored' = Stored /\ \A t \in Texts : Holders(t)' = Holders(t)
    BY <2>1 DEF Holders, Stored
  <2>4. sigIndex'[t0] = i0 /\ i0 # None /\ \A t \in Texts : t # t0 => sigIndex'[t] = sigIndex[t]
    BY <1>0, <1>t, <2>1, VectorConstants
  <2>5. Claimed'
    BY <1>0, <2>1, <2>2, <2>3, <2>4 DEF ClaimInv, Claimed
  <2>6. Unclaimed'
    BY <1>0, <1>j, <2>1, <2>2, <2>3, <2>4 DEF ClaimInv, Unclaimed
  <2>7. TextsKept'
    BY <2>1, <2>3 DEF ClaimInv, TextsKept
  <2> QED BY <2>5, <2>6, <2>7 DEF ClaimInv
<1>8. CASE Sign(p)
  BY <1>2, <1>8, <1>t DEF Sign, PastClaim
<1>9. CASE AddRow(p)
  BY <1>2, <1>9, <1>t DEF AddRow, PastClaim
<1>10. CASE AddId(p)
  BY <1>2, <1>10, <1>t DEF AddId, PastClaim
<1>11. CASE Put(p)
  <2>1. /\ store' = [store EXCEPT ![i0] = [text |-> t0, exp |-> job[p].exp]]
        /\ pc[p] = "put" /\ pc'[p] = "idle" /\ sigIndex' = sigIndex
    BY <1>11, <1>t DEF Put
  <2>2. [text |-> t0, exp |-> job[p].exp] # None
    BY <1>0, <2>1, VectorConstants
  <2>3. Stored' = Stored \cup {i0} /\ \A i \in Ids : i # i0 => store'[i] = store[i]
    BY <1>0, <1>t, <2>1, <2>2 DEF Stored
  <2>4. store'[i0].text = t0
    BY <1>0, <1>t, <2>1
  <2>5. \A t \in Texts : Savers(t, PastClaim)' = Savers(t, PastClaim) \ {p}
    BY <1>s, <2>1 DEF PastClaim
  <2>6. p \in Savers(t0, PastClaim)
    BY <2>1 DEF Savers, PastClaim
  <2>7. \A t \in Texts : t # t0 => Holders(t)' \subseteq Holders(t)
    BY <2>3, <2>4 DEF Holders, Stored
  <2>8. Claimed'
    <3> SUFFICES ASSUME NEW t \in Texts, sigIndex[t] # None
                 PROVE  /\ t \in TextsOf[sigIndex[t]]
                        /\ \/ sigIndex[t] \in Stored'
                           \/ \E q \in Savers(t, PastClaim)' : job'[q].id = sigIndex[t]
      BY <2>1 DEF Claimed
    <3>1. CASE sigIndex[t] \in Stored
      BY <2>3, <3>1 DEF ClaimInv, Claimed
    <3>2. ASSUME NEW q \in Savers(t, PastClaim), job[q].id = sigIndex[t]
          PROVE  \/ sigIndex[t] \in Stored'
                 \/ \E r \in Savers(t, PastClaim)' : job'[r].id = sigIndex[t]
      <4>1. CASE q = p
        BY <2>3, <3>2, <4>1
      <4>2. CASE q # p
        BY <1>j, <2>5, <3>2, <4>2 DEF Savers
      <4> QED BY <4>1, <4>2
    <3> QED BY <3>1, <3>2 DEF ClaimInv, Claimed
  <2>9. Unclaimed'
    BY <1>0, <1>j, <2>1, <2>5, <2>6, <2>7 DEF ClaimInv, Unclaimed
  <2>10. TextsKept'
    BY <1>0, <2>1, <2>3, <2>4 DEF ClaimInv, TextsKept, Stored
  <2> QED BY <2>8, <2>9, <2>10 DEF ClaimInv
<1> QED BY <1>3, <1>4, <1>5, <1>6, <1>7, <1>8, <1>9, <1>10, <1>11 DEF Step

LEMMA NextClaims == ThreadsTyped /\ ClaimInv /\ [ThreadsNext]_threadVars => ClaimInv'
<1> SUFFICES ASSUME ThreadsTyped, ClaimInv, [ThreadsNext]_threadVars PROVE ClaimInv'
  OBVIOUS
<1>1. CASE ThreadsNext
  BY <1>1, StepClaims DEF ThreadsNext
<1>2. CASE UNCHANGED threadVars
  BY <1>2 DEF threadVars, ClaimInv, Claimed, Unclaimed, TextsKept, Stored, Holders, Savers
<1> QED BY <1>1, <1>2

LEMMA InitClaims == ThreadsInit => ClaimInv
BY VectorConstants
DEF ThreadsInit, Init, ClaimInv, Claimed, Unclaimed, TextsKept, Stored, Holders, Savers, PastClaim

-------------------------------------------------------------------------------
(* Who has found a text missing, and has not saved it yet, will be one     *)
(* more holder: nobody can join once a first one has claimed it.           *)

Missing == {"claim", "sign", "row", "id", "put"}

HoldersBounded ==
  \A t \in Texts :
    /\ IsFiniteSet(Holders(t))
    /\ Cardinality(Holders(t)) + Cardinality(Savers(t, Missing)) <= Cardinality(Threads)

LEMMA StepBoundsHolders ==
  ASSUME ThreadsTyped, ClaimInv, HoldersBounded, NEW p \in Threads, Step(p)
  PROVE  HoldersBounded'
<1> DEFINE t0 == job[p].text
           i0 == job[p].id
<1> USE DEF Goto, Return
<1>0. pc[p] # "idle" => /\ i0 \in Ids /\ t0 \in Texts
                        /\ [text |-> t0, exp |-> job[p].exp] \in Objects
  BY JobTyped DEF ThreadsTyped
<1>s. \A t \in Texts :
        Savers(t, Missing)' = IF pc'[p] \in Missing /\ job'[p].text = t
                              THEN Savers(t, Missing) \cup {p} ELSE Savers(t, Missing) \ {p}
  BY SaversStep DEF Missing
<1>t. /\ pc \in [Threads -> Labels] /\ job \in [Threads -> Jobs \cup {None}]
      /\ store \in [Ids -> Objects \cup {None}]
  BY DEF ThreadsTyped, ThreadsTypeOK, TypeOK
<1>b. \A t \in Texts : Savers(t, Missing) \in SUBSET Threads /\ Savers(t, Missing)' \in SUBSET Threads
  BY DEF Savers
<1>1. ASSUME \A t \in Texts : Holders(t)' = Holders(t) /\ Savers(t, Missing)' = Savers(t, Missing)
      PROVE  HoldersBounded'
  BY <1>1 DEF HoldersBounded
<1>2. ASSUME NEW j \in Jobs, Enter(p, j) PROVE HoldersBounded'
  <2>1. pc[p] = "idle" /\ pc'[p] = "lookup" /\ store' = store
    BY <1>2, <1>t DEF Enter
  <2> QED BY <1>1, <1>s, <2>1 DEF Missing, Savers, Holders, Stored
<1>3. CASE EnterFull(p)
  <2>1. pc[p] = "idle" /\ pc'[p] = "idle" /\ store' = store
    BY <1>3, <1>t DEF EnterFull, repo
  <2> QED BY <1>1, <1>s, <2>1 DEF Missing, Savers, Holders, Stored
<1>4. CASE LookUp(p)
  <2>1. /\ pc[p] = "lookup" /\ store' = store /\ job' = job
        /\ pc'[p] = IF sigIndex[t0] # None THEN "refresh" ELSE "claim"
    BY <1>4, <1>t DEF LookUp
  <2>2. \A t \in Texts : Holders(t)' = Holders(t)
    BY <2>1 DEF Holders, Stored
  <2>3. CASE sigIndex[t0] # None
    BY <1>1, <1>s, <2>1, <2>2, <2>3 DEF Missing, Savers
  <2>4. CASE sigIndex[t0] = None
    <3>1. Holders(t0) = {}
      BY <1>0, <2>1, <2>4 DEF ClaimInv, Unclaimed
    <3>2. \A t \in Texts : t # t0 => Savers(t, Missing)' = Savers(t, Missing)
      BY <1>s, <2>1 DEF Missing, Savers
    <3> SUFFICES ASSUME NEW t \in Texts
                 PROVE  /\ IsFiniteSet(Holders(t)')
                        /\ Cardinality(Holders(t)') + Cardinality(Savers(t, Missing)')
                             <= Cardinality(Threads)
      BY DEF HoldersBounded
    <3>3. CASE t # t0
      BY <2>2, <3>2, <3>3 DEF HoldersBounded
    <3>4. CASE t = t0
      <4>1. Holders(t)' = {} /\ IsFiniteSet({}) /\ Cardinality({}) = 0
        BY <2>2, <3>1, <3>4, FS_EmptySet
      <4>2. /\ Cardinality(Savers(t, Missing)') \in Nat
            /\ Cardinality(Savers(t, Missing)') <= Cardinality(Threads)
        BY <1>b, JoinOrLeave
      <4> QED BY <4>1, <4>2
    <3> QED BY <3>3, <3>4
  <2> QED BY <2>3, <2>4
<1>5. CASE Refresh(p)
  <2>1. pc[p] = "refresh" /\ pc'[p] = "idle"
    BY <1>5, <1>t DEF Refresh
  <2>2. \A t \in Texts : Savers(t, Missing)' = Savers(t, Missing)
    BY <1>s, <2>1 DEF Missing, Savers
  <2> QED BY <1>1, <1>5, <2>2, RefreshKeepsTexts DEF Holders
<1>6. ASSUME store' = store, job' = job, pc[p] \in Missing, pc'[p] \in Missing
      PROVE  HoldersBounded'
  BY <1>1, <1>s, <1>6 DEF Savers, Holders, Stored
<1>7. CASE Claim(p)
  BY <1>6, <1>7, <1>t DEF Claim, Missing
<1>8. CASE Sign(p)
  BY <1>6, <1>8, <1>t DEF Sign, Missing
<1>9. CASE AddRow(p)
  BY <1>6, <1>9, <1>t DEF AddRow, Missing
<1>10. CASE AddId(p)
  BY <1>6, <1>10, <1>t DEF AddId, Missing
<1>11. CASE Put(p)
  <2>1. /\ store' = [store EXCEPT ![i0] = [text |-> t0, exp |-> job[p].exp]]
        /\ pc[p] = "put" /\ pc'[p] = "idle"
    BY <1>11, <1>t DEF Put
  <2>2. \A t \in Texts : Savers(t, Missing)' = Savers(t, Missing) \ {p}
    BY <1>s, <2>1 DEF Missing
  <2>3. \A i \in Ids : i # i0 => store'[i] = store[i]
    BY <1>0, <1>t, <2>1
  <2>4. store'[i0].text = t0
    BY <1>0, <1>t, <2>1
  <2> SUFFICES ASSUME NEW t \in Texts
               PROVE  /\ IsFiniteSet(Holders(t)')
                      /\ Cardinality(Holders(t)') + Cardinality(Savers(t, Missing)')
                           <= Cardinality(Threads)
    BY DEF HoldersBounded
  <2>5. /\ IsFiniteSet(Holders(t)) /\ Cardinality(Holders(t)) \in Nat
        /\ Cardinality(Holders(t)) + Cardinality(Savers(t, Missing)) <= Cardinality(Threads)
    BY FS_CardinalityType DEF HoldersBounded
  <2>6. /\ Cardinality(Savers(t, Missing)) \in Nat /\ Cardinality(Threads) \in Nat
        /\ p \in Savers(t, Missing) =>
             Cardinality(Savers(t, Missing)') = Cardinality(Savers(t, Missing)) - 1
    BY <1>b, <2>2, JoinOrLeave
  <2>7. CASE t = t0
    <3>1. Holders(t)' \in SUBSET (Holders(t) \cup {i0})
      BY <2>3 DEF Holders, Stored
    <3>2. /\ IsFiniteSet(Holders(t) \cup {i0})
          /\ Cardinality(Holders(t) \cup {i0}) \in Nat
          /\ Cardinality(Holders(t) \cup {i0}) <= Cardinality(Holders(t)) + 1
      <4>1. /\ IsFiniteSet(Holders(t) \cup {i0})
            /\ Cardinality(Holders(t) \cup {i0}) =
                 IF i0 \in Holders(t) THEN Cardinality(Holders(t)) ELSE Cardinality(Holders(t)) + 1
        BY <2>5, FS_AddElement
      <4> QED BY <2>5, <4>1
    <3>3. /\ IsFiniteSet(Holders(t)')
          /\ Cardinality(Holders(t)') <= Cardinality(Holders(t) \cup {i0})
      BY <3>1, <3>2, FS_Subset
    <3>4. Cardinality(Holders(t)') \in Nat
      BY <3>3, FS_CardinalityType
    <3>5. p \in Savers(t, Missing)
      BY <2>1, <2>7 DEF Savers, Missing
    <3> QED BY <2>5, <2>6, <3>2, <3>3, <3>4, <3>5
  <2>8. CASE t # t0
    <3>1. Savers(t, Missing)' = Savers(t, Missing)
      BY <2>2, <2>8 DEF Savers
    <3>2. Holders(t)' \in SUBSET Holders(t)
      BY <2>3, <2>4, <2>8 DEF Holders, Stored
    <3>3. IsFiniteSet(Holders(t)') /\ Cardinality(Holders(t)') <= Cardinality(Holders(t))
      BY <2>5, <3>2, FS_Subset
    <3>4. Cardinality(Holders(t)') \in Nat
      BY <3>3, FS_CardinalityType
    <3> QED BY <2>5, <2>6, <3>1, <3>3, <3>4
  <2> QED BY <2>7, <2>8
<1> QED BY <1>2, <1>3, <1>4, <1>5, <1>7, <1>8, <1>9, <1>10, <1>11 DEF Step

\* A failed refresh has met another save, and a text is stored at most as often
\* as there are threads, once under the identifier of its signature.
THEOREM AnomaliesExplained == ThreadsSpec => []AnomaliesNeedRace
<1>1. ThreadsInit => HoldersBounded
  <2> SUFFICES ASSUME ThreadsInit, NEW t \in Texts
               PROVE  /\ IsFiniteSet(Holders(t))
                      /\ Cardinality(Holders(t)) + Cardinality(Savers(t, Missing)) <= Cardinality(Threads)
    BY DEF HoldersBounded
  <2>1. Holders(t) = {} /\ Savers(t, Missing) = {}
    BY DEF ThreadsInit, Init, Holders, Stored, Savers, Missing
  <2>2. IsFiniteSet({}) /\ Cardinality({}) = 0
    BY FS_EmptySet
  <2>3. Cardinality(Threads) \in Nat
    BY ThreadsConstants, FS_CardinalityType
  <2> QED BY <2>1, <2>2, <2>3
<1>2. ThreadsTyped /\ ClaimInv /\ HoldersBounded /\ [ThreadsNext]_threadVars => HoldersBounded'
  <2> SUFFICES ASSUME ThreadsTyped, ClaimInv, HoldersBounded, [ThreadsNext]_threadVars
               PROVE  HoldersBounded'
    OBVIOUS
  <2>1. CASE ThreadsNext
    BY <2>1, StepBoundsHolders DEF ThreadsNext
  <2>2. CASE UNCHANGED threadVars
    BY <2>2 DEF threadVars, HoldersBounded, Holders, Stored, Savers
  <2> QED BY <2>1, <2>2
<1>3. ThreadsTyped /\ ClaimInv /\ HoldersBounded => AnomaliesNeedRace
  <2> SUFFICES ASSUME ThreadsTyped, ClaimInv, HoldersBounded PROVE AnomaliesNeedRace
    OBVIOUS
  <2>1. ASSUME NEW p \in Threads, pc[p] = "refresh", sigIndex[job[p].text] \notin Stored
        PROVE  \E q \in Threads \ {p} : /\ job[q] # None /\ job[q].text = job[p].text
                                        /\ pc[q] \in {"sign", "row", "id", "put"}
    <3>1. job[p].text \in Texts
      BY <2>1, JobTyped DEF ThreadsTyped
    <3>2. PICK q \in Savers(job[p].text, PastClaim) : job[q].id = sigIndex[job[p].text]
      BY <2>1, <3>1 DEF ClaimInv, Claimed, Unclaimed
    <3>3. q \in Threads \ {p} /\ pc[q] \in PastClaim /\ job[q].text = job[p].text /\ job[q] \in Jobs
      BY <2>1, <3>2 DEF Savers, PastClaim, ThreadsTyped
    <3>4. job[q] # None
      BY <3>3, ThreadsConstants
    <3> QED BY <3>3, <3>4 DEF PastClaim
  <2>2. ASSUME Quiet, OneTextPerId, NEW t \in Texts, Holders(t) # {}
        PROVE  sigIndex[t] \in Holders(t) /\ Cardinality(Holders(t)) <= Cardinality(Threads)
    <3>1. sigIndex[t] # None /\ sigIndex[t] \in Ids
      BY <2>2 DEF ClaimInv, Unclaimed, ThreadsTyped, ThreadsTypeOK, TypeOK
    <3>2. Savers(t, PastClaim) = {} /\ Savers(t, Missing) = {}
      BY <2>2 DEF Quiet, Savers, PastClaim, Missing
    <3>3. sigIndex[t] \in Stored /\ t \in TextsOf[sigIndex[t]]
      BY <3>1, <3>2 DEF ClaimInv, Claimed
    <3>4. store[sigIndex[t]].text = t
      BY <2>2, <3>1, <3>3 DEF ClaimInv, TextsKept, OneTextPerId
    <3>5. Cardinality(Savers(t, Missing)) = 0 /\ Cardinality(Holders(t)) \in Nat /\ Cardinality(Threads) \in Nat
      BY <3>2, FS_EmptySet, FS_CardinalityType, ThreadsConstants DEF HoldersBounded
    <3> QED BY <3>3, <3>4, <3>5 DEF Holders, HoldersBounded
  <2> QED BY <2>1, <2>2 DEF AnomaliesNeedRace, Holders
<1> QED BY <1>1, <1>2, <1>3, InitTyped, NextTyped, InitClaims, NextClaims, PTL DEF ThreadsSpec

-------------------------------------------------------------------------------
(* Rows and identifiers: a thread between its row and its identifier has   *)
(* added one and not the other, and an identifier that is listed and not   *)
(* stored is about to be.                                                  *)

BetweenRowAndId == {p \in Threads : pc[p] = "id"}

RowsCounted ==
  /\ Len(index) = Len(ids) + Cardinality(BetweenRowAndId)
  /\ \A k \in 1..Len(ids) : \/ ids[k] \in Stored
                            \/ \E q \in Threads : pc[q] = "put" /\ job[q].id = ids[k]
  /\ \A i \in Stored : \E k \in 1..Len(ids) : ids[k] = i
  /\ \A q \in Threads : pc[q] = "put" => \E k \in 1..Len(ids) : ids[k] = job[q].id

LEMMA StepCountsRows ==
  ASSUME ThreadsTyped, RowsCounted, NEW p \in Threads, Step(p)
  PROVE  RowsCounted'
<1> USE DEF Goto, Return
<1>0. pc[p] # "idle" => /\ job[p].id \in Ids /\ job[p].text \in Texts
                        /\ [text |-> job[p].text, exp |-> job[p].exp] \in Objects
  BY JobTyped DEF ThreadsTyped
<1>t. /\ pc \in [Threads -> Labels] /\ job \in [Threads -> Jobs \cup {None}]
      /\ store \in [Ids -> Objects \cup {None}] /\ ids \in Seq(Ids) /\ index \in Seq(Texts)
  BY DEF ThreadsTyped, ThreadsTypeOK, TypeOK
<1>j. \A q \in Threads : q # p => pc'[q] = pc[q] /\ job'[q] = job[q]
  BY StepShape
<1>b. /\ BetweenRowAndId \in SUBSET Threads
      /\ BetweenRowAndId' = IF pc'[p] = "id" THEN BetweenRowAndId \cup {p} ELSE BetweenRowAndId \ {p}
  BY <1>j DEF BetweenRowAndId
<1>c. /\ Cardinality(BetweenRowAndId) \in Nat
      /\ pc[p] = "row" /\ pc'[p] = "id" =>
           Cardinality(BetweenRowAndId') = Cardinality(BetweenRowAndId) + 1
      /\ pc[p] = "id" /\ pc'[p] = "put" =>
           Cardinality(BetweenRowAndId') = Cardinality(BetweenRowAndId) - 1
  <2>1. pc[p] = "row" => p \notin BetweenRowAndId
    BY DEF BetweenRowAndId
  <2>2. pc[p] = "id" => p \in BetweenRowAndId
    BY DEF BetweenRowAndId
  <2> QED BY <1>b, <2>1, <2>2, JoinOrLeave
\* A step that changes neither rows nor identifiers nor what is stored.
<1>1. ASSUME index' = index, ids' = ids, Stored' = Stored,
             pc[p] \notin {"id", "put"}, pc'[p] \notin {"id", "put"}
      PROVE  RowsCounted'
  <2>1. BetweenRowAndId' = BetweenRowAndId
    BY <1>1, <1>b DEF BetweenRowAndId
  <2>2. \A q \in Threads : (pc[q] = "put" <=> pc'[q] = "put") /\ (pc[q] = "put" => job'[q] = job[q])
    BY <1>1, <1>j
  <2> QED BY <1>1, <2>1, <2>2 DEF RowsCounted
<1>2. ASSUME NEW j \in Jobs, Enter(p, j) PROVE RowsCounted'
  BY <1>1, <1>2, <1>t DEF Enter, Stored
<1>3. CASE EnterFull(p)
  BY <1>1, <1>3, <1>t DEF EnterFull, repo, Stored
<1>4. CASE LookUp(p)
  BY <1>1, <1>4, <1>t DEF LookUp, Stored
<1>5. CASE Refresh(p)
  <2>1. pc[p] = "refresh" /\ pc'[p] = "idle" /\ index' = index /\ ids' = ids
    BY <1>5, <1>t DEF Refresh
  <2> QED BY <1>1, <1>5, <2>1, RefreshKeepsTexts
<1>6. CASE Claim(p)
  BY <1>1, <1>6, <1>t DEF Claim, Stored
<1>7. CASE Sign(p)
  BY <1>1, <1>7, <1>t DEF Sign, Stored
<1>8. CASE AddRow(p)
  <2>1. /\ pc[p] = "row" /\ pc'[p] = "id" /\ ids' = ids /\ store' = store /\ job' = job
        /\ Len(index') = Len(index) + 1
    BY <1>0, <1>8, <1>t DEF AddRow
  <2>2. Len(index) = Len(ids) + Cardinality(BetweenRowAndId) /\ Len(index) \in Nat /\ Len(ids) \in Nat
    BY <1>t DEF RowsCounted
  <2>3. Len(index') = Len(ids') + Cardinality(BetweenRowAndId')
    BY <1>c, <2>1, <2>2
  <2>4. \A q \in Threads : pc[q] = "put" <=> pc'[q] = "put"
    BY <1>j, <2>1
  <2> QED BY <2>1, <2>3, <2>4 DEF RowsCounted, Stored
<1>9. CASE AddId(p)
  <2>1. /\ pc[p] = "id" /\ pc'[p] = "put" /\ index' = index /\ store' = store /\ job' = job
        /\ ids' = Append(ids, job[p].id)
    BY <1>9, <1>t DEF AddId
  <2>2. /\ Len(ids') = Len(ids) + 1 /\ ids'[Len(ids) + 1] = job[p].id
        /\ \A k \in 1..Len(ids) : ids'[k] = ids[k]
    BY <1>0, <1>t, <2>1
  <2>3. Len(index) = Len(ids) + Cardinality(BetweenRowAndId) /\ Len(index) \in Nat /\ Len(ids) \in Nat
    BY <1>t DEF RowsCounted
  <2>4. Len(index') = Len(ids') + Cardinality(BetweenRowAndId')
    BY <1>c, <2>1, <2>2, <2>3
  <2>5. \A k \in 1..Len(ids') : k \in 1..Len(ids) \/ k = Len(ids) + 1
    BY <2>2, <2>3
  <2>6. \A k \in 1..Len(ids) : k \in 1..Len(ids')
    BY <2>2, <2>3
  <2>7. Len(ids) + 1 \in 1..Len(ids')
    BY <2>2, <2>3
  <2>8. \A k \in 1..Len(ids') : \/ ids'[k] \in Stored'
                                \/ \E q \in Threads : pc'[q] = "put" /\ job'[q].id = ids'[k]
    <3> SUFFICES ASSUME NEW k \in 1..Len(ids')
                 PROVE  \/ ids'[k] \in Stored'
                        \/ \E q \in Threads : pc'[q] = "put" /\ job'[q].id = ids'[k]
      OBVIOUS
    <3>1. CASE k = Len(ids) + 1
      BY <2>1, <2>2, <3>1
    <3>2. CASE k \in 1..Len(ids)
      BY <1>j, <2>1, <2>2, <3>2 DEF RowsCounted, Stored
    <3> QED BY <2>5, <3>1, <3>2
  <2>9. \A i \in Stored' : \E k \in 1..Len(ids') : ids'[k] = i
    <3> SUFFICES ASSUME NEW i \in Stored PROVE \E k \in 1..Len(ids') : ids'[k] = i
      BY <2>1 DEF Stored
    <3>1. PICK k \in 1..Len(ids) : ids[k] = i
      BY DEF RowsCounted
    <3> QED BY <2>2, <2>6, <3>1
  <2>10. \A q \in Threads : pc'[q] = "put" => \E k \in 1..Len(ids') : ids'[k] = job'[q].id
    <3> SUFFICES ASSUME NEW q \in Threads, pc'[q] = "put"
                 PROVE  \E k \in 1..Len(ids') : ids'[k] = job'[q].id
      OBVIOUS
    <3>1. CASE q = p
      BY <2>1, <2>2, <2>7, <3>1
    <3>2. CASE q # p
      BY <1>j, <2>1, <2>2, <2>6, <3>2 DEF RowsCounted
    <3> QED BY <3>1, <3>2
  <2> QED BY <2>4, <2>8, <2>9, <2>10 DEF RowsCounted
<1>10. CASE Put(p)
  <2>1. /\ store' = [store EXCEPT ![job[p].id] = [text |-> job[p].text, exp |-> job[p].exp]]
        /\ pc[p] = "put" /\ pc'[p] = "idle" /\ index' = index /\ ids' = ids
    BY <1>10, <1>t DEF Put
  <2>2. [text |-> job[p].text, exp |-> job[p].exp] # None
    BY <1>0, <2>1, VectorConstants
  <2>3. Stored' = Stored \cup {job[p].id}
    BY <1>0, <1>t, <2>1, <2>2 DEF Stored
  <2>4. BetweenRowAndId' = BetweenRowAndId
    BY <1>b, <2>1 DEF BetweenRowAndId
  <2>5. \A k \in 1..Len(ids') : \/ ids'[k] \in Stored'
                                \/ \E q \in Threads : pc'[q] = "put" /\ job'[q].id = ids'[k]
    <3> SUFFICES ASSUME NEW k \in 1..Len(ids), ids[k] \notin Stored'
                 PROVE  \E q \in Threads : pc'[q] = "put" /\ job'[q].id = ids[k]
      BY <2>1
    <3>1. PICK q \in Threads : pc[q] = "put" /\ job[q].id = ids[k]
      BY <2>3 DEF RowsCounted
    <3>2. q # p
      BY <2>3, <3>1
    <3> QED BY <1>j, <3>1, <3>2
  <2>6. \A i \in Stored' : \E k \in 1..Len(ids') : ids'[k] = i
    BY <2>1, <2>3 DEF RowsCounted
  <2>7. \A q \in Threads : pc'[q] = "put" => \E k \in 1..Len(ids') : ids'[k] = job'[q].id
    <3> SUFFICES ASSUME NEW q \in Threads, pc'[q] = "put"
                 PROVE  \E k \in 1..Len(ids) : ids[k] = job'[q].id
      BY <2>1
    <3>1. q # p /\ pc[q] = "put" /\ job'[q] = job[q]
      BY <1>j, <2>1
    <3> QED BY <3>1 DEF RowsCounted
  <2> QED BY <2>1, <2>4, <2>5, <2>6, <2>7 DEF RowsCounted
<1> QED BY <1>2, <1>3, <1>4, <1>5, <1>6, <1>7, <1>8, <1>9, <1>10 DEF Step

\* Where identifiers stand for one text, an identifier tells the text of its row.
Named(t) == {k \in 1..Len(ids) : t \in TextsOf[ids[k]]}

RowsNamed ==
  \A t \in Texts : Cardinality(Rows(t)) = Cardinality(Named(t)) + Cardinality(Savers(t, {"id"}))

LEMMA PositionsFinite ==
  ASSUME NEW n \in Nat, NEW S \in SUBSET (1..n)
  PROVE  /\ IsFiniteSet(S) /\ Cardinality(S) \in Nat
         /\ Cardinality(S \cup {n + 1}) = Cardinality(S) + 1
<1>1. IsFiniteSet(1..n)
  BY FS_Interval
<1>2. IsFiniteSet(S)
  BY <1>1, FS_Subset
<1>3. Cardinality(S) \in Nat
  BY <1>2, FS_CardinalityType
<1>4. Cardinality(S \cup {n + 1}) =
        IF n + 1 \in S THEN Cardinality(S) ELSE Cardinality(S) + 1
  BY <1>2, FS_AddElement
<1>5. n + 1 \notin S
  OBVIOUS
<1> QED BY <1>2, <1>3, <1>4, <1>5

LEMMA StepNamesRows ==
  ASSUME OneTextPerId, ThreadsTyped, RowsNamed, NEW p \in Threads, Step(p)
  PROVE  RowsNamed'
<1> DEFINE t0 == job[p].text
           i0 == job[p].id
<1> USE DEF Goto, Return
<1>0. pc[p] # "idle" => i0 \in Ids /\ t0 \in Texts /\ t0 \in TextsOf[i0]
  BY JobTyped DEF ThreadsTyped
<1>t. /\ pc \in [Threads -> Labels] /\ job \in [Threads -> Jobs \cup {None}]
      /\ ids \in Seq(Ids) /\ index \in Seq(Texts)
      /\ Len(ids) \in Nat /\ Len(index) \in Nat
  BY DEF ThreadsTyped, ThreadsTypeOK, TypeOK
<1>s. \A t \in Texts :
        Savers(t, {"id"})' = IF pc'[p] \in {"id"} /\ job'[p].text = t
                             THEN Savers(t, {"id"}) \cup {p} ELSE Savers(t, {"id"}) \ {p}
  BY SaversStep
<1>b. \A t \in Texts :
        /\ Savers(t, {"id"}) \in SUBSET Threads
        /\ Rows(t) \in SUBSET (1..Len(index)) /\ Named(t) \in SUBSET (1..Len(ids))
  BY DEF Savers, Rows, Named
<1>1. ASSUME index' = index, ids' = ids, pc[p] # "id", pc'[p] # "id"
      PROVE  RowsNamed'
  <2>1. \A t \in Texts : Savers(t, {"id"})' = Savers(t, {"id"})
    BY <1>1, <1>s DEF Savers
  <2>2. \A t \in Texts : Rows(t)' = Rows(t) /\ Named(t)' = Named(t)
    BY <1>1 DEF Rows, Named
  <2> QED BY <2>1, <2>2 DEF RowsNamed
<1>2. ASSUME NEW j \in Jobs, Enter(p, j) PROVE RowsNamed'
  BY <1>1, <1>2, <1>t DEF Enter
<1>3. CASE EnterFull(p)
  BY <1>1, <1>3, <1>t DEF EnterFull, repo
<1>4. CASE LookUp(p)
  BY <1>1, <1>4, <1>t DEF LookUp
<1>5. CASE Refresh(p)
  BY <1>1, <1>5, <1>t DEF Refresh
<1>6. CASE Claim(p)
  BY <1>1, <1>6, <1>t DEF Claim
<1>7. CASE Sign(p)
  BY <1>1, <1>7, <1>t DEF Sign
<1>8. CASE AddRow(p)
  <2>1. /\ pc[p] = "row" /\ pc'[p] = "id" /\ ids' = ids /\ job' = job
        /\ index' = Append(index, t0)
    BY <1>8, <1>t DEF AddRow
  <2>2. /\ Len(index') = Len(index) + 1 /\ index'[Len(index) + 1] = t0
        /\ \A k \in 1..Len(index) : index'[k] = index[k]
    BY <1>0, <1>t, <2>1
  <2>3. \A k \in 1..(Len(index) + 1) : k \in 1..Len(index) \/ k = Len(index) + 1
    BY <1>t
  <2>4. /\ \A k \in 1..Len(index) : k \in 1..(Len(index) + 1)
        /\ Len(index) + 1 \in 1..(Len(index) + 1)
    BY <1>t
  <2>5. ASSUME NEW t \in Texts
        PROVE  Cardinality(Rows(t)') = Cardinality(Named(t)') + Cardinality(Savers(t, {"id"})')
    <3>1. Named(t)' = Named(t)
      BY <2>1 DEF Named
    <3>2. Cardinality(Rows(t)) = Cardinality(Named(t)) + Cardinality(Savers(t, {"id"}))
      BY DEF RowsNamed
    <3>3. CASE t = t0
      <4>1. Rows(t)' = Rows(t) \cup {Len(index) + 1}
        BY <2>2, <2>3, <2>4, <3>3 DEF Rows
      <4>2. Cardinality(Rows(t)') = Cardinality(Rows(t)) + 1
        BY <1>b, <1>t, <4>1, PositionsFinite
      <4>3. p \notin Savers(t, {"id"}) /\ Savers(t, {"id"})' = Savers(t, {"id"}) \cup {p}
        BY <1>s, <2>1, <3>3 DEF Savers
      <4>4. Cardinality(Savers(t, {"id"})') = Cardinality(Savers(t, {"id"})) + 1
        BY <1>b, <4>3, JoinOrLeave
      <4>5. Cardinality(Savers(t, {"id"})) \in Nat /\ Cardinality(Named(t)) \in Nat
        BY <1>b, <1>t, JoinOrLeave, PositionsFinite
      <4> QED BY <3>1, <3>2, <4>2, <4>4, <4>5
    <3>4. CASE t # t0
      <4>1. Rows(t)' = Rows(t)
        BY <2>2, <2>3, <2>4, <3>4 DEF Rows
      <4>2. Savers(t, {"id"})' = Savers(t, {"id"})
        BY <1>s, <2>1, <3>4 DEF Savers
      <4> QED BY <3>1, <3>2, <4>1, <4>2
    <3> QED BY <3>3, <3>4
  <2> QED BY <2>5 DEF RowsNamed
<1>9. CASE AddId(p)
  <2>1. /\ pc[p] = "id" /\ pc'[p] = "put" /\ index' = index /\ job' = job
        /\ ids' = Append(ids, i0)
    BY <1>9, <1>t DEF AddId
  <2>2. /\ Len(ids') = Len(ids) + 1 /\ ids'[Len(ids) + 1] = i0
        /\ \A k \in 1..Len(ids) : ids'[k] = ids[k]
    BY <1>0, <1>t, <2>1
  <2>3. \A k \in 1..(Len(ids) + 1) : k \in 1..Len(ids) \/ k = Len(ids) + 1
    BY <1>t
  <2>4. /\ \A k \in 1..Len(ids) : k \in 1..(Len(ids) + 1)
        /\ Len(ids) + 1 \in 1..(Len(ids) + 1)
    BY <1>t
  <2>5. ASSUME NEW t \in Texts
        PROVE  Cardinality(Rows(t)') = Cardinality(Named(t)') + Cardinality(Savers(t, {"id"})')
    <3>1. Rows(t)' = Rows(t)
      BY <2>1 DEF Rows
    <3>2. Cardinality(Rows(t)) = Cardinality(Named(t)) + Cardinality(Savers(t, {"id"}))
      BY DEF RowsNamed
    <3>3. CASE t = t0
      <4>1. Named(t)' = Named(t) \cup {Len(ids) + 1}
        BY <1>0, <2>1, <2>2, <2>3, <2>4, <3>3 DEF Named
      <4>2. Cardinality(Named(t)') = Cardinality(Named(t)) + 1
        BY <1>b, <1>t, <4>1, PositionsFinite
      <4>3. p \in Savers(t, {"id"}) /\ Savers(t, {"id"})' = Savers(t, {"id"}) \ {p}
        BY <1>s, <2>1, <3>3 DEF Savers
      <4>4. Cardinality(Savers(t, {"id"})') = Cardinality(Savers(t, {"id"})) - 1
        BY <1>b, <4>3, JoinOrLeave
      <4>5. Cardinality(Savers(t, {"id"})) \in Nat /\ Cardinality(Named(t)) \in Nat
        BY <1>b, <1>t, JoinOrLeave, PositionsFinite
      <4> QED BY <3>1, <3>2, <4>2, <4>4, <4>5
    <3>4. CASE t # t0
      <4>1. t \notin TextsOf[i0]
        BY <1>0, <2>1, <3>4 DEF OneTextPerId
      <4>2. Named(t)' = Named(t)
        BY <2>2, <2>3, <2>4, <4>1 DEF Named
      <4>3. Savers(t, {"id"})' = Savers(t, {"id"})
        BY <1>s, <2>1, <3>4 DEF Savers
      <4> QED BY <3>1, <3>2, <4>2, <4>3
    <3> QED BY <3>3, <3>4
  <2> QED BY <2>5 DEF RowsNamed
<1>10. CASE Put(p)
  BY <1>1, <1>10, <1>t DEF Put
<1> QED BY <1>2, <1>3, <1>4, <1>5, <1>6, <1>7, <1>8, <1>9, <1>10 DEF Step

LEMMA NextCountsRows ==
  ThreadsTyped /\ RowsCounted /\ [ThreadsNext]_threadVars => RowsCounted'
<1> SUFFICES ASSUME ThreadsTyped, RowsCounted, [ThreadsNext]_threadVars PROVE RowsCounted'
  OBVIOUS
<1>1. CASE ThreadsNext
  BY <1>1, StepCountsRows DEF ThreadsNext
<1>2. CASE UNCHANGED threadVars
  BY <1>2 DEF threadVars, RowsCounted, BetweenRowAndId, Stored
<1> QED BY <1>1, <1>2

LEMMA NextNamesRows ==
  (OneTextPerId => RowsNamed) /\ ThreadsTyped /\ [ThreadsNext]_threadVars => (OneTextPerId => RowsNamed')
<1> SUFFICES ASSUME OneTextPerId, RowsNamed, ThreadsTyped, [ThreadsNext]_threadVars PROVE RowsNamed'
  OBVIOUS
<1>1. CASE ThreadsNext
  BY <1>1, StepNamesRows DEF ThreadsNext
<1>2. CASE UNCHANGED threadVars
  BY <1>2 DEF threadVars, RowsNamed, Rows, Named, Savers
<1> QED BY <1>1, <1>2

\* When no save is under way every identifier is stored, every stored object has
\* a row and, with one text per identifier, the rows are those of the texts:
\* what a race costs is duplicates and the order of the rows (vector_repo.py:126).
THEOREM RowsBackedWhenQuiet == ThreadsSpec => []QuietRowsBacked
<1> DEFINE NamedInv == OneTextPerId => RowsNamed
<1>1. ThreadsInit => RowsCounted /\ NamedInv
  <2> SUFFICES ASSUME ThreadsInit PROVE RowsCounted /\ RowsNamed
    OBVIOUS
  <2>1. BetweenRowAndId = {} /\ Stored = {} /\ ids = <<>> /\ index = <<>>
    BY DEF ThreadsInit, Init, BetweenRowAndId, Stored
  <2>2. Cardinality({}) = 0
    BY FS_EmptySet
  <2>3. RowsCounted
    BY <2>1, <2>2 DEF RowsCounted, ThreadsInit
  <2>4. \A t \in Texts : Rows(t) = {} /\ Named(t) = {} /\ Savers(t, {"id"}) = {}
    BY <2>1 DEF Rows, Named, Savers, ThreadsInit
  <2>5. RowsNamed
    BY <2>2, <2>4 DEF RowsNamed
  <2> QED BY <2>3, <2>5
<1>2. NamedInv /\ ThreadsTyped /\ [ThreadsNext]_threadVars => NamedInv'
  BY NextNamesRows
<1>3. ThreadsTyped /\ ClaimInv /\ RowsCounted /\ NamedInv => QuietRowsBacked
  <2> SUFFICES ASSUME ThreadsTyped, ClaimInv, RowsCounted, NamedInv, Quiet
               PROVE  /\ RowsBacked
                      /\ OneTextPerId => \A t \in Texts : Cardinality(Rows(t)) = Cardinality(Entries(t))
    BY DEF QuietRowsBacked
  <2>1. BetweenRowAndId = {} /\ \A t \in Texts : Savers(t, {"id"}) = {}
    BY DEF Quiet, BetweenRowAndId, Savers
  <2>2. Cardinality({}) = 0
    BY FS_EmptySet
  <2>3. Len(index) = Len(ids)
    BY <2>1, <2>2 DEF RowsCounted, ThreadsTyped, ThreadsTypeOK, TypeOK
  <2>4. \A k \in 1..Len(ids) : ids[k] \in Stored
    BY DEF RowsCounted, Quiet
  <2>5. \A i \in Stored : \E k \in 1..Len(ids) : ids[k] = i
    BY DEF RowsCounted
  <2>6. ASSUME OneTextPerId, NEW t \in Texts
        PROVE  Cardinality(Rows(t)) = Cardinality(Entries(t))
    <3>1. Cardinality(Rows(t)) = Cardinality(Named(t)) + 0
      BY <2>1, <2>2, <2>6 DEF RowsNamed
    <3>2. Cardinality(Named(t)) \in Nat
      <4>1. Named(t) \in SUBSET (1..Len(ids)) /\ Len(ids) \in Nat
        BY DEF Named, ThreadsTyped, ThreadsTypeOK, TypeOK
      <4> QED BY <4>1, PositionsFinite
    <3>3. \A k \in 1..Len(ids) : t \in TextsOf[ids[k]] <=> store[ids[k]].text = t
      BY <2>4, <2>6 DEF ClaimInv, TextsKept, OneTextPerId, Stored
    <3>4. Named(t) = Entries(t)
      BY <3>3 DEF Named, Entries
    <3> QED BY <3>1, <3>2, <3>4
  <2> QED BY <2>3, <2>4, <2>5, <2>6 DEF RowsBacked
<1> HIDE DEF NamedInv
<1> QED BY <1>1, <1>2, <1>3, InitTyped, NextTyped, InitClaims, NextClaims, NextCountsRows, PTL
        DEF ThreadsSpec

-------------------------------------------------------------------------------
(* Snapshots.                                                              *)

NoMemory == index = <<>> /\ ids = <<>> /\ store = [i \in Ids |-> None]

\* The files are written in order, from the memory of the running process.
Ordered ==
  /\ mode # "up" => flush = 0 /\ NoMemory
  /\ flush # 0 => tried = store
  /\ \A f \in Files : f < flush => disk[f] = Image(f)
  /\ disk[4] # None => Complete

\* Which objects the files hold, whatever was killed.  A snapshot is complete
\* from the moment its last file is opened for the first time; until then a
\* process starts with nothing.
ObjectsKept ==
  /\ Complete => disk[3] \in {Torn, acked, tried}
  /\ Complete /\ Ready => disk[3] = acked
  /\ ~Complete => acked = [i \in Ids |-> None]

\* A process that starts from the files has RowsBacked.
DiskBacked ==
  /\ Len(disk[1]) = Len(disk[2])
  /\ disk[4] = Len(disk[2])
  /\ \A k \in 1..Len(disk[2]) : disk[3][disk[2][k]] # None
  /\ \A i \in Ids : disk[3][i] # None => \E k \in 1..Len(disk[2]) : disk[2][k] = i

\* As long as no process was killed.
Unharmed ==
  kills = 0 =>
    /\ RowsBacked
    /\ \A f \in Files : f # flush => disk[f] # Torn
    /\ flush = 0 /\ Complete => DiskBacked
    /\ Ready => IF Complete THEN \A f \in Files : disk[f] = Image(f) ELSE NoMemory

SnapTyped == SnapTypeOK /\ disk = [f \in Files |-> disk[f]]

\* The inductive invariant.
SnapInv == SnapTyped /\ Ordered /\ ObjectsKept /\ Unharmed

-------------------------------------------------------------------------------
\* What save() writes of a typed repository is never a marker.
LEMMA ImageIs ==
  ASSUME TypeOK
  PROVE  /\ Image(1) = index /\ Image(2) = ids /\ Image(3) = store /\ Image(4) = Len(ids)
         /\ \A f \in Files : Image(f) \notin {None, Torn}
<1>1. Image(1) = index /\ Image(2) = ids /\ Image(3) = store /\ Image(4) = Len(ids)
  BY DEF Image
<1>2. Len(ids) \in Nat
  BY DEF TypeOK
<1>3. /\ index \notin {None, Torn} /\ ids \notin {None, Torn} /\ store \notin {None, Torn}
      /\ Len(ids) \notin {None, Torn}
  BY <1>2, SnapshotConstants DEF TypeOK
<1>4. \A f \in Files : f = 1 \/ f = 2 \/ f = 3 \/ f = 4
  BY DEF Files
<1> QED BY <1>1, <1>3, <1>4

\* A step of the repository, or none.
LEMMA MemoryStep ==
  ASSUME SnapInv, Ready, CoreNext
  PROVE  TypeOK' /\ (kills = 0 => RowsBacked')
<1>1. TypeOK /\ (kills = 0 => RowsBacked)
  BY DEF SnapInv, SnapTyped, SnapTypeOK, Unharmed
<1> QED BY <1>1, TypeStep, RowsBackedStep DEF ServerNext

\* A call that changed the repository begins to write it.
LEMMA FlushStep ==
  ASSUME SnapInv, Ready, CoreNext, Flush
  PROVE  SnapInv'
<1>1. TypeOK' /\ (kills = 0 => RowsBacked')
  BY MemoryStep
<1>2. /\ flush = 0 /\ mode = "up" /\ flush' = 1 /\ tried' = store'
      /\ disk' = disk /\ mode' = mode /\ kills' = kills /\ acked' = acked
  BY DEF Ready, Flush
<1>3. SnapTyped'
  BY <1>1, <1>2 DEF SnapInv, SnapTyped, SnapTypeOK, TypeOK, Files
<1>4. Complete' <=> Complete
  BY <1>2 DEF Complete
<1>5. Ordered'
  <2>1. \A f \in Files : ~(f < 1)
    BY DEF Files
  <2>2. disk'[4] # None => Complete'
    BY <1>2, <1>4 DEF SnapInv, Ordered
  <2> QED BY <1>2, <2>1, <2>2 DEF Ordered
<1>6. ObjectsKept'
  BY <1>2, <1>4 DEF SnapInv, ObjectsKept, Ready
<1>7. Unharmed'
  <2>1. \A f \in Files : f # 0
    BY DEF Files
  <2>2. flush' # 0 /\ ~Ready'
    BY <1>2 DEF Ready
  <2> QED BY <1>1, <1>2, <2>1, <2>2 DEF SnapInv, Unharmed
<1> QED BY <1>3, <1>5, <1>6, <1>7 DEF SnapInv

\* A call that raises before it changed anything, or did nothing at all.
LEMMA IdleStep ==
  ASSUME SnapInv, TypeOK', UNCHANGED <<ids, store, disk, flush, mode, ghosts>>,
         Ready, index' # index => kills # 0
  PROVE  SnapInv'
<1>1. /\ ids' = ids /\ store' = store /\ disk' = disk /\ flush' = flush /\ mode' = mode
      /\ kills' = kills /\ acked' = acked /\ tried' = tried /\ flush = 0 /\ mode = "up"
  BY DEF ghosts, Ready
<1>2. SnapTyped'
  BY <1>1 DEF SnapInv, SnapTyped, SnapTypeOK
<1>3. Complete' <=> Complete
  BY <1>1 DEF Complete
<1>4. Ordered'
  <2>1. \A f \in Files : ~(f < 0)
    BY DEF Files
  <2>2. disk'[4] # None => Complete'
    BY <1>1, <1>3 DEF SnapInv, Ordered
  <2> QED BY <1>1, <2>1, <2>2 DEF Ordered
<1>5. ObjectsKept'
  BY <1>1, <1>3 DEF SnapInv, ObjectsKept, Ready
<1>6. Unharmed'
  <2> SUFFICES ASSUME kills = 0 PROVE Unharmed'
    BY <1>1 DEF Unharmed
  <2>1. index' = index
    OBVIOUS
  <2>2. \A f \in Files : Image(f)' = Image(f)
    BY <1>1, <2>1 DEF Image
  <2>3. /\ RowsBacked' <=> RowsBacked
        /\ NoMemory' <=> NoMemory
        /\ DiskBacked' <=> DiskBacked
        /\ Ready' <=> Ready
    BY <1>1, <2>1 DEF RowsBacked, NoMemory, Stored, DiskBacked, Ready
  <2> QED BY <1>1, <1>3, <2>2, <2>3 DEF SnapInv, Unharmed
<1> QED BY <1>2, <1>4, <1>5, <1>6 DEF SnapInv

LEMMA SaveStep == ASSUME SnapInv, SnapSave PROVE SnapInv'
<1>1. Ready /\ Save
  BY DEF SnapSave
<1>2. CASE result' \in {"saved", "duplicate"}
  BY <1>1, <1>2, FlushStep DEF SnapSave, CoreNext
<1>3. CASE result' \notin {"saved", "duplicate"}
  <2>1. UNCHANGED repo
    BY <1>1, <1>3 DEF Save, SaveObject, RefuseSave, RefreshDuplicate, AddNote, repo
  <2>2. UNCHANGED <<disk, flush, mode, ghosts>>
    BY <1>3 DEF SnapSave
  <2>3. TypeOK'
    BY <1>1, MemoryStep DEF CoreNext
  <2> QED BY <1>1, <2>1, <2>2, <2>3, IdleStep DEF repo
<1> QED BY <1>2, <1>3

LEMMA AbortStep == ASSUME SnapInv, SnapGcAborts PROVE SnapInv'
<1>1. PICK now \in Times, n \in 0..Len(ids) :
        \E mask \in [1..n -> 1..Len(ids)], m \in 1..n :
            /\ ids[mask[m]] \notin Stored
            /\ \A a \in 1..(m - 1) : ids[mask[a]] \in Stored
            /\ index' = [a \in 1..(m - 1) |-> store[ids[mask[a]]].text]
  BY DEF SnapGcAborts
<1>2. PICK mask \in [1..n -> 1..Len(ids)], m \in 1..n :
            /\ ids[mask[m]] \notin Stored
            /\ \A a \in 1..(m - 1) : ids[mask[a]] \in Stored
            /\ index' = [a \in 1..(m - 1) |-> store[ids[mask[a]]].text]
  BY <1>1
<1>3. TypeOK
  BY DEF SnapInv, SnapTyped, SnapTypeOK
<1>4. n \in Nat /\ m - 1 \in Nat /\ Len(ids) \in Nat
  BY <1>2, <1>3 DEF TypeOK
<1>5. index' \in Seq(Texts)
  <2>1. ASSUME NEW a \in 1..(m - 1) PROVE store[ids[mask[a]]].text \in Texts
    <3>1. a \in 1..n
      BY <1>4, <2>1
    <3>2. ids[mask[a]] \in Stored
      BY <1>2
    <3> QED BY <1>3, <3>2 DEF Stored, TypeOK, Objects
  <2>2. index' \in [1..(m - 1) -> Texts]
    BY <1>2, <2>1
  <2> QED BY <1>4, <2>2, SeqOfFunction
<1>6. /\ Ready /\ UNCHANGED <<ids, store, sigs, sigIndex, disk, flush, mode, ghosts>>
      /\ result' = "key_error"
  BY DEF SnapGcAborts
<1>7. TypeOK'
  BY <1>3, <1>5, <1>6 DEF TypeOK, Results
<1>8. kills # 0
  <2>1. ~RowsBacked
    BY <1>2, <1>4 DEF RowsBacked
  <2> QED BY <2>1 DEF SnapInv, Unharmed
<1> QED BY <1>6, <1>7, <1>8, IdleStep

LEMMA TruncateStep == ASSUME SnapInv, Truncate PROVE SnapInv'
<1>1. /\ flush \in 1..4 /\ disk' = [disk EXCEPT ![flush] = Torn] /\ flush # 0
      /\ index' = index /\ ids' = ids /\ store' = store /\ sigs' = sigs
      /\ sigIndex' = sigIndex /\ result' = result /\ flush' = flush /\ mode' = mode
      /\ kills' = kills /\ acked' = acked /\ tried' = tried
  BY DEF Truncate, Files, ghosts
<1>2. TypeOK /\ DOMAIN disk = Files
  BY DEF SnapInv, SnapTyped, SnapTypeOK
<1>3. \A f \in Files : disk'[f] = IF f = flush THEN Torn ELSE disk[f]
  BY <1>1, <1>2
<1>4. SnapTyped'
  <2>1. disk' = [f \in Files |-> disk'[f]]
    BY <1>1, <1>2
  <2>2. SnapTypeOK'
    BY <1>1, <1>3 DEF SnapInv, SnapTyped, SnapTypeOK, TypeOK, Files
  <2> QED BY <2>1, <2>2 DEF SnapTyped
<1>5. \A f \in Files : Image(f)' = Image(f)
  BY <1>1 DEF Image
<1>6. \A f \in Files : f < flush => disk[f] = Image(f) /\ disk[f] # None
  BY <1>2, ImageIs DEF SnapInv, Ordered
<1>7. disk[4] # None => Complete
  BY DEF SnapInv, Ordered
<1>8. Complete' => Complete \/ flush = 4
  BY <1>1, <1>3, <1>7 DEF Complete, Files
<1>9. disk'[4] # None => Complete'
  <2>1. CASE flush = 4
    BY <1>1, <1>3, <1>6, <2>1, SnapshotConstants DEF Complete, Files
  <2>2. CASE flush # 4
    BY <1>1, <1>3, <1>7, <2>2, SnapshotConstants DEF Complete, Files
  <2> QED BY <2>1, <2>2
<1>10. Ordered'
  BY <1>1, <1>3, <1>5, <1>6, <1>9 DEF SnapInv, Ordered, Files
<1>11. ObjectsKept'
  <2>1. Complete => Complete'
    BY <1>3, SnapshotConstants DEF Complete
  <2>2. ASSUME Complete' PROVE disk'[3] \in {Torn, acked, tried}
    <3>1. CASE flush = 4
      <4>1. disk[3] = store /\ tried = store
        BY <1>1, <1>6, <1>2, <3>1, ImageIs DEF SnapInv, Ordered, Files
      <4> QED BY <1>3, <3>1, <4>1 DEF Files
    <3>2. CASE flush # 4
      BY <1>3, <1>8, <2>2, <3>2 DEF SnapInv, ObjectsKept, Files
    <3> QED BY <3>1, <3>2
  <2>3. ~Ready'
    BY <1>1 DEF Ready
  <2> QED BY <1>1, <2>1, <2>2, <2>3 DEF SnapInv, ObjectsKept
<1>12. Unharmed'
  <2>1. RowsBacked' <=> RowsBacked
    BY <1>1 DEF RowsBacked, Stored
  <2>2. ~Ready'
    BY <1>1 DEF Ready
  <2> QED BY <1>1, <1>3, <2>1, <2>2 DEF SnapInv, Unharmed
<1> QED BY <1>4, <1>10, <1>11, <1>12 DEF SnapInv

LEMMA FillStep == ASSUME SnapInv, Fill PROVE SnapInv'
<1>1. /\ flush \in 1..4 /\ disk' = [disk EXCEPT ![flush] = Image(flush)] /\ flush # 0
      /\ index' = index /\ ids' = ids /\ store' = store /\ sigs' = sigs
      /\ sigIndex' = sigIndex /\ result' = result /\ mode' = mode
      /\ kills' = kills /\ tried' = tried
      /\ IF flush = 4 THEN flush' = 0 /\ acked' = store
                      ELSE flush' = flush + 1 /\ acked' = acked
  BY DEF Fill, Files
<1>2. TypeOK /\ DOMAIN disk = Files /\ mode = "up"
  BY <1>1 DEF SnapInv, SnapTyped, SnapTypeOK, Ordered
<1>3. \A f \in Files : disk'[f] = IF f = flush THEN Image(f) ELSE disk[f]
  BY <1>1, <1>2
<1>4. /\ Image(1) = index /\ Image(2) = ids /\ Image(3) = store /\ Image(4) = Len(ids)
      /\ \A f \in Files : Image(f) \notin {None, Torn}
  BY <1>2, ImageIs
<1>5. SnapTyped'
  <2>1. disk' = [f \in Files |-> disk'[f]]
    BY <1>1, <1>2
  <2>2. SnapTypeOK'
    <3>1. TypeOK' /\ Len(ids) \in Nat
      BY <1>1, <1>2 DEF TypeOK
    <3>2. /\ disk'[1] \in {None, Torn} \/ disk'[1] \in Seq(Texts)
          /\ disk'[2] \in {None, Torn} \/ disk'[2] \in Seq(Ids)
          /\ disk'[3] \in {None, Torn} \/ disk'[3] \in [Ids -> Objects \cup {None}]
          /\ disk'[4] \in {None, Torn} \/ disk'[4] \in Nat
      BY <1>2, <1>3, <1>4, <3>1 DEF SnapInv, SnapTyped, SnapTypeOK, TypeOK, Files
    <3>3. /\ flush' \in {0} \cup Files
          /\ {acked', tried'} \subseteq [Ids -> Objects \cup {None}]
      BY <1>1, <1>2 DEF SnapInv, SnapTyped, SnapTypeOK, TypeOK, Files
    <3> QED BY <1>1, <3>1, <3>2, <3>3 DEF SnapInv, SnapTyped, SnapTypeOK
  <2> QED BY <2>1, <2>2 DEF SnapTyped
<1>6. \A f \in Files : Image(f)' = Image(f)
  BY <1>1 DEF Image
<1>7. \A f \in Files : f <= flush => disk'[f] = Image(f) /\ disk'[f] \notin {None, Torn}
  BY <1>1, <1>3, <1>4 DEF SnapInv, Ordered, Files
<1>8. Complete => Complete'
  BY <1>3, <1>4 DEF Complete
<1>9. flush = 4 => \A f \in Files : disk'[f] = Image(f) /\ disk'[f] \notin {None, Torn}
  BY <1>7 DEF Files
<1>10. Complete' => Complete \/ flush = 4
  <2> SUFFICES ASSUME Complete', flush # 4 PROVE Complete
    OBVIOUS
  <2>1. disk[4] # None
    BY <1>1, <1>3 DEF Complete, Files
  <2> QED BY <2>1 DEF SnapInv, Ordered
<1>11. Ordered'
  <2>1. disk'[4] # None => Complete'
    <3>1. CASE flush = 4
      BY <1>9, <3>1 DEF Complete
    <3>2. CASE flush # 4
      BY <1>1, <1>3, <1>8, <3>2 DEF SnapInv, Ordered, Files
    <3> QED BY <3>1, <3>2
  <2>2. \A f \in Files : f < flush' => disk'[f] = Image(f)
    BY <1>1, <1>7 DEF Files
  <2> QED BY <1>1, <1>2, <1>6, <2>1, <2>2 DEF SnapInv, Ordered
<1>12. ObjectsKept'
  <2>1. CASE flush = 4
    <3>1. disk'[3] = store /\ acked' = store /\ Complete'
      BY <1>1, <1>4, <1>9, <2>1 DEF Complete, Files
    <3> QED BY <3>1 DEF ObjectsKept
  <2>2. CASE flush # 4
    <3>1. acked' = acked /\ (Complete' <=> Complete) /\ ~Ready'
      BY <1>1, <1>8, <1>10, <2>2 DEF Ready
    <3>2. Complete => disk'[3] \in {Torn, acked, tried}
      BY <1>1, <1>3, <1>4 DEF SnapInv, ObjectsKept, Ordered, Files
    <3> QED BY <1>1, <3>1, <3>2 DEF SnapInv, ObjectsKept
  <2> QED BY <2>1, <2>2
<1>13. Unharmed'
  <2> SUFFICES ASSUME kills = 0 PROVE Unharmed'
    BY <1>1 DEF Unharmed
  <2>1. RowsBacked /\ RowsBacked'
    BY <1>1 DEF SnapInv, Unharmed, RowsBacked, Stored
  <2>2. CASE flush = 4
    <3>1. /\ disk'[1] = index /\ disk'[2] = ids /\ disk'[3] = store /\ disk'[4] = Len(ids)
          /\ Complete' /\ flush' = 0
      BY <1>1, <1>4, <1>9, <2>2 DEF Complete, Files
    <3>2. DiskBacked'
      <4>1. \A i \in Ids : store[i] # None => \E k \in 1..Len(ids) : ids[k] = i
        BY <2>1 DEF RowsBacked, Stored
      <4>2. \A k \in 1..Len(ids) : store[ids[k]] # None
        BY <2>1 DEF RowsBacked, Stored
      <4> QED BY <2>1, <3>1, <4>1, <4>2 DEF DiskBacked, RowsBacked
    <3> QED BY <1>6, <1>9, <2>1, <2>2, <3>1, <3>2 DEF Unharmed
  <2>3. CASE flush # 4
    <3>1. flush' # 0 /\ ~Ready' /\ flush' = flush + 1
      BY <1>1, <2>3 DEF Ready
    <3>2. \A f \in Files : f # flush' => disk'[f] # Torn
      BY <1>1, <1>3, <1>4, <3>1 DEF SnapInv, Unharmed
    <3> QED BY <2>1, <3>1, <3>2 DEF Unharmed
  <2> QED BY <2>2, <2>3
<1> QED BY <1>5, <1>11, <1>12, <1>13 DEF SnapInv

\* Nothing is left of a process that ended.
LEMMA StopStep ==
  ASSUME SnapInv, Stop, flush = 0 \/ kills < MaxKills
  PROVE  SnapInv'
<1>1. /\ mode = "up" /\ mode' = "down" /\ flush' = 0 /\ NoMemory'
      /\ disk' = disk /\ acked' = acked /\ tried' = tried
      /\ kills' = IF flush = 0 THEN kills ELSE kills + 1
  BY DEF Stop, NoMemory
<1>2. kills \in 0..MaxKills /\ kills' \in 0..MaxKills /\ (kills' = 0 => kills = 0 /\ flush = 0)
  BY <1>1, SnapshotConstants DEF SnapInv, SnapTyped, SnapTypeOK
<1>3. SnapTyped'
  <2>1. TypeOK'
    BY DEF Stop, TypeOK, Results
  <2> QED BY <1>1, <1>2, <2>1 DEF SnapInv, SnapTyped, SnapTypeOK
<1>4. (Complete' <=> Complete) /\ ~Ready'
  BY <1>1 DEF Complete, Ready
<1>5. Ordered'
  <2>1. \A f \in Files : ~(f < 0)
    BY DEF Files
  <2>2. disk'[4] # None => Complete'
    BY <1>1, <1>4 DEF SnapInv, Ordered
  <2> QED BY <1>1, <2>1, <2>2 DEF Ordered
<1>6. ObjectsKept'
  BY <1>1, <1>4 DEF SnapInv, ObjectsKept
<1>7. Unharmed'
  <2> SUFFICES ASSUME kills' = 0 PROVE Unharmed'
    BY DEF Unharmed
  <2>1. kills = 0 /\ flush = 0
    BY <1>2
  <2>2. RowsBacked'
    BY <1>1 DEF NoMemory, RowsBacked, Stored
  <2>3. DiskBacked' <=> DiskBacked
    BY <1>1 DEF DiskBacked
  <2>4. \A f \in Files : f # 0
    BY DEF Files
  <2> QED BY <1>1, <1>4, <2>1, <2>2, <2>3, <2>4 DEF SnapInv, Unharmed
<1> QED BY <1>3, <1>5, <1>6, <1>7 DEF SnapInv

LEMMA StartStep == ASSUME SnapInv, Start PROVE SnapInv'
<1>1. /\ mode # "up" /\ flush = 0 /\ flush' = 0 /\ NoMemory /\ disk' = disk
      /\ kills' = kills /\ tried' = tried /\ sigs' = sigs /\ sigIndex' = sigIndex
      /\ result' = result
  BY DEF Start, SnapInv, Ordered
<1>2. (Complete' <=> Complete) /\ (DiskBacked' <=> DiskBacked)
  BY <1>1 DEF Complete, DiskBacked
<1>3. ~(\E f \in Files : f < 0) /\ (disk'[4] # None => Complete')
  BY <1>1, <1>2 DEF SnapInv, Ordered, Files
<1>4. CASE Complete /\ \E f \in Files : disk[f] = Torn
  <2>1. mode' = "refused" /\ index' = index /\ ids' = ids /\ store' = store /\ acked' = acked
    BY <1>4 DEF Start
  <2>2. ~Ready' /\ NoMemory' /\ (RowsBacked' <=> RowsBacked)
    BY <1>1, <2>1 DEF Ready, NoMemory, RowsBacked, Stored
  <2>3. SnapTyped'
    BY <1>1, <2>1 DEF SnapInv, SnapTyped, SnapTypeOK, TypeOK
  <2>4. Ordered' /\ ObjectsKept' /\ Unharmed'
    BY <1>1, <1>2, <1>3, <2>1, <2>2 DEF SnapInv, Ordered, ObjectsKept, Unharmed
  <2> QED BY <2>3, <2>4 DEF SnapInv
<1>5. CASE Complete /\ \A f \in Files : disk[f] # Torn
  <2>1. /\ mode' = "up" /\ index' = disk[1] /\ ids' = disk[2] /\ store' = disk[3]
        /\ acked' = disk[3]
    BY <1>5 DEF Start
  <2>2. /\ disk[1] \in Seq(Texts) /\ disk[2] \in Seq(Ids)
        /\ disk[3] \in [Ids -> Objects \cup {None}] /\ disk[4] \in Nat
    BY <1>5 DEF SnapInv, SnapTyped, SnapTypeOK, Complete, Files
  <2>3. SnapTyped'
    <3>1. TypeOK'
      BY <1>1, <2>1, <2>2 DEF SnapInv, SnapTyped, SnapTypeOK, TypeOK
    <3> QED BY <1>1, <2>1, <2>2, <3>1 DEF SnapInv, SnapTyped, SnapTypeOK
  <2>4. Ordered' /\ ObjectsKept'
    BY <1>1, <1>2, <1>3, <1>5, <2>1 DEF Ordered, ObjectsKept
  <2>5. Unharmed'
    <3> SUFFICES ASSUME kills = 0 PROVE Unharmed'
      BY <1>1 DEF Unharmed
    <3>1. DiskBacked
      BY <1>1, <1>5 DEF SnapInv, Unharmed
    <3>2. RowsBacked'
      BY <2>1, <2>2, <3>1 DEF DiskBacked, RowsBacked, Stored
    <3>3. \A f \in Files : disk'[f] = Image(f)'
      <4>1. \A f \in Files : f = 1 \/ f = 2 \/ f = 3 \/ f = 4
        BY DEF Files
      <4> QED BY <1>1, <2>1, <3>1, <4>1 DEF Image, DiskBacked
    <3> QED BY <1>1, <1>2, <1>5, <3>1, <3>2, <3>3 DEF Unharmed
  <2> QED BY <2>3, <2>4, <2>5 DEF SnapInv
<1>6. CASE ~Complete
  <2>1. mode' = "up" /\ index' = index /\ ids' = ids /\ store' = store /\ acked' = store
    BY <1>6 DEF Start
  <2>2. NoMemory' /\ RowsBacked'
    BY <1>1, <2>1 DEF NoMemory, RowsBacked, Stored
  <2>3. SnapTyped'
    BY <1>1, <2>1 DEF SnapInv, SnapTyped, SnapTypeOK, TypeOK
  <2>4. Ordered' /\ ObjectsKept'
    BY <1>1, <1>2, <1>3, <1>6, <2>1 DEF Ordered, ObjectsKept, NoMemory
  <2>5. Unharmed'
    BY <1>1, <1>2, <1>6, <2>1, <2>2 DEF SnapInv, Unharmed
  <2> QED BY <2>3, <2>4, <2>5 DEF SnapInv
<1> QED BY <1>4, <1>5, <1>6

LEMMA SnapInitInv == SnapInit => SnapInv
<1> SUFFICES ASSUME SnapInit PROVE SnapInv
  OBVIOUS
<1>1. /\ NoMemory /\ flush = 0 /\ mode = "up" /\ kills = 0 /\ acked = store /\ tried = store
      /\ disk = [f \in Files |-> None] /\ 1 \in Files /\ 2 \in Files /\ 3 \in Files /\ 4 \in Files
  BY DEF SnapInit, Init, NoMemory, Files
<1>2. TypeOK
  BY DEF SnapInit, Init, TypeOK, Results
<1>3. ~Complete
  BY <1>1 DEF Complete
<1>4. SnapTyped
  BY <1>1, <1>2, SnapshotConstants DEF SnapTyped, SnapTypeOK, NoMemory
<1>5. Ordered
  <2>1. \A f \in Files : ~(f < 0)
    BY DEF Files
  <2> QED BY <1>1, <2>1 DEF Ordered
<1>6. ObjectsKept
  BY <1>1, <1>3 DEF ObjectsKept, NoMemory
<1>7. Unharmed
  <2>1. RowsBacked
    BY <1>1 DEF NoMemory, RowsBacked, Stored
  <2> QED BY <1>1, <1>3, <2>1, SnapshotConstants DEF Unharmed
<1> QED BY <1>4, <1>5, <1>6, <1>7 DEF SnapInv

\* The invariant holds whenever processes are started, stopped or killed.
THEOREM SnapInvariant == CrashSpec => []SnapInv
<1>1. SnapInv /\ [Calls \/ OrderlyStop \/ Kill]_snapVars => SnapInv'
  <2> SUFFICES ASSUME SnapInv, [Calls \/ OrderlyStop \/ Kill]_snapVars PROVE SnapInv'
    OBVIOUS
  <2>1. CASE SnapGc
    BY <2>1, FlushStep DEF SnapGc, CoreNext
  <2>2. CASE SnapClear
    BY <2>2, FlushStep DEF SnapClear, CoreNext
  <2>3. CASE OrderlyStop
    BY <2>3, StopStep DEF OrderlyStop, Ready
  <2>4. CASE Kill
    BY <2>4, StopStep DEF Kill
  <2>5. CASE UNCHANGED snapVars
    <3>1. /\ index' = index /\ ids' = ids /\ store' = store /\ sigs' = sigs
          /\ sigIndex' = sigIndex /\ result' = result /\ disk' = disk /\ flush' = flush
          /\ mode' = mode /\ kills' = kills /\ acked' = acked /\ tried' = tried
      BY <2>5 DEF snapVars, ghosts
    <3>2. /\ NoMemory' <=> NoMemory
          /\ Complete' <=> Complete
          /\ Ready' <=> Ready
          /\ RowsBacked' <=> RowsBacked
          /\ DiskBacked' <=> DiskBacked
      BY <3>1 DEF NoMemory, Complete, Ready, RowsBacked, DiskBacked, Stored
    <3>3. \A f \in Files : Image(f)' = Image(f)
      BY <3>1 DEF Image
    <3>4. SnapTyped'
      BY <3>1 DEF SnapInv, SnapTyped, SnapTypeOK, TypeOK
    <3>5. Ordered' /\ ObjectsKept' /\ Unharmed'
      BY <3>1, <3>2, <3>3 DEF SnapInv, Ordered, ObjectsKept, Unharmed
    <3> QED BY <3>4, <3>5 DEF SnapInv
  <2> QED BY <2>1, <2>2, <2>3, <2>4, <2>5, SaveStep, AbortStep, TruncateStep, FillStep, StartStep
          DEF Calls
<1> QED BY <1>1, SnapInitInv, PTL DEF CrashSpec

\* Memory and files keep their types: what PersistentVectorRepo loads is of
\* the type of what it saved.
THEOREM SnapTypeCorrect == CrashSpec => []SnapTypeOK
<1>1. SnapInv => SnapTypeOK
  BY DEF SnapInv, SnapTyped
<1> QED BY <1>1, SnapInvariant, PTL

\* Without kills a restart finds files that belong together
\* (persistent_vector_repo.py:57-68), for any calls and any number of restarts.
THEOREM SnapshotAlwaysBacked == CrashSpec => []SnapshotBacked
<1>1. SnapInv => SnapshotBacked
  <2> SUFFICES ASSUME SnapInv, kills = 0, flush = 0, Complete PROVE SnapshotBacked
    BY DEF SnapshotBacked
  <2>1. DiskBacked /\ \A f \in Files : f # 0
    BY DEF SnapInv, Unharmed, Files
  <2> QED BY <2>1 DEF SnapInv, Unharmed, SnapshotBacked, DiskBacked
<1> QED BY <1>1, SnapInvariant, PTL

\* Without kills what a call has acknowledged is on disk
\* (persistent_vector_repo.py:23-46), refused and failed calls included.
THEOREM AcknowledgedIsOnDisk == CrashSpec => []DiskIsMemory
<1>1. SnapInv => DiskIsMemory
  <2> SUFFICES ASSUME SnapInv, kills = 0, Ready PROVE Recovered = <<index, ids, store>>
    BY DEF DiskIsMemory
  <2>1. IF Complete THEN \A f \in Files : disk[f] = Image(f) ELSE NoMemory
    BY DEF SnapInv, Unharmed
  <2>2. CASE Complete
    BY <2>1, <2>2, ImageIs DEF Recovered, Files, SnapInv, SnapTyped, SnapTypeOK
  <2>3. CASE ~Complete
    BY <2>1, <2>3 DEF Recovered, NoMemory
  <2> QED BY <2>2, <2>3
<1> QED BY <1>1, SnapInvariant, PTL

\* Whatever was killed, and however often, a process that can start finds the
\* objects of the last call that returned or of the one that was writing.
THEOREM KillsCostOneCall == CrashSpec => []KillCostsOneCall
<1>1. SnapInv => KillCostsOneCall
  BY DEF SnapInv, ObjectsKept, KillCostsOneCall, Recovered, Files
<1> QED BY <1>1, SnapInvariant, PTL
==============================================================================
