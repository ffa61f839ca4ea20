-------------------------- MODULE LocalFilesProofs --------------------------
(***************************************************************************)
(* For any number of processes and of records: an undisturbed file holds   *)
(* what the calls that returned left, and facts on disk keep their         *)
(* successors.                                                             *)
(*                                                                         *)
(* Intact(k) is the strengthening.  It speaks of the process that writes   *)
(* the file as well: it is alone with a copy of it, the file is empty, and *)
(* its copy is what the calls left, after the call it is at.  Linked says  *)
(* of truth what SuccessorKept says of the disk; it holds disturbed or not.*)
(***************************************************************************)
EXTENDS LocalFiles, TLAPS

\* A command is at work exactly while calls are left; a fact closed in favour of
\* another is followed by the call that saves that one; a fact being removed is
\* counted as dropped; loading begins with the first file.
Orderly ==
  \A p \in Processes :
    /\ pc[p] \in {"apply", "write"} <=> todo[p] # <<>>
    /\ \A n \in DOMAIN todo[p] : todo[p][n].to \in Ids =>
         \E m \in DOMAIN todo[p] :
           m > n /\ todo[p][m].kind = "facts" /\ todo[p][n].to \in todo[p][m].ids
    /\ pc[p] = "write" => Dropped(Current(p)) \subseteq dropped
    /\ pc[p] # "load" => at[p] = 1

\* The writer of the file is alone with it.
WriterAlone(k) ==
  \A p \in Processes : Writing(p, k) =>
    /\ disk[k] = Void
    /\ memory[p][k] = Result(truth[k], Current(p))
    /\ \A q \in Processes \ {p} : ~Loaded(q, k)

FileTold(k) == (\A p \in Processes : ~Writing(p, k)) => Content(k) = truth[k]
CopyTold(k) == \A p \in Processes : Loaded(p, k) /\ ~Writing(p, k) => memory[p][k] = truth[k]

Intact(k) == k \notin disturbed => WriterAlone(k) /\ FileTold(k) /\ CopyTold(k)

Pending(p, j) ==
  \E n \in DOMAIN todo[p] : todo[p][n].kind = "facts" /\ j \in todo[p][n].ids

Linked ==
  \A i \in Ids : truth["facts"][i] \in Ids =>
    \/ truth["facts"][truth["facts"][i]] # Absent
    \/ truth["facts"][i] \in dropped
    \/ \E p \in Processes : Pending(p, truth["facts"][i])

IInv == TypeOK /\ Orderly /\ (\A k \in Kinds : Intact(k)) /\ Linked

-------------------------------------------------------------------------------
LEMMA KindFacts ==
  /\ "facts" \in Kinds
  /\ \A n \in DOMAIN Files : Files[n] \in Kinds
  /\ DOMAIN Files = 1..Len(Files) /\ Len(Files) \in Nat \ {0}
  /\ Absent \notin Ids /\ Open \notin Ids /\ Absent # Open
  /\ Void \notin Maps /\ Torn \notin Maps
BY FileConstants DEF Kinds, Records

LEMMA ResultType ==
  ASSUME NEW map \in Maps, NEW w \in Writes
  PROVE  Result(map, w) \in Maps
BY DEF Result, Maps, Writes

\* The calls of a command are well formed, and a closed fact's successor is
\* saved by a later one.
LEMMA CommandTypes ==
  /\ \A k \in Kinds, i \in Ids : <<Set(k, {i}, Open)>> \in Seq(Writes)
  /\ \A i, j \in Ids : <<Set("facts", {i}, j), Set("facts", {j}, Open)>> \in Seq(Writes)
  /\ \A ids \in SUBSET Ids : <<Set("facts", ids, Absent)>> \in Seq(Writes)
  /\ <<Set("facts", {}, Open)>> \in Seq(Writes)
  /\ \A l \in DOMAIN Files : \A chosen \in [1..l -> DOMAIN Files] :
       LET ws == [n \in DOMAIN chosen |-> Set(Files[chosen[n]], Ids, Absent)]
       IN  ws \in Seq(Writes) /\ ws # <<>> /\ \A n \in DOMAIN ws : ws[n].to = Absent
<1>1. \A k \in Kinds, ids \in SUBSET Ids, to \in Records \cup {Absent} : Set(k, ids, to) \in Writes
  BY DEF Set, Writes
<1>2. ASSUME NEW l \in DOMAIN Files, NEW chosen \in [1..l -> DOMAIN Files]
      PROVE  LET ws == [n \in DOMAIN chosen |-> Set(Files[chosen[n]], Ids, Absent)]
             IN  ws \in Seq(Writes) /\ ws # <<>> /\ \A n \in DOMAIN ws : ws[n].to = Absent
  <2> DEFINE ws == [n \in DOMAIN chosen |-> Set(Files[chosen[n]], Ids, Absent)]
  <2>1. l \in Nat \ {0} /\ DOMAIN chosen = 1..l
    BY KindFacts
  <2>2. ASSUME NEW n \in 1..l PROVE Files[chosen[n]] \in Kinds
    BY KindFacts DEF Kinds
  <2>3. ws \in [1..l -> Writes] /\ \A n \in 1..l : ws[n].to = Absent
    BY <1>1, <2>1, <2>2 DEF Set
  <2> HIDE DEF ws
  <2>4. ws \in Seq(Writes) /\ Len(ws) = l
    BY <2>1, <2>3
  <2>5. ws # <<>> /\ DOMAIN ws = 1..l
    BY <2>1, <2>4
  <2> QED BY <2>3, <2>4, <2>5 DEF ws
<1> QED BY <1>1, <1>2, KindFacts DEF Records

LEMMA InitInv == Init => IInv
<1> SUFFICES ASSUME Init PROVE IInv
  OBVIOUS
<1>1. TypeOK
  BY KindFacts DEF Init, TypeOK, NoRecords, Maps, Records
<1>2. Orderly
  BY DEF Init, Orderly
<1>3. ASSUME NEW k \in Kinds PROVE Intact(k)
  BY DEF Init, Intact, WriterAlone, FileTold, CopyTold, Writing, Loaded, Content
<1>4. Linked
  BY KindFacts DEF Init, Linked, NoRecords
<1> QED BY <1>1, <1>2, <1>3, <1>4 DEF IInv

-------------------------------------------------------------------------------
(* Starting, loading and being given a command change neither truth nor disk.  *)

LEMMA StartStep ==
  ASSUME IInv, NEW p \in Processes, Start(p)
  PROVE  IInv'
<1> USE DEF IInv
<1>1. TypeOK'
  BY DEF TypeOK, Start
<1>2. Orderly'
  BY DEF TypeOK, Orderly, Start, Current
<1>3. \A q \in Processes, k \in Kinds : (Loaded(q, k)' => Loaded(q, k)) /\ (Writing(q, k)' <=> Writing(q, k))
  <2>1. ASSUME NEW k \in Kinds PROVE (Loaded(p, k)' => Loaded(p, k)) /\ (Writing(p, k)' <=> Writing(p, k))
    <3>1. at[p] = 1 /\ at' = at /\ pc[p] = "down" /\ pc'[p] = "load"
      BY DEF TypeOK, Orderly, Start
    <3>2. ~Writing(p, k) /\ ~Writing(p, k)' /\ ~Loaded(p, k)'
      BY <3>1 DEF Writing, Loaded
    <3> QED BY <3>2
  <2> QED BY <2>1 DEF TypeOK, Start, Loaded, Writing, Current
<1>4. ASSUME NEW k \in Kinds PROVE Intact(k)'
  <2>1. Intact(k)
    OBVIOUS
  <2> QED BY <1>3, <2>1 DEF Intact, WriterAlone, FileTold, CopyTold, Content, Result, Current, Start
<1>5. Linked'
  BY DEF Linked, Pending, Start
<1> QED BY <1>1, <1>2, <1>4, <1>5

LEMMA LoadTornStep ==
  ASSUME IInv, NEW p \in Processes, LoadTorn(p)
  PROVE  IInv'
<1> USE DEF IInv
<1>1. TypeOK'
  BY KindFacts DEF TypeOK, LoadTorn, NoRecords, Maps
<1>2. Orderly'
  BY DEF TypeOK, Orderly, LoadTorn, Current
<1>3. \A q \in Processes, k \in Kinds : (Loaded(q, k)' => q # p /\ Loaded(q, k)) /\ (Writing(q, k)' <=> q # p /\ Writing(q, k))
  BY KindFacts DEF TypeOK, LoadTorn, Loaded, Writing, Current
<1>4. ASSUME NEW k \in Kinds PROVE Intact(k)'
  <2>1. Intact(k) /\ ~Writing(p, k)
    BY DEF LoadTorn, Writing
  <2>2. \A q \in Processes : q # p => memory'[q] = memory[q]
    BY DEF TypeOK, LoadTorn
  <2> QED BY <1>3, <2>1, <2>2 DEF Intact, WriterAlone, FileTold, CopyTold, Content, Result, Current, LoadTorn
<1>5. Linked'
  BY DEF Linked, Pending, LoadTorn
<1> QED BY <1>1, <1>2, <1>4, <1>5

LEMMA LoadStep ==
  ASSUME IInv, NEW p \in Processes, Load(p)
  PROVE  IInv'
<1> USE DEF IInv
<1> DEFINE f == Files[at[p]]
<1>0. f \in Kinds /\ at[p] \in 1..Len(Files) /\ disk[f] \in Maps \cup {Void} /\ pc[p] = "load"
  BY KindFacts DEF TypeOK, Load
<1>1. TypeOK'
  <2>1. memory' \in [Processes -> [Kinds -> Maps]]
    BY <1>0 DEF TypeOK, Load, NoRecords, Maps
  <2>2. pc' \in [Processes -> {"down", "load", "idle", "apply", "write"}] /\ at' \in [Processes -> DOMAIN Files]
    <3>1. CASE at[p] < Len(Files)
      <4>1. at[p] + 1 \in DOMAIN Files
        BY <1>0, <3>1, KindFacts
      <4> QED BY <3>1, <4>1 DEF TypeOK, Load
    <3>2. CASE ~(at[p] < Len(Files))
      <4>1. 1 \in DOMAIN Files
        BY KindFacts
      <4>2. pc' = [pc EXCEPT ![p] = "idle"] /\ at' = [at EXCEPT ![p] = 1]
        BY <3>2 DEF Load
      <4> QED BY <4>1, <4>2 DEF TypeOK
    <3> QED BY <3>1, <3>2
  <2>3. disturbed' \subseteq Kinds
    BY <1>0 DEF TypeOK, Load, LoadDisturbs
  <2> QED BY <2>1, <2>2, <2>3 DEF TypeOK, Load
<1>2. Orderly'
  <2>1. ASSUME NEW q \in Processes
        PROVE  \/ pc'[q] = pc[q] /\ (pc[q] # "load" => at'[q] = at[q])
               \/ pc[q] = "load" /\ pc'[q] = "idle" /\ at'[q] = 1
    BY DEF TypeOK, Load
  <2>2. todo' = todo /\ dropped' = dropped
    BY DEF Load
  <2> QED BY <2>1, <2>2 DEF Orderly, Current, Dropped
<1>3. \A q \in Processes, k \in Kinds :
        (Loaded(q, k)' => Loaded(q, k) \/ (q = p /\ k = f)) /\ (Writing(q, k)' <=> Writing(q, k))
  <2>1. ASSUME NEW k \in Kinds, Loaded(p, k)' PROVE Loaded(p, k) \/ k = f
    <3>1. CASE at[p] < Len(Files)
      BY <1>0, <2>1, <3>1 DEF TypeOK, Load, Loaded
    <3>2. CASE at[p] = Len(Files)
      BY <1>0, <2>1, <3>2, KindFacts DEF TypeOK, Load, Loaded, Kinds
    <3> QED BY <1>0, <3>1, <3>2, KindFacts
  <2>2. \A q \in Processes \ {p} : pc'[q] = pc[q] /\ at'[q] = at[q]
    BY DEF TypeOK, Load
  <2>3. pc'[p] # "write" /\ todo' = todo
    BY DEF TypeOK, Load
  <2> QED BY <1>0, <2>1, <2>2, <2>3 DEF Loaded, Writing, Current
<1>4. ASSUME NEW k \in Kinds PROVE Intact(k)'
  <2>1. Intact(k) /\ ~Writing(p, k)
    BY <1>0 DEF Writing
  <2>2. SUFFICES ASSUME k \notin disturbed' PROVE WriterAlone(k)' /\ FileTold(k)' /\ CopyTold(k)'
    BY DEF Intact
  <2>3. k \notin disturbed /\ (k = f => \A q \in Processes : ~Writing(q, k))
    BY <1>0, <2>2 DEF Load, LoadDisturbs, TypeOK
  <2>4. WriterAlone(k) /\ FileTold(k) /\ CopyTold(k)
    BY <2>1, <2>3 DEF Intact
  <2>5. \A q \in Processes : (q # p \/ k # f) => memory'[q][k] = memory[q][k]
    BY <1>0 DEF TypeOK, Load
  <2>6. disk' = disk /\ truth' = truth /\ todo' = todo
    BY DEF Load
  <2>7. WriterAlone(k)'
    BY <1>3, <2>1, <2>3, <2>4, <2>5, <2>6 DEF WriterAlone, Current, Result
  <2>8. FileTold(k)'
    BY <1>3, <2>4, <2>6 DEF FileTold, Content
  <2>9. CopyTold(k)'
    <3>1. k = f => memory'[p][k] = Content(k)
      BY <1>0 DEF TypeOK, Load, Content
    <3>2. k = f => Content(k) = truth[k]
      BY <2>3, <2>4 DEF FileTold
    <3> QED BY <1>3, <2>4, <2>5, <2>6, <3>1, <3>2 DEF CopyTold
  <2> QED BY <2>7, <2>8, <2>9
<1>5. Linked'
  BY DEF Linked, Pending, Load
<1> QED BY <1>1, <1>2, <1>4, <1>5

LEMMA CallStep ==
  ASSUME IInv, NEW p \in Processes, NEW ws \in Seq(Writes), ws # <<>>, Call(p, ws),
         \A n \in DOMAIN ws : ws[n].to \in Ids =>
           \E m \in DOMAIN ws : m > n /\ ws[m].kind = "facts" /\ ws[n].to \in ws[m].ids
  PROVE  IInv'
<1> USE DEF IInv
<1>1. TypeOK'
  BY DEF TypeOK, Call
<1>2. Orderly'
  <2>1. \A q \in Processes \ {p} : pc'[q] = pc[q] /\ todo'[q] = todo[q]
    BY DEF TypeOK, Call
  <2>2. pc[p] = "idle" /\ pc'[p] = "apply" /\ todo'[p] = ws /\ dropped' = dropped /\ at' = at
    BY DEF TypeOK, Call
  <2>3. ASSUME NEW q \in Processes, q # p
        PROVE  Current(q)' = Current(q) /\ (pc'[q] = "write" => Dropped(Current(q))' \subseteq dropped')
    BY <2>1, <2>2, <2>3 DEF Orderly, Current, Dropped
  <2> QED BY <2>1, <2>2, <2>3 DEF Orderly
<1>3. \A q \in Processes, k \in Kinds : (Loaded(q, k)' <=> Loaded(q, k)) /\ (Writing(q, k)' <=> Writing(q, k))
  BY DEF TypeOK, Call, Loaded, Writing, Current
<1>4. ASSUME NEW k \in Kinds PROVE Intact(k)'
  <2>1. Intact(k) /\ ~Writing(p, k)
    BY DEF Call, Writing
  <2>2. \A q \in Processes : q # p => Current(q)' = Current(q)
    BY DEF TypeOK, Call, Current
  <2> QED BY <1>3, <2>1, <2>2 DEF Intact, WriterAlone, FileTold, CopyTold, Content, Result, Call
<1>5. Linked'
  <2>1. \A q \in Processes \ {p} : todo'[q] = todo[q]
    BY DEF TypeOK, Call
  <2>2. todo[p] = <<>>
    BY DEF Orderly, Call
  <2>3. \A q \in Processes, j \in Ids : Pending(q, j) => Pending(q, j)'
    BY <2>1, <2>2 DEF Pending
  <2> QED BY <2>3 DEF Linked, Call
<1> QED BY <1>1, <1>2, <1>4, <1>5

-------------------------------------------------------------------------------
(* A call at work on the files.                                               *)

LEMMA ApplyStep ==
  ASSUME IInv, NEW p \in Processes, Apply(p)
  PROVE  IInv'
<1> USE DEF IInv
<1> DEFINE w == Current(p)
<1>0. /\ pc[p] = "apply" /\ pc'[p] = "write" /\ todo' = todo /\ at' = at /\ truth' = truth
      /\ todo[p] # <<>> /\ todo[p] \in Seq(Writes) /\ w \in Writes
      /\ w' = w
  <2>1. pc[p] = "apply" /\ pc'[p] = "write" /\ todo' = todo /\ at' = at /\ truth' = truth
    BY DEF TypeOK, Apply
  <2>2. todo[p] # <<>> /\ todo[p] \in Seq(Writes)
    BY <2>1 DEF TypeOK, Orderly
  <2> QED BY <2>1, <2>2 DEF Current
<1>a. w.kind \in Kinds /\ w.ids \subseteq Ids /\ w.to \in Records \cup {Absent}
  BY <1>0 DEF Writes
<1>1. TypeOK'
  <2>1. memory' \in [Processes -> [Kinds -> Maps]]
    <3>1. Result(memory[p][w.kind], w) \in Maps
      BY <1>0, <1>a, ResultType DEF TypeOK
    <3> QED BY <1>a, <3>1 DEF TypeOK, Apply
  <2>2. disk' \in [Kinds -> Maps \cup {Void, Torn}] /\ disturbed' \subseteq Kinds
    BY <1>a DEF TypeOK, Apply
  <2>3. dropped' \subseteq Ids
    BY <1>a DEF TypeOK, Apply, Dropped
  <2> QED BY <1>0, <2>1, <2>2, <2>3 DEF TypeOK, Apply
<1>b. \A q \in Processes : q # p => pc'[q] = pc[q] /\ Current(q)' = Current(q)
  BY <1>0 DEF TypeOK, Apply, Current
<1>2. Orderly'
  <2>1. Dropped(w) \subseteq dropped' /\ dropped \subseteq dropped'
    BY DEF Apply
  <2>2. ASSUME NEW q \in Processes, pc'[q] = "write" PROVE Dropped(Current(q))' \subseteq dropped'
    <3>1. CASE q = p
      BY <1>0, <2>1, <3>1 DEF Dropped
    <3>2. CASE q # p
      BY <1>b, <2>1, <2>2, <3>2 DEF Orderly, Dropped
    <3> QED BY <3>1, <3>2
  <2>3. \A q \in Processes : (pc'[q] \in {"apply", "write"} <=> pc[q] \in {"apply", "write"})
                             /\ (pc'[q] # "load" => pc[q] # "load")
    BY <1>0, <1>b
  <2> QED BY <1>0, <2>2, <2>3 DEF Orderly
<1>3. \A q \in Processes, k \in Kinds :
        /\ Loaded(q, k)' <=> Loaded(q, k)
        /\ Writing(q, k)' <=> IF q = p THEN k = w.kind ELSE Writing(q, k)
  BY <1>0, <1>b DEF Loaded, Writing
<1>4. ASSUME NEW k \in Kinds PROVE Intact(k)'
  <2>1. SUFFICES ASSUME k \notin disturbed' PROVE WriterAlone(k)' /\ FileTold(k)' /\ CopyTold(k)'
    BY DEF Intact
  <2>2. k \notin disturbed /\ (k = w.kind => \A q \in Processes \ {p} : ~Loaded(q, k))
    BY <2>1 DEF Apply
  <2>3. WriterAlone(k) /\ FileTold(k) /\ CopyTold(k)
    BY <2>2 DEF Intact
  <2>4. CASE k # w.kind
    <3>1. disk'[k] = disk[k] /\ \A q \in Processes : memory'[q][k] = memory[q][k]
      BY <2>4, <1>a DEF TypeOK, Apply
    <3>2. \A q \in Processes : (Writing(q, k)' <=> Writing(q, k)) /\ Current(q)' = Current(q)
      BY <1>0, <1>3, <1>b, <2>4 DEF Writing
    <3>3. WriterAlone(k)'
      BY <1>0, <1>3, <2>3, <3>1, <3>2 DEF WriterAlone, Result
    <3>4. FileTold(k)' /\ CopyTold(k)'
      BY <1>0, <1>3, <2>3, <3>1, <3>2 DEF FileTold, CopyTold, Content
    <3> QED BY <3>3, <3>4
  <2>5. CASE k = w.kind
    <3>1. disk'[k] = Void /\ memory'[p][k] = Result(memory[p][k], w)
      BY <2>5, <1>a DEF TypeOK, Apply
    <3>2. memory[p][k] = truth[k]
      BY <1>0, <2>3 DEF CopyTold, Loaded, Writing
    <3>3. \A q \in Processes : (Writing(q, k)' <=> q = p) /\ (Loaded(q, k)' => q = p)
      BY <1>3, <2>2, <2>5 DEF Writing, Loaded
    <3>4. WriterAlone(k)'
      BY <1>0, <3>1, <3>2, <3>3 DEF WriterAlone, Result
    <3>5. FileTold(k)' /\ CopyTold(k)'
      BY <3>3 DEF FileTold, CopyTold
    <3> QED BY <3>4, <3>5
  <2> QED BY <2>4, <2>5
<1>5. Linked'
  <2>1. dropped \subseteq dropped'
    BY DEF Apply
  <2> QED BY <1>0, <2>1 DEF Linked, Pending
<1> QED BY <1>1, <1>2, <1>4, <1>5

\* What is left of a well formed command after its first call.
LEMMA TailOrdered ==
  ASSUME NEW ws \in Seq(Writes), ws # <<>>,
         \A n \in DOMAIN ws : ws[n].to \in Ids =>
           \E m \in DOMAIN ws : m > n /\ ws[m].kind = "facts" /\ ws[n].to \in ws[m].ids
  PROVE  /\ \A n \in DOMAIN Tail(ws) : Tail(ws)[n].to \in Ids =>
              \E m \in DOMAIN Tail(ws) :
                m > n /\ Tail(ws)[m].kind = "facts" /\ Tail(ws)[n].to \in Tail(ws)[m].ids
         /\ \A m \in DOMAIN ws : m = 1 \/ \E n \in DOMAIN Tail(ws) : Tail(ws)[n] = ws[m]
         /\ Head(ws).to \in Ids =>
              \E n \in DOMAIN Tail(ws) : Tail(ws)[n].kind = "facts" /\ Head(ws).to \in Tail(ws)[n].ids
         /\ Tail(ws) \in Seq(Writes)
         /\ Tail(ws) = <<>> <=> Len(ws) = 1
<1>1. /\ Tail(ws) \in Seq(Writes) /\ Len(ws) \in Nat \ {0} /\ Len(Tail(ws)) = Len(ws) - 1
      /\ DOMAIN ws = 1..Len(ws) /\ DOMAIN Tail(ws) = 1..(Len(ws) - 1)
      /\ \A n \in DOMAIN Tail(ws) : Tail(ws)[n] = ws[n + 1]
  OBVIOUS
<1>2. ASSUME NEW m \in DOMAIN ws, m # 1 PROVE m - 1 \in DOMAIN Tail(ws) /\ Tail(ws)[m - 1] = ws[m]
  BY <1>1, <1>2
<1>3. ASSUME NEW n \in DOMAIN Tail(ws), Tail(ws)[n].to \in Ids
      PROVE  \E m \in DOMAIN Tail(ws) :
               m > n /\ Tail(ws)[m].kind = "facts" /\ Tail(ws)[n].to \in Tail(ws)[m].ids
  <2>1. n \in Nat /\ n >= 1 /\ n + 1 \in DOMAIN ws /\ Tail(ws)[n] = ws[n + 1]
    BY <1>1
  <2>2. PICK m \in DOMAIN ws : m > n + 1 /\ ws[m].kind = "facts" /\ ws[n + 1].to \in ws[m].ids
    BY <1>3, <2>1
  <2>3. m \in Nat /\ m # 1 /\ m - 1 > n
    BY <1>1, <2>1, <2>2
  <2> QED BY <1>2, <2>1, <2>2, <2>3
<1>4. ASSUME Head(ws).to \in Ids
      PROVE  \E n \in DOMAIN Tail(ws) : Tail(ws)[n].kind = "facts" /\ Head(ws).to \in Tail(ws)[n].ids
  <2>1. 1 \in DOMAIN ws /\ Head(ws) = ws[1]
    BY <1>1
  <2>2. PICK m \in DOMAIN ws : m > 1 /\ ws[m].kind = "facts" /\ ws[1].to \in ws[m].ids
    BY <1>4, <2>1
  <2>3. m # 1
    BY <1>1, <2>2
  <2> QED BY <1>2, <2>1, <2>2, <2>3
<1>5. Tail(ws) = <<>> <=> Len(ws) = 1
  BY <1>1
<1> QED BY <1>1, <1>2, <1>3, <1>4, <1>5

LEMMA FinishStep ==
  ASSUME IInv, NEW p \in Processes, Finish(p)
  PROVE  IInv'
<1> USE DEF IInv
<1> DEFINE w == Current(p)
<1>0. /\ pc[p] = "write" /\ todo[p] \in Seq(Writes) /\ todo[p] # <<>> /\ w \in Writes
      /\ todo' = [todo EXCEPT ![p] = Tail(@)] /\ memory' = memory /\ at' = at
      /\ disturbed' = disturbed /\ dropped' = dropped
      /\ pc'[p] = (IF Len(todo[p]) = 1 THEN "idle" ELSE "apply")
      /\ todo'[p] = Tail(todo[p])
      /\ truth' = [truth EXCEPT ![w.kind] = Result(@, w)]
  <2>1. pc[p] = "write" /\ todo[p] \in Seq(Writes) /\ todo[p] # <<>>
    BY DEF TypeOK, Orderly, Finish
  <2> QED BY <2>1 DEF TypeOK, Finish, Current
<1>a. w.kind \in Kinds /\ w.ids \subseteq Ids /\ w.to \in Records \cup {Absent}
  BY <1>0 DEF Writes
<1>b. \A q \in Processes : q # p => pc'[q] = pc[q] /\ todo'[q] = todo[q] /\ Current(q)' = Current(q)
  BY DEF TypeOK, Finish, Current
<1>c. /\ \A n \in DOMAIN todo[p] : todo[p][n].to \in Ids =>
           \E m \in DOMAIN todo[p] :
             m > n /\ todo[p][m].kind = "facts" /\ todo[p][n].to \in todo[p][m].ids
      /\ Dropped(w) \subseteq dropped
  BY <1>0 DEF Orderly
<1>1. TypeOK'
  <2>1. truth' \in [Kinds -> Maps]
    <3>1. Result(truth[w.kind], w) \in Maps
      BY <1>0, <1>a, ResultType DEF TypeOK
    <3> QED BY <1>0, <1>a, <3>1 DEF TypeOK
  <2>2. disk' \in [Kinds -> Maps \cup {Void, Torn}]
    <3>1. memory[p][w.kind] \in Maps \cup {Void, Torn} /\ disk \in [Kinds -> Maps \cup {Void, Torn}]
      BY <1>a DEF TypeOK
    <3>2. disk' = [disk EXCEPT ![w.kind] = memory[p][w.kind]] \/ disk' = [disk EXCEPT ![w.kind] = Torn]
      BY DEF Finish
    <3> QED BY <1>a, <3>1, <3>2
  <2>3. todo' \in [Processes -> Seq(Writes)]
    BY <1>0, <1>c, TailOrdered DEF TypeOK
  <2>4. pc' \in [Processes -> {"down", "load", "idle", "apply", "write"}]
    BY DEF TypeOK, Finish
  <2> QED BY <1>0, <2>1, <2>2, <2>3, <2>4 DEF TypeOK
<1>2. Orderly'
  <2>1. ASSUME NEW q \in Processes, q # p PROVE Dropped(Current(q))' = Dropped(Current(q))
    BY <1>b, <2>1 DEF Dropped
  <2>2. ASSUME NEW q \in Processes, q # p
        PROVE  /\ pc'[q] \in {"apply", "write"} <=> todo'[q] # <<>>
               /\ \A n \in DOMAIN todo'[q] : todo'[q][n].to \in Ids =>
                    \E m \in DOMAIN todo'[q] :
                      m > n /\ todo'[q][m].kind = "facts" /\ todo'[q][n].to \in todo'[q][m].ids
               /\ pc'[q] = "write" => Dropped(Current(q))' \subseteq dropped'
               /\ pc'[q] # "load" => at'[q] = 1
    BY <1>0, <1>b, <2>1, <2>2 DEF Orderly
  <2>3. /\ pc'[p] \in {"apply", "write"} <=> todo'[p] # <<>>
        /\ \A n \in DOMAIN todo'[p] : todo'[p][n].to \in Ids =>
             \E m \in DOMAIN todo'[p] :
               m > n /\ todo'[p][m].kind = "facts" /\ todo'[p][n].to \in todo'[p][m].ids
        /\ pc'[p] # "write" /\ at'[p] = 1
    <3>1. /\ \A n \in DOMAIN Tail(todo[p]) : Tail(todo[p])[n].to \in Ids =>
               \E m \in DOMAIN Tail(todo[p]) :
                 m > n /\ Tail(todo[p])[m].kind = "facts" /\ Tail(todo[p])[n].to \in Tail(todo[p])[m].ids
          /\ Tail(todo[p]) = <<>> <=> Len(todo[p]) = 1
      BY <1>0, <1>c, TailOrdered
    <3>2. pc'[p] \in {"idle", "apply"} /\ (pc'[p] = "idle" <=> Len(todo[p]) = 1) /\ at'[p] = 1
      BY <1>0 DEF Orderly
    <3> QED BY <1>0, <3>1, <3>2
  <2> QED BY <2>2, <2>3 DEF Orderly
<1>3. \A q \in Processes, k \in Kinds :
        /\ Loaded(q, k)' <=> Loaded(q, k)
        /\ Writing(q, k)' <=> q # p /\ Writing(q, k)
  BY <1>0, <1>b DEF Loaded, Writing
<1>4. ASSUME NEW k \in Kinds PROVE Intact(k)'
  <2>1. SUFFICES ASSUME k \notin disturbed PROVE WriterAlone(k)' /\ FileTold(k)' /\ CopyTold(k)'
    BY <1>0 DEF Intact
  <2>2. WriterAlone(k) /\ FileTold(k) /\ CopyTold(k)
    BY <2>1 DEF Intact
  <2>3. CASE k # w.kind
    <3>1. disk'[k] = disk[k] /\ truth'[k] = truth[k]
      BY <1>0, <1>a, <2>3 DEF TypeOK, Finish
    <3>2. \A q \in Processes : Writing(q, k)' <=> Writing(q, k)
      BY <1>0, <1>3, <2>3 DEF Writing
    <3>3. WriterAlone(k)'
      BY <1>0, <1>3, <1>b, <2>2, <3>1, <3>2 DEF WriterAlone, Result
    <3>4. FileTold(k)' /\ CopyTold(k)'
      BY <1>0, <1>3, <2>2, <3>1, <3>2 DEF FileTold, CopyTold, Content
    <3> QED BY <3>3, <3>4
  <2>4. CASE k = w.kind
    <3>1. /\ disk[k] = Void /\ memory[p][k] = Result(truth[k], w)
          /\ \A q \in Processes \ {p} : ~Loaded(q, k)
      BY <1>0, <2>2, <2>4 DEF WriterAlone, Writing
    <3>2. disk'[k] = memory[p][k] /\ truth'[k] = Result(truth[k], w)
      BY <1>0, <1>a, <2>4, <3>1 DEF TypeOK, Finish
    <3>3. memory[p][k] # Void
      BY KindFacts, <1>a, <2>4 DEF TypeOK
    <3>4. \A q \in Processes : ~Writing(q, k)' /\ (Loaded(q, k)' => q = p)
      BY <1>3, <3>1 DEF Writing, Loaded
    <3>5. WriterAlone(k)'
      BY <3>4 DEF WriterAlone
    <3>6. FileTold(k)' /\ CopyTold(k)'
      BY <1>0, <3>1, <3>2, <3>3, <3>4 DEF FileTold, CopyTold, Content
    <3> QED BY <3>5, <3>6
  <2> QED BY <2>3, <2>4
<1>5. Linked'
  <2> SUFFICES ASSUME NEW i \in Ids, NEW j \in Ids, truth'["facts"][i] = j
               PROVE  \/ truth'["facts"][j] # Absent
                      \/ j \in dropped
                      \/ \E q \in Processes : \E n \in DOMAIN todo'[q] :
                           todo'[q][n].kind = "facts" /\ j \in todo'[q][n].ids
    BY <1>0 DEF Linked, Pending
  <2>1. \A x \in Ids : truth'["facts"][x] =
          IF w.kind = "facts" /\ x \in w.ids THEN w.to ELSE truth["facts"][x]
    BY <1>0, KindFacts DEF TypeOK, Result
  <2>2. CASE w.kind = "facts" /\ i \in w.ids
    <3>1. j = w.to /\ Head(todo[p]).to \in Ids /\ w = Head(todo[p])
      BY <2>1, <2>2 DEF Current
    <3>2. \E n \in DOMAIN Tail(todo[p]) : Tail(todo[p])[n].kind = "facts" /\ Head(todo[p]).to \in Tail(todo[p])[n].ids
      BY <1>0, <1>c, <3>1, TailOrdered
    <3>3. \E n \in DOMAIN todo'[p] : todo'[p][n].kind = "facts" /\ j \in todo'[p][n].ids
      BY <1>0, <3>1, <3>2
    <3> QED BY <3>3
  <2>3. CASE ~(w.kind = "facts" /\ i \in w.ids)
    <3>1. truth["facts"][i] = j
      BY <2>1, <2>3
    <3>2. CASE w.kind = "facts" /\ j \in w.ids
      <4>1. truth'["facts"][j] = w.to
        BY <2>1, <3>2
      <4>2. w.to = Absent => j \in dropped
        BY <1>c, <3>2 DEF Dropped
      <4> QED BY <4>1, <4>2
    <3>3. CASE ~(w.kind = "facts" /\ j \in w.ids)
      <4>1. truth'["facts"][j] = truth["facts"][j]
        BY <2>1, <3>3
      <4>2. CASE \E q \in Processes : Pending(q, j)
        <5>1. PICK q \in Processes : Pending(q, j)
          BY <4>2
        <5>2. CASE q # p
          BY <1>b, <5>1, <5>2 DEF Pending
        <5>3. CASE q = p
          <6>1. PICK n \in DOMAIN todo[p] : todo[p][n].kind = "facts" /\ j \in todo[p][n].ids
            BY <5>1, <5>3 DEF Pending
          <6>2. n # 1
            BY <1>0, <3>3, <6>1 DEF Current
          <6>3. \E m \in DOMAIN Tail(todo[p]) : Tail(todo[p])[m] = todo[p][n]
            BY <1>0, <1>c, <6>2, TailOrdered
          <6>4. \E m \in DOMAIN todo'[p] : todo'[p][m].kind = "facts" /\ j \in todo'[p][m].ids
            BY <1>0, <6>1, <6>3
          <6> QED BY <6>4
        <5> QED BY <5>2, <5>3
      <4>3. CASE truth["facts"][j] # Absent \/ j \in dropped
        BY <4>1, <4>3
      <4>4. truth["facts"][i] \in Ids
        BY <3>1
      <4> QED BY <3>1, <4>2, <4>3, <4>4 DEF Linked
    <3> QED BY <3>2, <3>3
  <2> QED BY <2>2, <2>3
<1> QED BY <1>1, <1>2, <1>4, <1>5

LEMMA ExitStep ==
  ASSUME IInv, NEW p \in Processes, Exit(p)
  PROVE  IInv'
<1> USE DEF IInv
<1>0. /\ pc'[p] = "down" /\ todo'[p] = <<>> /\ at'[p] = 1 /\ truth' = truth
      /\ \A q \in Processes : q # p =>
           pc'[q] = pc[q] /\ todo'[q] = todo[q] /\ at'[q] = at[q] /\ memory'[q] = memory[q]
                          /\ Current(q)' = Current(q)
      /\ dropped' = dropped \cup UNION {todo[p][n].ids : n \in DOMAIN todo[p]}
  <2>1. pc'[p] = "down" /\ todo'[p] = <<>> /\ at'[p] = 1 /\ truth' = truth
    BY DEF TypeOK, Exit
  <2>2. dropped' = dropped \cup UNION {todo[p][n].ids : n \in DOMAIN todo[p]}
    BY DEF Exit
  <2>3. \A q \in Processes : q # p =>
           pc'[q] = pc[q] /\ todo'[q] = todo[q] /\ at'[q] = at[q] /\ memory'[q] = memory[q]
    BY DEF TypeOK, Exit
  <2> QED BY <2>1, <2>2, <2>3 DEF Current
<1>a. ASSUME pc[p] = "write" PROVE Current(p) \in Writes
  BY <1>a DEF TypeOK, Orderly, Current
<1>1. TypeOK'
  <2>1. memory' \in [Processes -> [Kinds -> Maps]]
    BY DEF TypeOK, Exit, NoRecords, Maps
  <2>2. disk' \in [Kinds -> Maps \cup {Void, Torn}] /\ disturbed' \subseteq Kinds
    <3>1. CASE pc[p] = "write"
      <4>1. Current(p).kind \in Kinds
        BY <1>a, <3>1 DEF Writes
      <4> QED BY <3>1, <4>1 DEF TypeOK, Exit
    <3>2. CASE pc[p] # "write"
      BY <3>2 DEF TypeOK, Exit
    <3> QED BY <3>1, <3>2
  <2>3. dropped' \subseteq Ids
    <3>1. \A n \in DOMAIN todo[p] : todo[p][n] \in Writes
      BY DEF TypeOK
    <3> QED BY <1>0, <3>1 DEF TypeOK, Writes
  <2>4. /\ pc' \in [Processes -> {"down", "load", "idle", "apply", "write"}]
        /\ todo' \in [Processes -> Seq(Writes)]
    BY DEF TypeOK, Exit
  <2>5. at' \in [Processes -> DOMAIN Files]
    BY KindFacts DEF TypeOK, Exit
  <2> QED BY <1>0, <2>1, <2>2, <2>3, <2>4, <2>5 DEF TypeOK
<1>2. Orderly'
  <2>1. dropped \subseteq dropped'
    BY <1>0
  <2>2. ASSUME NEW q \in Processes, q # p PROVE Dropped(Current(q))' = Dropped(Current(q))
    BY <1>0, <2>2 DEF Dropped
  <2> QED BY <1>0, <2>1, <2>2 DEF Orderly
<1>3. \A q \in Processes, k \in Kinds :
        (Loaded(q, k)' <=> q # p /\ Loaded(q, k)) /\ (Writing(q, k)' <=> q # p /\ Writing(q, k))
  BY <1>0 DEF Loaded, Writing
<1>4. ASSUME NEW k \in Kinds PROVE Intact(k)'
  <2>1. SUFFICES ASSUME k \notin disturbed' PROVE WriterAlone(k)' /\ FileTold(k)' /\ CopyTold(k)'
    BY DEF Intact
  <2>2. k \notin disturbed /\ ~Writing(p, k) /\ disk'[k] = disk[k]
    <3>1. CASE pc[p] = "write"
      BY <2>1, <3>1 DEF TypeOK, Exit, Writing
    <3>2. CASE pc[p] # "write"
      BY <2>1, <3>2 DEF TypeOK, Exit, Writing
    <3> QED BY <3>1, <3>2
  <2>3. WriterAlone(k) /\ FileTold(k) /\ CopyTold(k)
    BY <2>2 DEF Intact
  <2>4. WriterAlone(k)'
    BY <1>0, <1>3, <2>2, <2>3 DEF WriterAlone, Result
  <2>5. FileTold(k)' /\ CopyTold(k)'
    BY <1>0, <1>3, <2>2, <2>3 DEF FileTold, CopyTold, Content
  <2> QED BY <2>4, <2>5
<1>5. Linked'
  <2>1. ASSUME NEW q \in Processes, NEW j \in Ids, Pending(q, j)
        PROVE  j \in dropped' \/ Pending(q, j)'
    <3>1. CASE q = p
      BY <1>0, <2>1, <3>1 DEF Pending
    <3>2. CASE q # p
      BY <1>0, <2>1, <3>2 DEF Pending
    <3> QED BY <3>1, <3>2
  <2>2. dropped \subseteq dropped' /\ truth' = truth
    BY <1>0
  <2> QED BY <2>1, <2>2 DEF Linked
<1> QED BY <1>1, <1>2, <1>4, <1>5

-------------------------------------------------------------------------------
LEMMA CommandSteps ==
  ASSUME IInv, NEW p \in Processes
  PROVE  /\ \A i \in Ids, k \in Kinds : Save(p, k, i) => IInv'
         /\ \A ids \in SUBSET Ids : Remove(p, ids) => IInv'
         /\ \A i \in Ids : Rewrite(p, i) => IInv'
         /\ \A i, j \in Ids : Supersede(p, i, j) => IInv'
         /\ \A n \in DOMAIN Files : \A chosen \in [1..n -> DOMAIN Files] :
              Clear(p, chosen) => IInv'
<1>1. ASSUME NEW i \in Ids, NEW k \in Kinds, Save(p, k, i) PROVE IInv'
  <2> DEFINE ws == <<Set(k, {i}, Open)>>
  <2>1. ws \in Seq(Writes) /\ ws # <<>> /\ \A n \in DOMAIN ws : ws[n].to \notin Ids
    BY CommandTypes, KindFacts DEF Set
  <2>2. Call(p, ws)
    BY <1>1 DEF Save
  <2> HIDE DEF ws
  <2> QED BY <2>1, <2>2, CallStep
<1>2. ASSUME NEW ids \in SUBSET Ids, Remove(p, ids) PROVE IInv'
  <2> DEFINE ws == <<Set("facts", ids, Absent)>>
  <2>1. ws \in Seq(Writes) /\ ws # <<>> /\ \A n \in DOMAIN ws : ws[n].to \notin Ids
    BY CommandTypes, KindFacts DEF Set
  <2>2. Call(p, ws)
    BY <1>2 DEF Remove
  <2> HIDE DEF ws
  <2> QED BY <2>1, <2>2, CallStep
<1>3. ASSUME NEW i \in Ids, NEW j \in Ids, Supersede(p, i, j) PROVE IInv'
  <2> DEFINE ws == <<Set("facts", {i}, j), Set("facts", {j}, Open)>>
  <2>1. ws \in Seq(Writes) /\ ws # <<>>
    BY CommandTypes
  <2>2. DOMAIN ws = 1..2 /\ ws[1].to = j /\ ws[2].kind = "facts" /\ ws[2].ids = {j} /\ ws[2].to = Open
    BY DEF Set
  <2>3. Call(p, ws)
    BY <1>3 DEF Supersede
  <2> HIDE DEF ws
  <2>4. \A n \in DOMAIN ws : ws[n].to \in Ids =>
          \E m \in DOMAIN ws : m > n /\ ws[m].kind = "facts" /\ ws[n].to \in ws[m].ids
    BY <2>2, KindFacts
  <2> QED BY <2>1, <2>3, <2>4, CallStep
<1>4. ASSUME NEW l \in DOMAIN Files, NEW chosen \in [1..l -> DOMAIN Files], Clear(p, chosen)
      PROVE  IInv'
  <2> DEFINE ws == [n \in DOMAIN chosen |-> Set(Files[chosen[n]], Ids, Absent)]
  <2>1. ws \in Seq(Writes) /\ ws # <<>> /\ \A n \in DOMAIN ws : ws[n].to \notin Ids
    BY CommandTypes, KindFacts
  <2>2. Call(p, ws)
    BY <1>4 DEF Clear
  <2> HIDE DEF ws
  <2> QED BY <2>1, <2>2, CallStep
<1>5. ASSUME NEW i \in Ids, Rewrite(p, i) PROVE IInv'
  <2> DEFINE ws == <<Set("facts", {}, Open)>>
  <2>1. ws \in Seq(Writes) /\ ws # <<>> /\ \A n \in DOMAIN ws : ws[n].to \notin Ids
    BY CommandTypes, KindFacts DEF Set
  <2>2. Call(p, ws)
    BY <1>5 DEF Rewrite
  <2> HIDE DEF ws
  <2> QED BY <2>1, <2>2, CallStep
<1> QED BY <1>1, <1>2, <1>3, <1>4, <1>5

\* The inductive invariant holds in every reachable state.
THEOREM Inductive == Spec => []IInv
<1>1. Init => IInv
  BY InitInv
<1>2. IInv /\ [Next]_vars => IInv'
  <2> SUFFICES ASSUME IInv, [Next]_vars PROVE IInv'
    OBVIOUS
  <2>1. CASE UNCHANGED vars
    BY <2>1 DEF IInv, TypeOK, Orderly, Intact, WriterAlone, FileTold, CopyTold, Linked, Pending,
       Writing, Loaded, Current, Content, Result, Dropped, vars, state
  <2>2. CASE Next
    <3>1. PICK p \in Processes :
            \/ Start(p) \/ LoadTorn(p) \/ Load(p)
            \/ \E ids \in SUBSET Ids : Remove(p, ids)
            \/ \E i \in Ids, k \in Kinds : Save(p, k, i)
            \/ \E i \in Ids : Rewrite(p, i)
            \/ \E i, j \in Ids : Supersede(p, i, j)
            \/ \E n \in DOMAIN Files : \E chosen \in [1..n -> DOMAIN Files] : Clear(p, chosen)
            \/ Apply(p) \/ Finish(p) \/ Exit(p)
      BY <2>2, Zenon DEF Next
    <3> QED BY <3>1, StartStep, LoadTornStep, LoadStep, CommandSteps, ApplyStep, FinishStep, ExitStep
  <2> QED BY <2>1, <2>2
<1> QED BY <1>1, <1>2, PTL DEF Spec

\* Type correctness for any number of processes and records.
THEOREM TypeCorrect == Spec => []TypeOK
<1>1. IInv => TypeOK
  BY DEF IInv
<1> QED BY <1>1, Inductive, PTL

\* An undisturbed file of .omni-memory, and every copy of it, holds what the
\* calls of persistent_fact_repo.py, decision_repo.py and experience_repo.py
\* that returned left, whatever processes came and went.
THEOREM Durable == Spec => []CallsDurable
<1>1. IInv => CallsDurable
  BY DEF IInv, CallsDurable, Intact, FileTold, CopyTold
<1> QED BY <1>1, Inductive, PTL

\* In an undisturbed facts.json a closed fact's successor is there, unless it
\* is being saved, was removed, or its save was cut off by a kill.
THEOREM Successors == Spec => []SuccessorKept
<1>1. IInv => SuccessorKept
  <2> SUFFICES ASSUME IInv, "facts" \notin disturbed,
                      NEW i \in Ids, NEW j \in Ids, Content("facts")[i] = j
               PROVE  \/ Content("facts")[j] # Absent
                      \/ j \in dropped
                      \/ \E p \in Processes : \E n \in DOMAIN todo[p] :
                           todo[p][n].kind = "facts" /\ j \in todo[p][n].ids
    BY DEF SuccessorKept
  <2>1. WriterAlone("facts") /\ FileTold("facts")
    BY KindFacts DEF IInv, Intact
  <2>2. CASE \E p \in Processes : Writing(p, "facts")
    <3>1. Content("facts") = NoRecords
      BY <2>1, <2>2 DEF WriterAlone, Content
    <3> QED BY <3>1, KindFacts DEF NoRecords
  <2>3. CASE \A p \in Processes : ~Writing(p, "facts")
    <3>1. Content("facts") = truth["facts"]
      BY <2>1, <2>3 DEF FileTold
    <3> QED BY <3>1 DEF IInv, Linked, Pending
  <2> QED BY <2>2, <2>3
<1> QED BY <1>1, Inductive, PTL

=============================================================================
