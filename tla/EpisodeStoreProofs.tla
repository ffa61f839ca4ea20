-------------------------- MODULE EpisodeStoreProofs --------------------------
(***************************************************************************)
(* What the shared connection keeps of the episodes, for any threads,      *)
(* identifiers and versions: the types, EpisodesKept and                   *)
(* QuietMeansCommitted.                                                    *)
(*                                                                         *)
(* EpisodesKept is about identifiers no call is about, so it says nothing  *)
(* of a call until it ends.  The invariant says what a call has achieved   *)
(* before (Progress): of a save, which of its statements were executed and *)
(* what the tables hold for them; of a deletion, that an identifier is     *)
(* either still to be deleted or gone.  It holds of an identifier as long  *)
(* as no other call about it overlapped and none rolled back               *)
(* (Undisturbed), which is when the call, succeeding, makes it known.      *)
(*                                                                         *)
(* When a call fails the tables return to what was committed.  That this   *)
(* is right for an identifier needs that nothing of the call was committed *)
(* by another (AloneInv), and that the call, if it was not alone, knows it *)
(* (Noticed).                                                              *)
(***************************************************************************)
EXTENDS EpisodeStore, FiniteSetTheorems, TLAPS

\* In a call on episodes.
Calling(t) == step[t] \notin {"idle", "reopen"}

\* What a thread that is in no call, that begins and that commits has to do.
IdleInv ==
  \A t \in Threads : /\ step[t] \in {"idle", "reopen"} => program[t] = <<>> /\ touch[t] = {}
                     /\ step[t] = "begin" => program[t] # <<>>
                     /\ step[t] = "commit" => program[t] = <<>>

\* One thread at most resets, and the connection is closed from its first step
\* to its second.
ResetInv ==
  /\ closed => \E t \in Threads : step[t] = "reopen"
  /\ \A t \in Threads : step[t] = "reopen" => closed
  /\ \A t, u \in Threads : step[t] = "reopen" /\ step[u] = "reopen" => t = u

\* A transaction has a call that will end it, or was left by one that could not.
Responsible == open => stray \/ \E t \in Threads : Busy(t)

\* A call knows of those that run beside it; one that entered another connection
\* than the present has met the call that opened that.
Noticed ==
  \A t \in Threads : Calling(t) =>
    /\ \A u \in Others(t) : touch[u] \subseteq met[t] /\ crowded[t]
    /\ ~current[t] => crowded[t]

\* As long as a call is alone nothing of it is committed.
AloneInv ==
  \A t \in Threads : Calling(t) /\ ~crowded[t] =>
    /\ step[t] = "run" => open
    /\ \A i \in Ids \ spoiled : Whole(stored, i, due[i])

\* A call that no other has disturbed about an identifier.
Undisturbed(t, i) == ~hurt[t] /\ i \notin met[t]

\* Of a save n statements were executed.
Saved(t, i, v, flaw, n) ==
  /\ touch[t] = {i} /\ goal[t] = v
  /\ Len(program[t]) = 3 - n
  /\ \A k \in 1..(3 - n) : program[t][k] = SaveProgram(i, v, flaw)[n + k]
  /\ Undisturbed(t, i) => /\ n >= 1 => view.rows[i] = v
                          /\ n = 2 => view.events[i] = {}
                          /\ n = 3 => view.events[i] = {v}

Saving(t) == \E i \in Ids, v \in Versions, flaw \in Flaws, n \in 0..3 : Saved(t, i, v, flaw, n)

\* Each dead episode of a collection is gone or has its statement to come.
Deleting(t) ==
  /\ goal[t] = None
  /\ \A k \in DOMAIN program[t] : program[t][k].do = "delete" /\ program[t][k].id \in touch[t]
  /\ \A i \in touch[t] :
       Undisturbed(t, i) => (\E k \in DOMAIN program[t] : program[t][k].id = i) \/ Whole(view, i, None)

Progress == \A t \in Threads : Calling(t) => Saving(t) \/ Deleting(t)

\* There are finitely many episodes, so a collection has a last.
Rows(image) == {i \in Ids : image.rows[i] # None}
RowsFinite == IsFiniteSet(Rows(view)) /\ IsFiniteSet(Rows(stored))

ConnInv == TypeOK /\ IdleInv /\ ResetInv /\ Responsible /\ RowsFinite
KeptInv == Noticed /\ AloneInv /\ Progress /\ EpisodesKept
EInv == ConnInv /\ KeptInv

-------------------------------------------------------------------------------
(* Statements.                                                             *)

\* What a statement does to the tables, by its kind.
LEMMA EffectIs ==
  ASSUME NEW image \in Images, NEW s \in Statements, s.do = "insert" => s.ver \in Versions
  PROVE  /\ Effect(image, s) \in Images
         /\ \A i \in Ids : i # s.id => /\ Effect(image, s).rows[i] = image.rows[i]
                                       /\ Effect(image, s).events[i] = image.events[i]
         /\ s.do = "upsert" => /\ Effect(image, s).rows[s.id] = s.ver
                               /\ Effect(image, s).events[s.id] = image.events[s.id]
         /\ s.do = "strip" => /\ Effect(image, s).rows[s.id] = image.rows[s.id]
                              /\ Effect(image, s).events[s.id] = {}
         /\ s.do = "insert" => /\ Effect(image, s).rows[s.id] = image.rows[s.id]
                               /\ Effect(image, s).events[s.id] = image.events[s.id] \cup {s.ver}
         /\ s.do = "delete" => Whole(Effect(image, s), s.id, None)
<1>0. s.id \in Ids /\ s.ver \in Versions \cup {None} /\ image.rows \in [Ids -> Versions \cup {None}]
      /\ image.events \in [Ids -> SUBSET Versions]
      /\ image = [rows |-> image.rows, events |-> image.events]
  BY DEF Statements, Images
<1>1. CASE s.do = "upsert"
  <2>1. Effect(image, s) = [rows |-> [image.rows EXCEPT ![s.id] = s.ver], events |-> image.events]
    BY <1>0, <1>1 DEF Effect, Images
  <2> QED BY <1>0, <1>1, <2>1 DEF Images
<1>2. CASE s.do = "strip"
  <2>1. Effect(image, s) = [rows |-> image.rows, events |-> [image.events EXCEPT ![s.id] = {}]]
    BY <1>0, <1>2 DEF Effect, Images
  <2> QED BY <1>0, <1>2, <2>1 DEF Images
<1>3. CASE s.do = "insert"
  <2>1. Effect(image, s) = [rows |-> image.rows,
                            events |-> [image.events EXCEPT ![s.id] = @ \cup {s.ver}]]
    BY <1>0, <1>3 DEF Effect, Images
  <2>2. image.events[s.id] \cup {s.ver} \in SUBSET Versions
    BY <1>0, <1>3
  <2> QED BY <1>0, <1>3, <2>1, <2>2 DEF Images
<1>4. CASE s.do = "delete"
  <2>1. Effect(image, s) = [rows |-> [image.rows EXCEPT ![s.id] = None],
                            events |-> [image.events EXCEPT ![s.id] = {}]]
    BY <1>0, <1>4 DEF Effect, Images
  <2> QED BY <1>0, <1>4, <2>1 DEF Images, Whole
<1> QED BY <1>1, <1>2, <1>3, <1>4 DEF Statements

\* A statement leaves finitely many rows.
LEMMA EffectFinite ==
  ASSUME NEW image \in Images, NEW s \in Statements, s.do = "insert" => s.ver \in Versions,
         IsFiniteSet(Rows(image))
  PROVE  IsFiniteSet(Rows(Effect(image, s)))
<1>1. Rows(Effect(image, s)) \subseteq Rows(image) \cup {s.id}
  BY EffectIs DEF Rows
<1>2. IsFiniteSet(Rows(image) \cup {s.id})
  BY FS_AddElement
<1> QED BY <1>1, <1>2, FS_Subset

\* The three statements of a save are about its episode.
LEMMA SaveProgramIs ==
  ASSUME NEW i \in Ids, NEW v \in Versions, NEW flaw
  PROVE  /\ SaveProgram(i, v, flaw) \in Seq(Statements) /\ Len(SaveProgram(i, v, flaw)) = 3
         /\ \A k \in 1..3 : SaveProgram(i, v, flaw)[k].id = i /\ SaveProgram(i, v, flaw)[k].ver = v
         /\ SaveProgram(i, v, flaw)[1].do = "upsert"
         /\ SaveProgram(i, v, flaw)[2].do = "strip"
         /\ SaveProgram(i, v, flaw)[3].do = "insert"
<1> DEFINE a == Statement("upsert", i, v, flaw # "meta")
           b == Statement("strip", i, v, TRUE)
           c == Statement("insert", i, v, flaw # "refs")
<1>1. /\ a.id = i /\ b.id = i /\ c.id = i /\ a.ver = v /\ b.ver = v /\ c.ver = v
      /\ a.do = "upsert" /\ b.do = "strip" /\ c.do = "insert"
  BY DEF Statement
<1>2. a \in Statements /\ b \in Statements /\ c \in Statements
  BY DEF Statement, Statements
<1>3. SaveProgram(i, v, flaw) = <<a, b, c>>
  BY DEF SaveProgram
<1> HIDE DEF a, b, c
<1>4. /\ <<a, b, c>> \in Seq(Statements) /\ Len(<<a, b, c>>) = 3
      /\ <<a, b, c>>[1] = a /\ <<a, b, c>>[2] = b /\ <<a, b, c>>[3] = c
  BY <1>2
<1>5. \A k \in 1..3 : k = 1 \/ k = 2 \/ k = 3
  OBVIOUS
<1> QED BY <1>1, <1>3, <1>4, <1>5

\* The statement a call executes next is about an identifier of the call.
LEMMA NextStatement ==
  ASSUME TypeOK, NEW t \in Threads, Saving(t) \/ Deleting(t), program[t] # <<>>
  PROVE  /\ Head(program[t]) = program[t][1] /\ Head(program[t]) \in Statements
         /\ Head(program[t]).id \in touch[t]
         /\ Head(program[t]).do = "insert" => Head(program[t]).ver \in Versions
         /\ Tail(program[t]) \in Seq(Statements) /\ Len(Tail(program[t])) = Len(program[t]) - 1
         /\ \A k \in 1..(Len(program[t]) - 1) : Tail(program[t])[k] = program[t][k + 1]
         /\ Len(program[t]) \in Nat /\ Len(program[t]) >= 1
<1>1. program[t] \in Seq(Statements)
  BY DEF TypeOK
<1>2. /\ Head(program[t]) = program[t][1] /\ Head(program[t]) \in Statements
      /\ Tail(program[t]) \in Seq(Statements) /\ Len(Tail(program[t])) = Len(program[t]) - 1
      /\ \A k \in 1..(Len(program[t]) - 1) : Tail(program[t])[k] = program[t][k + 1]
      /\ Len(program[t]) \in Nat /\ Len(program[t]) >= 1
  BY <1>1
<1>3. CASE Saving(t)
  <2>1. PICK i \in Ids, v \in Versions, flaw \in Flaws, n \in 0..3 :
          /\ touch[t] = {i} /\ Len(program[t]) = 3 - n
          /\ \A k \in 1..(3 - n) : program[t][k] = SaveProgram(i, v, flaw)[n + k]
    BY <1>3 DEF Saving, Saved
  <2>2. n + 1 \in 1..3 /\ 1 \in 1..(3 - n)
    BY <1>2, <2>1
  <2>3. program[t][1] = SaveProgram(i, v, flaw)[n + 1]
    BY <2>1, <2>2
  <2> QED BY <1>2, <2>1, <2>2, <2>3, SaveProgramIs
<1>4. CASE Deleting(t)
  <2>1. 1 \in DOMAIN program[t]
    BY <1>1, <1>2
  <2> QED BY <1>2, <1>4, <2>1 DEF Deleting
<1> QED BY <1>2, <1>3, <1>4

-------------------------------------------------------------------------------
(* What one call does to the progress of another.                          *)

\* A step of another call leaves the progress of u, if it leaves the rows and the
\* events of the identifiers of which u is undisturbed.
LEMMA ProgressKept ==
  ASSUME NEW u \in Threads, Saving(u) \/ Deleting(u),
         program'[u] = program[u], goal'[u] = goal[u], touch'[u] = touch[u],
         \A i \in touch[u] : (Undisturbed(u, i))' =>
           /\ Undisturbed(u, i)
           /\ view'.rows[i] = view.rows[i] /\ view'.events[i] = view.events[i]
  PROVE  (Saving(u) \/ Deleting(u))'
<1>1. CASE Saving(u)
  <2>1. PICK i \in Ids, v \in Versions, flaw \in Flaws, n \in 0..3 :
          /\ touch[u] = {i} /\ goal[u] = v
          /\ Len(program[u]) = 3 - n
          /\ \A k \in 1..(3 - n) : program[u][k] = SaveProgram(i, v, flaw)[n + k]
          /\ Undisturbed(u, i) => /\ n >= 1 => view.rows[i] = v
                                  /\ n = 2 => view.events[i] = {}
                                  /\ n = 3 => view.events[i] = {v}
    BY <1>1 DEF Saving, Saved
  <2>2. (Undisturbed(u, i))' => /\ n >= 1 => view'.rows[i] = v
                                /\ n = 2 => view'.events[i] = {}
                                /\ n = 3 => view'.events[i] = {v}
    BY <2>1
  <2>3. (Saved(u, i, v, flaw, n))'
    BY <2>1, <2>2 DEF Saved
  <2> QED BY <2>3 DEF Saving
<1>2. CASE Deleting(u)
  <2>1. \A i \in touch[u] : (Undisturbed(u, i))' =>
          (\E k \in DOMAIN program[u] : program[u][k].id = i) \/ Whole(view', i, None)
    BY <1>2 DEF Deleting, Whole
  <2> QED BY <1>2, <2>1 DEF Deleting, Whole
<1> QED BY <1>1, <1>2

-------------------------------------------------------------------------------
(* The end of a call.                                                      *)

\* A call that ends leaves the variables of the other threads.
LEMMA LeaveIs ==
  ASSUME TypeOK, NEW t \in Threads, Leave(t)
  PROVE  /\ step'[t] = "idle" /\ program'[t] = <<>> /\ touch'[t] = {} /\ crowded'[t] = FALSE
         /\ \A u \in Threads \ {t} :
              /\ step'[u] = step[u] /\ program'[u] = program[u] /\ current'[u] = current[u]
              /\ touch'[u] = touch[u] /\ goal'[u] = goal[u] /\ met'[u] = met[u]
              /\ crowded'[u] = crowded[u]
         /\ step' \in [Threads -> {"idle", "look", "begin", "run", "commit", "reopen"}]
         /\ program' \in [Threads -> Seq(Statements)]
         /\ current' \in [Threads -> BOOLEAN]
         /\ touch' \in [Threads -> SUBSET Ids]
         /\ goal' \in [Threads -> Versions \cup {None}]
         /\ met' \in [Threads -> SUBSET Ids]
         /\ crowded' \in [Threads -> BOOLEAN]
         /\ \A u \in Threads : step'[u] = "run" => program'[u] # <<>>
<1>1. <<>> \in Seq(Statements)
  OBVIOUS
<1> QED BY <1>1 DEF TypeOK, Leave

\* What does not depend on how the call ended: the others have noticed it.
LEMMA LeaveNoticed ==
  ASSUME EInv, NEW t \in Threads, Calling(t), Leave(t), closed' = closed
  PROVE  /\ IdleInv' /\ ResetInv' /\ Noticed' /\ AloneInv'
         /\ \A u \in Threads \ {t} : (Calling(u))' => Calling(u)
<1> USE DEF EInv, ConnInv, KeptInv
<1>1. /\ step'[t] = "idle" /\ program'[t] = <<>> /\ touch'[t] = {}
      /\ \A u \in Threads \ {t} :
              /\ step'[u] = step[u] /\ program'[u] = program[u] /\ current'[u] = current[u]
              /\ touch'[u] = touch[u] /\ met'[u] = met[u] /\ crowded'[u] = crowded[u]
  BY LeaveIs
<1>2. IdleInv'
  BY <1>1 DEF IdleInv
<1>3. ResetInv'
  <2>1. \A u \in Threads : step[u] = "reopen" => u # t
    BY DEF Calling
  <2> QED BY <1>1, <2>1 DEF ResetInv
<1>4. Noticed'
  BY <1>1 DEF Noticed, Calling, Others, Busy
<1>5. AloneInv'
  <2> SUFFICES ASSUME NEW u \in Threads, (Calling(u))', ~crowded'[u] PROVE FALSE
    BY DEF AloneInv
  <2>1. u # t /\ Calling(u) /\ ~crowded[u]
    BY <1>1 DEF Calling
  <2>2. t \in Others(u)
    BY <2>1 DEF Others, Busy, Calling
  <2> QED BY <2>1, <2>2 DEF Noticed
<1> QED BY <1>1, <1>2, <1>3, <1>4, <1>5 DEF Calling

\* A call that fails takes the tables back to what was committed: alone, nothing
\* of it was; not alone, its identifiers are spoiled.
LEMMA FailStep ==
  ASSUME EInv, NEW t \in Threads, Calling(t), Fail(t)
  PROVE  EInv'
<1> USE DEF EInv, ConnInv, KeptInv
<1>0. Leave(t) /\ Spoil(t) /\ stored' = stored /\ closed' = closed
  BY DEF Fail
<1>b. /\ view' \in {view, stored} /\ open' \in BOOLEAN /\ (open' => open /\ stray')
      /\ (~open' => view' = stored) /\ hurt' \in [Threads -> BOOLEAN] /\ stray' \in BOOLEAN
      /\ \A u \in Threads \ {t} : Calling(u) /\ ~hurt'[u] => ~hurt[u] /\ view' = view
  <2>1. CASE current[t]
    <3>1. view' = stored /\ open' = FALSE /\ stray' = FALSE /\ hurt' = Hurting(t)
      BY <2>1 DEF Fail, Rollback
    <3>2. \A u \in Threads \ {t} : Calling(u) => hurt'[u]
      BY <3>1 DEF Hurting, Calling, Busy
    <3>3. hurt' \in [Threads -> BOOLEAN]
      BY <3>1 DEF Hurting, TypeOK, Busy
    <3> QED BY <3>1, <3>2, <3>3
  <2>2. CASE ~current[t]
    BY <2>2 DEF Fail, TypeOK
  <2> QED BY <2>1, <2>2
<1>c. /\ due' \in [Ids -> Versions \cup {None}] /\ spoiled' \subseteq Ids /\ spoiled \subseteq spoiled'
      /\ \A i \in Ids \ touch[t] : due'[i] = due[i]
      /\ crowded[t] => touch[t] \subseteq spoiled'
      /\ ~crowded[t] => due' = due /\ spoiled' = spoiled
  <2>1. touch[t] \in SUBSET Ids
    BY DEF TypeOK
  <2> QED BY <1>0, <2>1 DEF Spoil, TypeOK
<1>1. TypeOK'
  <2>1. view' \in Images /\ stored' \in Images /\ open' \in BOOLEAN /\ closed' \in BOOLEAN
        /\ (closed' => ~open')
    BY <1>0, <1>b DEF TypeOK
  <2> QED BY <1>0, <1>b, <1>c, <2>1, LeaveIs DEF TypeOK
<1>2. Responsible' /\ RowsFinite'
  BY <1>0, <1>b DEF Responsible, RowsFinite, Rows
<1>3. Progress'
  <2> SUFFICES ASSUME NEW u \in Threads, (Calling(u))' PROVE (Saving(u) \/ Deleting(u))'
    BY DEF Progress
  <2>1. u # t /\ Calling(u) /\ (Saving(u) \/ Deleting(u))
    BY <1>0, LeaveIs DEF Calling, Progress
  <2>2. /\ program'[u] = program[u] /\ goal'[u] = goal[u] /\ touch'[u] = touch[u]
        /\ met'[u] = met[u]
    BY <1>0, <2>1, LeaveIs
  <2>3. \A i \in touch[u] : (Undisturbed(u, i))' => Undisturbed(u, i) /\ view' = view
    BY <1>b, <2>1, <2>2 DEF Undisturbed
  <2> QED BY <2>1, <2>2, <2>3, ProgressKept
<1>4. EpisodesKept'
  <2> SUFFICES ASSUME NEW i \in Ids, i \notin spoiled', \A u \in Threads : i \notin touch'[u]
               PROVE  Whole(view', i, due'[i]) /\ Whole(stored', i, due'[i])
    BY DEF EpisodesKept, Whole
  <2>0. \A u \in Threads \ {t} : i \notin touch[u]
    BY <1>0, LeaveIs
  <2>1. i \notin spoiled
    BY <1>c
  <2>2. CASE i \notin touch[t]
    <3>1. Whole(view, i, due[i]) /\ Whole(stored, i, due[i]) /\ due'[i] = due[i]
      BY <1>c, <2>0, <2>1, <2>2 DEF EpisodesKept
    <3> QED BY <1>0, <1>b, <3>1
  <2>3. CASE i \in touch[t]
    <3>1. ~crowded[t]
      BY <1>c, <2>3
    <3>2. current[t]
      BY <3>1 DEF Noticed
    <3>3. view' = stored
      BY <3>2 DEF Fail, Rollback
    <3>4. Whole(stored, i, due[i])
      BY <2>1, <3>1 DEF AloneInv
    <3> QED BY <1>0, <1>c, <3>1, <3>3, <3>4
  <2> QED BY <2>2, <2>3
<1> QED BY <1>0, <1>1, <1>2, <1>3, <1>4, LeaveNoticed

\* Succeed where nothing is left to commit, in one step with a commit.
LEMMA SucceedStep ==
  ASSUME EInv, NEW t \in Threads, Calling(t), program[t] = <<>>, Succeed(t),
         view' = view, stored' = view, open' = FALSE, closed' = closed, stray' \in BOOLEAN
  PROVE  EInv'
<1> USE DEF EInv, ConnInv, KeptInv
<1> DEFINE known == IF hurt[t] THEN {} ELSE touch[t] \ met[t]
<1>0. /\ Leave(t) /\ spoiled' = (spoiled \ touch[t]) \cup (touch[t] \ known)
      /\ due' = [i \in Ids |-> IF i \in known THEN goal[t]
                                ELSE IF i \in touch[t] THEN None ELSE due[i]]
      /\ hurt' = [hurt EXCEPT ![t] = FALSE]
  BY DEF Succeed
<1>a. known \subseteq touch[t] /\ touch[t] \subseteq Ids /\ goal[t] \in Versions \cup {None}
  BY DEF TypeOK
<1>b. \A i \in known : Undisturbed(t, i)
  BY DEF Undisturbed
<1> HIDE DEF known
<1>1. TypeOK'
  <2>1. due' \in [Ids -> Versions \cup {None}] /\ spoiled' \subseteq Ids
        /\ hurt' \in [Threads -> BOOLEAN]
    BY <1>0, <1>a DEF TypeOK
  <2> QED BY <1>0, <2>1, LeaveIs DEF TypeOK
<1>2. Responsible' /\ RowsFinite'
  BY DEF Responsible, RowsFinite, Rows
<1>3. Progress'
  <2> SUFFICES ASSUME NEW u \in Threads, (Calling(u))' PROVE (Saving(u) \/ Deleting(u))'
    BY DEF Progress
  <2>1. u # t /\ Calling(u) /\ (Saving(u) \/ Deleting(u))
    BY <1>0, LeaveIs DEF Calling, Progress
  <2>2. /\ program'[u] = program[u] /\ goal'[u] = goal[u] /\ touch'[u] = touch[u]
        /\ met'[u] = met[u]
    BY <1>0, <2>1, LeaveIs
  <2>3. hurt[u] => hurt'[u]
    BY <1>0, <2>1, Zenon DEF TypeOK
  <2>4. \A i \in touch[u] : (Undisturbed(u, i))' => Undisturbed(u, i)
    BY <2>2, <2>3 DEF Undisturbed
  <2> QED BY <2>1, <2>2, <2>4, ProgressKept
<1>4. \A i \in known : Whole(view, i, goal[t])
  <2> SUFFICES ASSUME NEW i \in known PROVE Whole(view, i, goal[t])
    OBVIOUS
  <2>1. i \in touch[t] /\ Undisturbed(t, i) /\ Len(program[t]) = 0 /\ DOMAIN program[t] = {}
    BY <1>a, <1>b
  <2>2. CASE Saving(t)
    <3>1. PICK j \in Ids, v \in Versions, n \in 0..3 :
            /\ touch[t] = {j} /\ goal[t] = v
            /\ Len(program[t]) = 3 - n
            /\ Undisturbed(t, j) => /\ n >= 1 => view.rows[j] = v
                                    /\ n = 2 => view.events[j] = {}
                                    /\ n = 3 => view.events[j] = {v}
      BY <2>2 DEF Saving, Saved
    <3>2. n = 3 /\ j = i
      BY <2>1, <3>1
    <3>3. v # None
      BY EpisodeConstants
    <3> QED BY <2>1, <3>1, <3>2, <3>3 DEF Whole
  <2>3. CASE Deleting(t)
    BY <2>1, <2>3 DEF Deleting
  <2> QED BY <2>2, <2>3 DEF Progress
<1>5. EpisodesKept'
  <2> SUFFICES ASSUME NEW i \in Ids, i \notin spoiled', \A u \in Threads : i \notin touch'[u]
               PROVE  Whole(view, i, due'[i])
    BY DEF EpisodesKept, Whole
  <2>1. CASE i \notin touch[t]
    <3>1. \A u \in Threads : i \notin touch[u]
      BY <1>0, <2>1, LeaveIs
    <3> QED BY <1>0, <1>a, <2>1, <3>1 DEF EpisodesKept
  <2>2. CASE i \in touch[t]
    BY <1>0, <1>4, <2>2
  <2> QED BY <2>1, <2>2
<1> QED BY <1>0, <1>1, <1>2, <1>3, <1>5, LeaveNoticed

-------------------------------------------------------------------------------
(* Inside a call.                                                          *)

\* A call goes on to its next statement, or to the commit.
LEMMA MoveStep ==
  ASSUME EInv, NEW t \in Threads, Calling(t), NEW l \in {"begin", "run", "commit"},
         step' = [step EXCEPT ![t] = l], l = "commit" <=> program[t] = <<>>,
         open' = open \/ (open' = TRUE /\ ~closed), l = "run" => open',
         UNCHANGED <<view, stored, closed, program, current, touch, goal, history>>
  PROVE  EInv'
<1> USE DEF EInv, ConnInv, KeptInv
<1>1. /\ view' = view /\ stored' = stored /\ closed' = closed /\ program' = program
      /\ current' = current /\ touch' = touch /\ goal' = goal /\ met' = met
      /\ crowded' = crowded /\ hurt' = hurt /\ due' = due /\ spoiled' = spoiled /\ stray' = stray
  BY DEF history
<1>2. /\ step'[t] = l /\ \A u \in Threads \ {t} : step'[u] = step[u]
      /\ step' \in [Threads -> {"idle", "look", "begin", "run", "commit", "reopen"}]
      /\ step[t] \notin {"idle", "reopen"} /\ open' \in BOOLEAN /\ (open => open')
  BY DEF TypeOK, Calling
<1>3. \A u \in Threads : /\ (Calling(u))' <=> Calling(u)
                         /\ (Busy(u))' <=> Busy(u)
                         /\ step'[u] = "reopen" <=> step[u] = "reopen"
                         /\ step'[u] \in {"idle", "reopen"} <=> step[u] \in {"idle", "reopen"}
  BY <1>2 DEF Calling, Busy
<1>4. TypeOK'
  <2>1. /\ (~open' => view' = stored') /\ (closed' => ~open')
        /\ \A u \in Threads : step'[u] = "run" => program'[u] # <<>>
    BY <1>1, <1>2 DEF TypeOK
  <2> QED BY <1>1, <1>2, <2>1 DEF TypeOK
<1>5. IdleInv' /\ ResetInv'
  BY <1>1, <1>2, <1>3 DEF IdleInv, ResetInv
<1>6. Responsible' /\ RowsFinite'
  <2>1. (Busy(t))'
    BY <1>2 DEF Busy
  <2> QED BY <1>1, <2>1 DEF Responsible, RowsFinite, Rows
<1>7. Noticed' /\ EpisodesKept'
  BY <1>1, <1>3 DEF Noticed, Others, EpisodesKept, Whole
<1>8. AloneInv'
  <2> SUFFICES ASSUME NEW u \in Threads, Calling(u), ~crowded[u]
               PROVE  /\ step'[u] = "run" => open'
                      /\ \A i \in Ids \ spoiled : Whole(stored, i, due[i])
    BY <1>1, <1>3 DEF AloneInv, Whole
  <2>1. step'[u] = "run" => open'
    BY <1>2 DEF AloneInv
  <2> QED BY <2>1 DEF AloneInv
<1>9. Progress'
  <2> SUFFICES ASSUME NEW u \in Threads, Calling(u) PROVE (Saving(u) \/ Deleting(u))'
    BY <1>3 DEF Progress
  <2>1. \A i \in touch[u] : (Undisturbed(u, i))' => Undisturbed(u, i)
    BY <1>1 DEF Undisturbed
  <2> QED BY <1>1, <2>1, ProgressKept DEF Progress
<1> QED BY <1>4, <1>5, <1>6, <1>7, <1>8, <1>9

\* A statement is executed.
LEMMA ExecuteStep ==
  ASSUME EInv, NEW t \in Threads, step[t] = "run", ~closed,
         view' = Effect(view, Head(program[t])),
         stored' = IF open THEN stored ELSE view',
         program' = [program EXCEPT ![t] = Tail(@)],
         step' = [step EXCEPT ![t] = "look"],
         UNCHANGED <<open, closed, current, touch, goal, history>>
  PROVE  EInv'
<1> USE DEF EInv, ConnInv, KeptInv
<1>1. /\ open' = open /\ closed' = closed
      /\ current' = current /\ touch' = touch /\ goal' = goal /\ met' = met
      /\ crowded' = crowded /\ hurt' = hurt /\ due' = due /\ spoiled' = spoiled /\ stray' = stray
  BY DEF history
<1>2. Calling(t) /\ program[t] # <<>> /\ (Saving(t) \/ Deleting(t))
  BY DEF Calling, TypeOK, Progress
<1> DEFINE s == Head(program[t])
<1>3. /\ s = program[t][1] /\ s \in Statements /\ s.id \in touch[t]
      /\ s.do = "insert" => s.ver \in Versions
      /\ Tail(program[t]) \in Seq(Statements) /\ Len(Tail(program[t])) = Len(program[t]) - 1
      /\ \A k \in 1..(Len(program[t]) - 1) : Tail(program[t])[k] = program[t][k + 1]
      /\ Len(program[t]) \in Nat /\ Len(program[t]) >= 1
  BY <1>2, NextStatement
<1>4. /\ program'[t] = Tail(program[t]) /\ \A u \in Threads \ {t} : program'[u] = program[u]
      /\ step'[t] = "look" /\ \A u \in Threads \ {t} : step'[u] = step[u]
      /\ step' \in [Threads -> {"idle", "look", "begin", "run", "commit", "reopen"}]
      /\ program' \in [Threads -> Seq(Statements)]
  BY <1>3 DEF TypeOK
<1>5. \A u \in Threads : /\ (Calling(u))' <=> Calling(u)
                         /\ (Busy(u))' <=> Busy(u)
                         /\ step'[u] = "reopen" <=> step[u] = "reopen"
                         /\ step'[u] \in {"idle", "reopen"} <=> step[u] \in {"idle", "reopen"}
  BY <1>4 DEF Calling, Busy
<1>6. /\ view' \in Images
      /\ \A i \in Ids : i # s.id => view'.rows[i] = view.rows[i] /\ view'.events[i] = view.events[i]
      /\ s.do = "upsert" => view'.rows[s.id] = s.ver /\ view'.events[s.id] = view.events[s.id]
      /\ s.do = "strip" => view'.rows[s.id] = view.rows[s.id] /\ view'.events[s.id] = {}
      /\ s.do = "insert" => /\ view'.rows[s.id] = view.rows[s.id]
                            /\ view'.events[s.id] = view.events[s.id] \cup {s.ver}
      /\ s.do = "delete" => Whole(view', s.id, None)
  <2>1. view \in Images
    BY DEF TypeOK
  <2>2. view' = Effect(view, s)
    OBVIOUS
  <2> HIDE DEF s
  <2>3. s \in Statements /\ (s.do = "insert" => s.ver \in Versions)
    BY <1>3
  <2>4. /\ Effect(view, s) \in Images
        /\ \A i \in Ids : i # s.id => /\ Effect(view, s).rows[i] = view.rows[i]
                                       /\ Effect(view, s).events[i] = view.events[i]
        /\ s.do = "upsert" => /\ Effect(view, s).rows[s.id] = s.ver
                              /\ Effect(view, s).events[s.id] = view.events[s.id]
        /\ s.do = "strip" => /\ Effect(view, s).rows[s.id] = view.rows[s.id]
                             /\ Effect(view, s).events[s.id] = {}
        /\ s.do = "insert" => /\ Effect(view, s).rows[s.id] = view.rows[s.id]
                              /\ Effect(view, s).events[s.id] = view.events[s.id] \cup {s.ver}
        /\ s.do = "delete" => Whole(Effect(view, s), s.id, None)
    BY <2>1, <2>3, EffectIs, Zenon
  <2> QED BY <2>2, <2>4, Zenon
<1>7. IsFiniteSet(Rows(view'))
  BY <1>3, EffectFinite DEF TypeOK, RowsFinite
<1> HIDE DEF s
<1>8. TypeOK'
  <2>1. /\ stored' \in Images /\ (~open' => view' = stored') /\ (closed' => ~open')
        /\ \A u \in Threads : step'[u] = "run" => program'[u] # <<>>
    BY <1>1, <1>4, <1>6 DEF TypeOK
  <2> QED BY <1>1, <1>4, <1>6, <2>1 DEF TypeOK
<1>9. IdleInv' /\ ResetInv' /\ RowsFinite' /\ Responsible'
  <2>1. IdleInv'
    BY <1>1, <1>4 DEF IdleInv, Calling
  <2>2. ResetInv'
    BY <1>1, <1>5 DEF ResetInv
  <2>3. RowsFinite'
    BY <1>7 DEF RowsFinite, Rows
  <2>4. Responsible'
    BY <1>1, <1>5 DEF Responsible
  <2> QED BY <2>1, <2>2, <2>3, <2>4
<1>10. Noticed'
  BY <1>1, <1>5 DEF Noticed, Others
<1>11. \A u \in Threads \ {t} : Calling(u) => touch[t] \subseteq met[u] /\ crowded[u]
  BY <1>2 DEF Noticed, Others, Busy, Calling
<1>12. AloneInv'
  <2> SUFFICES ASSUME NEW u \in Threads, (Calling(u))', ~crowded'[u]
               PROVE  /\ step'[u] = "run" => open'
                      /\ \A i \in Ids \ spoiled' : Whole(stored', i, due'[i])
    BY DEF AloneInv, Whole
  <2>1. Calling(u) /\ ~crowded[u]
    BY <1>1, <1>5
  <2>2. u = t
    BY <1>11, <2>1
  <2>3. open /\ \A i \in Ids \ spoiled : Whole(stored, i, due[i])
    BY <2>1, <2>2 DEF AloneInv
  <2>4. stored' = stored
    BY <2>3
  <2> QED BY <1>1, <2>3, <2>4
<1>13. EpisodesKept'
  <2> SUFFICES ASSUME NEW i \in Ids, i \notin spoiled, \A u \in Threads : i \notin touch[u]
               PROVE  Whole(view', i, due[i]) /\ Whole(stored', i, due[i])
    BY <1>1 DEF EpisodesKept, Whole
  <2>1. Whole(view, i, due[i]) /\ Whole(stored, i, due[i]) /\ i # s.id
    BY <1>3 DEF EpisodesKept
  <2>2. Whole(view', i, due[i])
    BY <1>6, <2>1 DEF Whole
  <2> QED BY <2>1, <2>2
<1>14. Progress'
  <2> SUFFICES ASSUME NEW u \in Threads, Calling(u) PROVE (Saving(u) \/ Deleting(u))'
    BY <1>5 DEF Progress
  <2>1. CASE u # t
    <3>1. program'[u] = program[u] /\ goal'[u] = goal[u] /\ touch'[u] = touch[u]
      BY <1>1, <1>4, <2>1
    <3>2. \A i \in touch[u] : (Undisturbed(u, i))' =>
             /\ Undisturbed(u, i)
             /\ view'.rows[i] = view.rows[i] /\ view'.events[i] = view.events[i]
      <4> SUFFICES ASSUME NEW i \in touch[u], (Undisturbed(u, i))'
                   PROVE  /\ Undisturbed(u, i)
                          /\ view'.rows[i] = view.rows[i] /\ view'.events[i] = view.events[i]
        OBVIOUS
      <4>1. Undisturbed(u, i) /\ i \in Ids
        BY <1>1 DEF Undisturbed, TypeOK
      <4>2. i # s.id
        BY <1>3, <1>11, <2>1, <4>1 DEF Undisturbed
      <4> QED BY <1>6, <4>1, <4>2
    <3> QED BY <3>1, <3>2, ProgressKept DEF Progress
  <2>2. CASE u = t /\ Saving(t)
    <3>1. PICK i \in Ids, v \in Versions, flaw \in Flaws, n \in 0..3 :
            /\ touch[t] = {i} /\ goal[t] = v
            /\ Len(program[t]) = 3 - n
            /\ \A k \in 1..(3 - n) : program[t][k] = SaveProgram(i, v, flaw)[n + k]
            /\ Undisturbed(t, i) => /\ n >= 1 => view.rows[i] = v
                                    /\ n = 2 => view.events[i] = {}
                                    /\ n = 3 => view.events[i] = {v}
      BY <2>2 DEF Saving, Saved
    <3>2. n \in 0..2 /\ n + 1 \in 1..3 /\ 1 \in 1..(3 - n) /\ n + 1 \in 0..3
      BY <1>3, <3>1
    <3>3. s = SaveProgram(i, v, flaw)[n + 1]
      BY <1>3, <3>1, <3>2
    <3>4. s.id = i /\ s.ver = v /\ v # None
      BY <3>2, <3>3, SaveProgramIs, EpisodeConstants
    <3>5. n = 0 => s.do = "upsert"
      BY <3>3, SaveProgramIs
    <3>6. n = 1 => s.do = "strip"
      BY <3>3, SaveProgramIs
    <3>7. n = 2 => s.do = "insert"
      BY <3>3, SaveProgramIs
    <3>8. Len(program'[t]) = 3 - (n + 1)
      BY <1>3, <1>4, <3>1
    <3>9. \A k \in 1..(3 - (n + 1)) : program'[t][k] = SaveProgram(i, v, flaw)[(n + 1) + k]
      <4> SUFFICES ASSUME NEW k \in 1..(3 - (n + 1))
                   PROVE  program'[t][k] = SaveProgram(i, v, flaw)[(n + 1) + k]
        OBVIOUS
      <4>1. k \in 1..(Len(program[t]) - 1) /\ k + 1 \in 1..(3 - n) /\ n + (k + 1) = (n + 1) + k
        BY <3>1, <3>2
      <4> QED BY <1>3, <1>4, <3>1, <4>1
    <3>10. (Undisturbed(t, i))' => /\ n + 1 >= 1 => view'.rows[i] = v
                                   /\ n + 1 = 2 => view'.events[i] = {}
                                   /\ n + 1 = 3 => view'.events[i] = {v}
      <4> SUFFICES ASSUME Undisturbed(t, i)
                   PROVE  /\ n + 1 >= 1 => view'.rows[i] = v
                          /\ n + 1 = 2 => view'.events[i] = {}
                          /\ n + 1 = 3 => view'.events[i] = {v}
        BY <1>1 DEF Undisturbed
      <4>1. CASE n = 0
        BY <1>6, <3>4, <3>5, <4>1
      <4>2. CASE n = 1
        BY <1>6, <3>1, <3>4, <3>6, <4>2
      <4>3. CASE n = 2
        <5>1. view'.rows[i] = v /\ view'.events[i] = {} \cup {v}
          BY <1>6, <3>1, <3>4, <3>7, <4>3
        <5> QED BY <4>3, <5>1
      <4> QED BY <3>2, <4>1, <4>2, <4>3
    <3>11. (Saved(t, i, v, flaw, n + 1))'
      BY <1>1, <3>1, <3>8, <3>9, <3>10 DEF Saved
    <3>12. (Saving(t))'
      BY <3>2, <3>11 DEF Saving
    <3> QED BY <2>2, <3>12
  <2>3. CASE u = t /\ Deleting(t)
    <3>1. DOMAIN program[t] = 1..Len(program[t]) /\ DOMAIN program'[t] = 1..(Len(program[t]) - 1)
      BY <1>3, <1>4 DEF TypeOK
    <3>2. \A k \in DOMAIN program'[t] : /\ program'[t][k] = program[t][k + 1]
                                        /\ k + 1 \in DOMAIN program[t]
      BY <1>3, <1>4, <3>1
    <3>3. s.do = "delete"
      BY <1>3, <2>3, <3>1 DEF Deleting
    <3>4. ASSUME NEW i \in touch[t], (Undisturbed(t, i))'
          PROVE  (\E k \in DOMAIN program'[t] : program'[t][k].id = i) \/ Whole(view', i, None)
      <4>1. Undisturbed(t, i) /\ i \in Ids
        BY <1>1, <3>4 DEF Undisturbed, TypeOK
      <4>2. CASE i = s.id
        BY <1>6, <3>3, <4>2
      <4>3. CASE i # s.id /\ Whole(view, i, None)
        BY <1>6, <4>1, <4>3 DEF Whole
      <4>4. CASE i # s.id /\ \E k \in DOMAIN program[t] : program[t][k].id = i
        <5>1. PICK k \in 1..Len(program[t]) : program[t][k].id = i
          BY <3>1, <4>4
        <5>2. k # 1
          BY <1>3, <4>4, <5>1
        <5>3. k - 1 \in 1..(Len(program[t]) - 1) /\ (k - 1) + 1 = k
          BY <1>3, <5>1, <5>2
        <5> QED BY <3>1, <3>2, <5>1, <5>3
      <4> QED BY <2>3, <4>1, <4>2, <4>3, <4>4 DEF Deleting
    <3>5. \A k \in DOMAIN program'[t] : program'[t][k].do = "delete" /\ program'[t][k].id \in touch[t]
      BY <2>3, <3>2 DEF Deleting
    <3> QED BY <1>1, <2>3, <3>4, <3>5 DEF Deleting, Whole
  <2> QED BY <1>2, <2>1, <2>2, <2>3
<1> QED BY <1>8, <1>9, <1>10, <1>12, <1>13, <1>14

-------------------------------------------------------------------------------
(* The beginning of a call.                                                *)

\* What a call that begins knows, and what the others learn of it.
LEMMA EnterIs ==
  ASSUME TypeOK, NEW t \in Threads, NEW p \in Seq(Statements), NEW ids \in SUBSET Ids,
         NEW g \in Versions \cup {None}, Enter(t, p, ids, g)
  PROVE  /\ step[t] = "idle" /\ step'[t] = "look" /\ program'[t] = p /\ current'[t] = ~closed
         /\ touch'[t] = ids /\ goal'[t] = g /\ ~hurt'[t]
         /\ met'[t] = UNION {touch[w] : w \in Others(t)} /\ (crowded'[t] <=> Others(t) # {})
         /\ \A u \in Threads \ {t} :
              /\ step'[u] = step[u] /\ program'[u] = program[u] /\ current'[u] = current[u]
              /\ touch'[u] = touch[u] /\ goal'[u] = goal[u] /\ (hurt'[u] <=> hurt[u])
              /\ met[u] \subseteq met'[u]
              /\ Busy(u) => ids \subseteq met'[u] /\ crowded'[u]
         /\ step' \in [Threads -> {"idle", "look", "begin", "run", "commit", "reopen"}]
         /\ program' \in [Threads -> Seq(Statements)]
         /\ current' \in [Threads -> BOOLEAN]
         /\ touch' \in [Threads -> SUBSET Ids]
         /\ goal' \in [Threads -> Versions \cup {None}]
         /\ met' \in [Threads -> SUBSET Ids]
         /\ crowded' \in [Threads -> BOOLEAN]
         /\ hurt' \in [Threads -> BOOLEAN]
<1>1. /\ step' = [step EXCEPT ![t] = "look"] /\ program' = [program EXCEPT ![t] = p]
      /\ current' = [current EXCEPT ![t] = ~closed] /\ touch' = [touch EXCEPT ![t] = ids]
      /\ goal' = [goal EXCEPT ![t] = g] /\ step[t] = "idle" /\ Meet(t, ids)
  BY DEF Enter, Busy
<1>2. /\ step'[t] = "look" /\ program'[t] = p /\ touch'[t] = ids /\ goal'[t] = g
      /\ \A u \in Threads \ {t} : /\ step'[u] = step[u] /\ program'[u] = program[u]
                                  /\ touch'[u] = touch[u] /\ goal'[u] = goal[u]
      /\ step' \in [Threads -> {"idle", "look", "begin", "run", "commit", "reopen"}]
      /\ program' \in [Threads -> Seq(Statements)]
      /\ touch' \in [Threads -> SUBSET Ids]
      /\ goal' \in [Threads -> Versions \cup {None}]
  BY <1>1 DEF TypeOK
<1>3. /\ current'[t] = ~closed /\ \A u \in Threads \ {t} : current'[u] = current[u]
      /\ current' \in [Threads -> BOOLEAN]
  BY <1>1, Zenon DEF TypeOK
<1>4. ~hurt'[t] /\ (\A u \in Threads \ {t} : hurt'[u] <=> hurt[u]) /\ hurt' \in [Threads -> BOOLEAN]
  <2>1. hurt' = [hurt EXCEPT ![t] = FALSE] /\ hurt \in [Threads -> BOOLEAN]
    BY <1>1 DEF Meet, TypeOK
  <2> QED BY <2>1, Zenon
<1>5. /\ met'[t] = UNION {touch[w] : w \in Others(t)} /\ met' \in [Threads -> SUBSET Ids]
      /\ \A u \in Threads \ {t} : met[u] \subseteq met'[u] /\ (Busy(u) => ids \subseteq met'[u])
  <2>1. met' = [u \in Threads |->
                  IF u = t THEN UNION {touch[w] : w \in Others(t)}
                  ELSE IF Busy(u) THEN met[u] \cup ids ELSE met[u]]
    BY <1>1 DEF Meet
  <2>2. UNION {touch[w] : w \in Others(t)} \in SUBSET Ids
    BY DEF TypeOK, Others
  <2>3. \A u \in Threads : met[u] \in SUBSET Ids /\ met[u] \cup ids \in SUBSET Ids
    BY DEF TypeOK
  <2> QED BY <2>1, <2>2, <2>3
<1>6. /\ crowded'[t] <=> Others(t) # {}
      /\ crowded' \in [Threads -> BOOLEAN]
      /\ \A u \in Threads \ {t} : Busy(u) => crowded'[u]
  <2>1. crowded' = [u \in Threads |-> IF u = t THEN Others(t) # {} ELSE crowded[u] \/ Busy(u)]
    BY <1>1 DEF Meet
  <2> QED BY <2>1 DEF Busy
<1> QED BY <1>1, <1>2, <1>3, <1>4, <1>5, <1>6

\* A call begins with nothing executed.
LEMMA EnterStep ==
  ASSUME EInv, NEW t \in Threads, NEW p \in Seq(Statements), NEW ids \in SUBSET Ids,
         NEW g \in Versions \cup {None}, Enter(t, p, ids, g), (Saving(t) \/ Deleting(t))'
  PROVE  EInv'
<1> USE DEF EInv, ConnInv, KeptInv
<1>1. /\ view' = view /\ stored' = stored /\ open' = open /\ closed' = closed
      /\ due' = due /\ spoiled' = spoiled /\ stray' = stray
  BY DEF Enter, tables
<1>2. /\ step[t] = "idle" /\ step'[t] = "look" /\ current'[t] = ~closed
      /\ touch'[t] = ids /\ met'[t] = UNION {touch[w] : w \in Others(t)}
      /\ (crowded'[t] <=> Others(t) # {})
  BY EnterIs
<1>3. \A u \in Threads \ {t} :
        /\ step'[u] = step[u] /\ program'[u] = program[u] /\ current'[u] = current[u]
        /\ touch'[u] = touch[u] /\ goal'[u] = goal[u] /\ (hurt'[u] <=> hurt[u])
        /\ met[u] \subseteq met'[u]
        /\ Busy(u) => ids \subseteq met'[u] /\ crowded'[u]
  BY EnterIs
<1>4. touch[t] = {}
  BY <1>2 DEF IdleInv
<1>5. TypeOK'
  <2>1. \A u \in Threads : step'[u] = "run" => program'[u] # <<>>
    BY <1>2, <1>3 DEF TypeOK
  <2>2. /\ view' \in Images /\ stored' \in Images /\ open' \in BOOLEAN /\ closed' \in BOOLEAN
        /\ due' \in [Ids -> Versions \cup {None}] /\ spoiled' \subseteq Ids /\ stray' \in BOOLEAN
        /\ (~open' => view' = stored') /\ (closed' => ~open')
    BY <1>1 DEF TypeOK
  <2> QED BY <2>1, <2>2, EnterIs DEF TypeOK
<1>6. IdleInv' /\ ResetInv'
  BY <1>1, <1>2, <1>3 DEF IdleInv, ResetInv
<1>7. Responsible' /\ RowsFinite'
  <2>1. (Busy(t))'
    BY <1>2 DEF Busy
  <2> QED BY <1>1, <2>1 DEF Responsible, RowsFinite, Rows
<1>8. Noticed'
  <2> SUFFICES ASSUME NEW u \in Threads, (Calling(u))'
               PROVE  /\ \A w \in Threads \ {u} : (Busy(w))' => touch'[w] \subseteq met'[u] /\ crowded'[u]
                      /\ ~current'[u] => crowded'[u]
    BY DEF Noticed, Others
  <2>1. CASE u = t
    <3>1. \A w \in Threads \ {t} : (Busy(w))' => w \in Others(t)
      BY <1>3 DEF Busy, Others
    <3>2. closed => Others(t) # {}
      BY <1>2 DEF ResetInv, Others, Busy
    <3> QED BY <1>2, <1>3, <2>1, <3>1, <3>2
  <2>2. CASE u # t
    <3>1. Calling(u) /\ Busy(u) /\ crowded'[u] /\ ids \subseteq met'[u] /\ met[u] \subseteq met'[u]
      BY <1>3, <2>2 DEF Calling, Busy
    <3>2. ASSUME NEW w \in Threads \ {u}, w # t, (Busy(w))' PROVE touch'[w] \subseteq met[u]
      <4>1. w \in Others(u) /\ touch'[w] = touch[w]
        BY <1>3, <3>2 DEF Busy, Others
      <4> QED BY <3>1, <4>1 DEF Noticed
    <3> QED BY <1>2, <3>1, <3>2
  <2> QED BY <2>1, <2>2
<1>9. EpisodesKept'
  <2> SUFFICES ASSUME NEW i \in Ids, i \notin spoiled, \A u \in Threads : i \notin touch'[u]
               PROVE  Whole(view, i, due[i]) /\ Whole(stored, i, due[i])
    BY <1>1 DEF EpisodesKept, Whole
  <2>1. \A u \in Threads : i \notin touch[u]
    BY <1>3, <1>4
  <2> QED BY <2>1 DEF EpisodesKept
<1>10. AloneInv'
  <2> SUFFICES ASSUME NEW u \in Threads, (Calling(u))', ~crowded'[u]
               PROVE  /\ step'[u] = "run" => open'
                      /\ \A i \in Ids \ spoiled : Whole(stored, i, due[i])
    BY <1>1 DEF AloneInv, Whole
  <2>1. u = t
    BY <1>3 DEF Calling, Busy
  <2>2. \A w \in Threads : touch[w] = {}
    BY <1>2, <1>4, <2>1 DEF Others, Busy, IdleInv
  <2> QED BY <1>2, <2>1, <2>2 DEF EpisodesKept
<1>11. Progress'
  <2> SUFFICES ASSUME NEW u \in Threads \ {t}, (Calling(u))' PROVE (Saving(u) \/ Deleting(u))'
    BY DEF Progress
  <2>1. Calling(u)
    BY <1>3 DEF Calling
  <2>2. \A i \in touch[u] : (Undisturbed(u, i))' => Undisturbed(u, i)
    BY <1>3 DEF Undisturbed
  <2> QED BY <1>1, <1>3, <2>1, <2>2, ProgressKept DEF Progress
<1> QED BY <1>5, <1>6, <1>7, <1>8, <1>9, <1>10, <1>11

\* A save begins with its three statements to come.
LEMMA SaveStep ==
  ASSUME EInv, NEW t \in Threads, NEW i \in Ids, NEW v \in Versions, SaveEpisode(t, i, v)
  PROVE  EInv'
<1>1. PICK flaw \in Flaws : Enter(t, SaveProgram(i, v, flaw), {i}, v)
  BY DEF SaveEpisode
<1>2. PICK p \in Seq(Statements) : p = SaveProgram(i, v, flaw)
  BY SaveProgramIs
<1>3. PICK ids \in SUBSET Ids : ids = {i}
  OBVIOUS
<1>4. Enter(t, p, ids, v) /\ TypeOK /\ v \in Versions \cup {None}
  BY <1>1, <1>2, <1>3 DEF EInv, ConnInv
<1>5. touch'[t] = {i} /\ goal'[t] = v /\ program'[t] = SaveProgram(i, v, flaw)
  BY <1>2, <1>3, <1>4, EnterIs
<1>6. Len(program'[t]) = 3 - 0 /\ 0 \in 0..3
  BY <1>5, SaveProgramIs
<1>7. \A k \in 1..(3 - 0) : program'[t][k] = SaveProgram(i, v, flaw)[0 + k]
  BY <1>5
<1>8. (Saved(t, i, v, flaw, 0))'
  BY <1>5, <1>6, <1>7 DEF Saved
<1>9. (Saving(t))'
  BY <1>6, <1>8 DEF Saving
<1> QED BY <1>4, <1>9, EnterStep

\* A collection begins with a statement for each of the dead.
LEMMA GcStep ==
  ASSUME EInv, NEW t \in Threads, GcExpired(t)
  PROVE  EInv'
<1>1. PICK order \in [1..Cardinality(Dead) -> Dead] :
        /\ {order[n] : n \in DOMAIN order} = Dead
        /\ Enter(t, [n \in DOMAIN order |-> Statement("delete", order[n], None, TRUE)], Dead, None)
  BY DEF GcExpired
<1>2. Cardinality(Dead) \in Nat /\ Dead \subseteq Ids
  <2>1. Dead \subseteq Rows(view) /\ IsFiniteSet(Rows(view))
    BY EpisodeConstants DEF EInv, ConnInv, RowsFinite, Dead, Rows
  <2>2. IsFiniteSet(Dead)
    BY <2>1, FS_Subset
  <2> QED BY <2>2, FS_CardinalityType DEF Dead
<1>3. DOMAIN order = 1..Cardinality(Dead)
  OBVIOUS
<1>4. \A n \in 1..Cardinality(Dead) : Statement("delete", order[n], None, TRUE) \in Statements
  BY <1>2 DEF Statement, Statements
<1>5. [n \in DOMAIN order |-> Statement("delete", order[n], None, TRUE)] \in Seq(Statements)
  <2>1. [n \in DOMAIN order |-> Statement("delete", order[n], None, TRUE)]
          \in [1..Cardinality(Dead) -> Statements]
    BY <1>3, <1>4, Zenon
  <2>2. \A N \in Nat : \A f \in [1..N -> Statements] : f \in Seq(Statements)
    BY SMT
  <2> QED BY <1>2, <2>1, <2>2, Zenon
<1>6. PICK p \in Seq(Statements) : p = [n \in DOMAIN order |-> Statement("delete", order[n], None, TRUE)]
  BY <1>5
<1>7. PICK ids \in SUBSET Ids : ids = Dead
  BY <1>2
<1>8. PICK g \in Versions \cup {None} : g = None
  OBVIOUS
<1>9. Enter(t, p, ids, g) /\ TypeOK
  BY <1>1, <1>6, <1>7, <1>8 DEF EInv, ConnInv
<1>10. touch'[t] = ids /\ goal'[t] = None /\ program'[t] = p
  BY <1>8, <1>9, EnterIs
<1>11. DOMAIN p = 1..Cardinality(Dead) /\ \A k \in DOMAIN p : p[k].do = "delete" /\ p[k].id = order[k]
  BY <1>3, <1>6 DEF Statement
<1>12. \A k \in DOMAIN p : p[k].do = "delete" /\ p[k].id \in ids
  BY <1>7, <1>11
<1>13. \A i \in ids : \E k \in DOMAIN p : p[k].id = i
  BY <1>1, <1>3, <1>7, <1>11
<1>14. (Deleting(t))'
  BY <1>10, <1>12, <1>13 DEF Deleting
<1> QED BY <1>9, <1>14, EnterStep

-------------------------------------------------------------------------------
(* Steps of the repository.                                                *)

\* A repository without episodes keeps each of them whole: as none.
LEMMA EmptyIs ==
  /\ Empty \in Images /\ Rows(Empty) = {} /\ IsFiniteSet(Rows(Empty))
  /\ \A i \in Ids : Whole(Empty, i, None)
<1>1. /\ Empty \in Images /\ Rows(Empty) = {} /\ \A i \in Ids : Whole(Empty, i, None)
  BY DEF Empty, Images, Rows, Whole
<1> QED BY <1>1, FS_EmptySet

\* Clearing is between calls: nothing is known of any before.
LEMMA ClearStep == EInv /\ Clear => EInv'
<1> SUFFICES ASSUME EInv, Clear PROVE EInv'
  OBVIOUS
<1> USE DEF EInv, ConnInv, KeptInv
<1>1. /\ view' = Empty /\ stored' = Empty /\ open' = FALSE /\ stray' = FALSE
      /\ due' = [i \in Ids |-> None] /\ spoiled' = {} /\ closed' = closed
      /\ step' = step /\ program' = program /\ current' = current /\ touch' = touch /\ goal' = goal
      /\ met' = met /\ crowded' = crowded /\ hurt' = hurt
      /\ \A t \in Threads : step[t] = "idle"
  BY DEF Clear, calls, Busy
<1>2. TypeOK'
  <2>1. /\ step' \in [Threads -> {"idle", "look", "begin", "run", "commit", "reopen"}]
        /\ program' \in [Threads -> Seq(Statements)] /\ current' \in [Threads -> BOOLEAN]
        /\ touch' \in [Threads -> SUBSET Ids] /\ goal' \in [Threads -> Versions \cup {None}]
        /\ met' \in [Threads -> SUBSET Ids] /\ crowded' \in [Threads -> BOOLEAN]
        /\ hurt' \in [Threads -> BOOLEAN] /\ closed' \in BOOLEAN
        /\ \A t \in Threads : step'[t] = "run" => program'[t] # <<>>
    BY <1>1 DEF TypeOK
  <2>2. /\ view' \in Images /\ stored' \in Images /\ open' \in BOOLEAN
        /\ due' \in [Ids -> Versions \cup {None}] /\ spoiled' \subseteq Ids /\ stray' \in BOOLEAN
        /\ (~open' => view' = stored') /\ (closed' => ~open')
    BY <1>1, EmptyIs
  <2> QED BY <2>1, <2>2 DEF TypeOK
<1>3. IdleInv' /\ ResetInv' /\ Responsible'
  BY <1>1 DEF IdleInv, ResetInv, Responsible
<1>4. RowsFinite'
  BY <1>1, EmptyIs DEF RowsFinite, Rows
<1>5. Noticed' /\ AloneInv' /\ Progress'
  <2>1. \A t \in Threads : ~(Calling(t))'
    BY <1>1 DEF Calling
  <2> QED BY <2>1 DEF Noticed, AloneInv, Progress
<1>6. EpisodesKept'
  BY <1>1, EmptyIs DEF EpisodesKept, Whole
<1> QED BY <1>2, <1>3, <1>4, <1>5, <1>6

\* The calls a rollback or a reset hurts are all that run, but the one it is of.
LEMMA HurtingIs ==
  ASSUME TypeOK, NEW t \in Threads
  PROVE  /\ Hurting(t) \in [Threads -> BOOLEAN]
         /\ \A u \in Threads \ {t} : Busy(u) => Hurting(t)[u]
BY DEF Hurting, TypeOK, Busy

\* The first step of a reset hurts every call that runs.
LEMMA ResetStep ==
  ASSUME EInv, NEW t \in Threads, Reset(t)
  PROVE  EInv'
<1> USE DEF EInv, ConnInv, KeptInv
<1>1. /\ view' = Empty /\ stored' = Empty /\ open' = FALSE /\ stray' = FALSE /\ closed' = TRUE
      /\ due' = [i \in Ids |-> None] /\ spoiled' = UNION {touch[u] : u \in Others(t)}
      /\ program' = program /\ touch' = touch /\ goal' = goal /\ met' = met
      /\ current' = [u \in Threads |-> FALSE]
      /\ crowded' = [u \in Threads |-> crowded[u] \/ u \in Others(t)]
      /\ hurt' = Hurting(t) /\ step[t] = "idle" /\ ~closed
  BY DEF Reset, Busy
<1>2. /\ step'[t] = "reopen" /\ \A u \in Threads \ {t} : step'[u] = step[u]
      /\ step' \in [Threads -> {"idle", "look", "begin", "run", "commit", "reopen"}]
  BY DEF Reset, TypeOK
<1>3. touch[t] = {} /\ program[t] = <<>>
  BY <1>1 DEF IdleInv
<1>4. \A u \in Threads : step[u] # "reopen"
  BY <1>1 DEF ResetInv
<1>5. \A u \in Threads : (Calling(u))' =>
        u # t /\ Calling(u) /\ u \in Others(t) /\ hurt'[u] /\ crowded'[u]
  <2> SUFFICES ASSUME NEW u \in Threads, (Calling(u))'
               PROVE  u # t /\ Calling(u) /\ u \in Others(t) /\ hurt'[u] /\ crowded'[u]
    OBVIOUS
  <2>1. u # t /\ Calling(u) /\ Busy(u)
    BY <1>2 DEF Calling, Busy
  <2>2. u \in Others(t)
    BY <2>1 DEF Others
  <2>3. hurt'[u]
    BY <1>1, <2>1, HurtingIs
  <2> QED BY <1>1, <2>1, <2>2, <2>3
<1>6. TypeOK'
  <2>1. crowded' \in [Threads -> BOOLEAN]
    BY <1>1 DEF TypeOK
  <2>2. hurt' \in [Threads -> BOOLEAN]
    BY <1>1, HurtingIs
  <2>3. /\ spoiled' \subseteq Ids /\ due' \in [Ids -> Versions \cup {None}]
        /\ current' \in [Threads -> BOOLEAN]
    BY <1>1 DEF TypeOK, Others
  <2>4. \A u \in Threads : step'[u] = "run" => program'[u] # <<>>
    BY <1>1, <1>2 DEF TypeOK
  <2>5. /\ view' \in Images /\ stored' \in Images /\ open' \in BOOLEAN /\ closed' \in BOOLEAN
        /\ stray' \in BOOLEAN /\ (~open' => view' = stored') /\ (closed' => ~open')
    BY <1>1, EmptyIs
  <2>6. /\ program' \in [Threads -> Seq(Statements)] /\ touch' \in [Threads -> SUBSET Ids]
        /\ goal' \in [Threads -> Versions \cup {None}] /\ met' \in [Threads -> SUBSET Ids]
    BY <1>1 DEF TypeOK
  <2> QED BY <1>2, <2>1, <2>2, <2>3, <2>4, <2>5, <2>6 DEF TypeOK
<1>7. IdleInv'
  BY <1>1, <1>2, <1>3 DEF IdleInv
<1>8. ResetInv' /\ Responsible'
  BY <1>1, <1>2, <1>4 DEF ResetInv, Responsible
<1>9. RowsFinite'
  BY <1>1, EmptyIs DEF RowsFinite, Rows
<1>10. Noticed'
  <2> SUFFICES ASSUME NEW u \in Threads, (Calling(u))'
               PROVE  /\ \A w \in Threads \ {u} : (Busy(w))' => touch'[w] \subseteq met'[u] /\ crowded'[u]
                      /\ ~current'[u] => crowded'[u]
    BY DEF Noticed, Others
  <2>1. u # t /\ Calling(u) /\ crowded'[u]
    BY <1>5
  <2>2. ASSUME NEW w \in Threads \ {u}, (Busy(w))' PROVE touch'[w] \subseteq met'[u]
    <3>1. CASE w = t
      BY <1>1, <1>3, <3>1
    <3>2. CASE w # t
      <4>1. w \in Others(u)
        BY <1>2, <2>2, <3>2 DEF Others, Busy
      <4> QED BY <1>1, <2>1, <4>1 DEF Noticed
    <3> QED BY <3>1, <3>2
  <2> QED BY <2>1, <2>2
<1>11. AloneInv'
  BY <1>5 DEF AloneInv
<1>12. Progress'
  <2> SUFFICES ASSUME NEW u \in Threads, (Calling(u))' PROVE (Saving(u) \/ Deleting(u))'
    BY DEF Progress
  <2>1. \A i \in touch[u] : ~(Undisturbed(u, i))'
    BY <1>5 DEF Undisturbed
  <2>2. Saving(u) \/ Deleting(u)
    BY <1>5 DEF Progress
  <2> QED BY <1>1, <2>1, <2>2, ProgressKept
<1>13. EpisodesKept'
  BY <1>1, EmptyIs DEF EpisodesKept, Whole
<1> QED BY <1>6, <1>7, <1>8, <1>9, <1>10, <1>11, <1>12, <1>13

\* The second step hurts those that began since the first.
LEMMA ReopenStep ==
  ASSUME EInv, NEW t \in Threads, Reopen(t)
  PROVE  EInv'
<1> USE DEF EInv, ConnInv, KeptInv
<1>1. /\ view' = view /\ stored' = stored /\ open' = open /\ stray' = stray /\ closed' = FALSE
      /\ due' = due /\ spoiled' = spoiled \cup UNION {touch[u] : u \in Others(t)}
      /\ hurt' = Hurting(t) /\ step[t] = "reopen" /\ Leave(t)
  BY DEF Reopen
<1>2. /\ step'[t] = "idle" /\ program'[t] = <<>> /\ touch'[t] = {} /\ crowded'[t] = FALSE
      /\ \A u \in Threads \ {t} :
           /\ step'[u] = step[u] /\ program'[u] = program[u] /\ current'[u] = current[u]
           /\ touch'[u] = touch[u] /\ goal'[u] = goal[u] /\ met'[u] = met[u]
           /\ crowded'[u] = crowded[u]
  BY <1>1, LeaveIs
<1>3. ~open /\ touch[t] = {} /\ \A u \in Threads \ {t} : step[u] # "reopen"
  BY <1>1 DEF ResetInv, TypeOK, IdleInv
<1>4. \A u \in Threads : (Calling(u))' => u # t /\ Calling(u) /\ hurt'[u] /\ crowded[u]
  <2> SUFFICES ASSUME NEW u \in Threads, (Calling(u))'
               PROVE  u # t /\ Calling(u) /\ hurt'[u] /\ crowded[u]
    OBVIOUS
  <2>1. u # t /\ Calling(u) /\ Busy(u)
    BY <1>2 DEF Calling, Busy
  <2>2. hurt'[u]
    BY <1>1, <2>1, HurtingIs
  <2>3. t \in Others(u)
    BY <1>1, <2>1 DEF Others, Busy
  <2> QED BY <2>1, <2>2, <2>3 DEF Noticed
<1>5. TypeOK'
  <2>1. hurt' \in [Threads -> BOOLEAN]
    BY <1>1, HurtingIs
  <2>2. spoiled' \subseteq Ids
    BY <1>1 DEF TypeOK, Others
  <2>3. /\ view' \in Images /\ stored' \in Images /\ open' \in BOOLEAN /\ closed' \in BOOLEAN
        /\ stray' \in BOOLEAN /\ (~open' => view' = stored') /\ (closed' => ~open')
        /\ due' \in [Ids -> Versions \cup {None}]
    BY <1>1 DEF TypeOK
  <2> QED BY <1>1, <2>1, <2>2, <2>3, LeaveIs DEF TypeOK
<1>6. IdleInv'
  BY <1>2 DEF IdleInv
<1>7. ResetInv' /\ Responsible' /\ RowsFinite'
  BY <1>1, <1>2, <1>3 DEF ResetInv, Responsible, RowsFinite, Rows
<1>8. Noticed'
  BY <1>2, <1>4 DEF Noticed, Others, Busy
<1>9. AloneInv'
  BY <1>2, <1>4 DEF AloneInv
<1>10. Progress'
  <2> SUFFICES ASSUME NEW u \in Threads, (Calling(u))' PROVE (Saving(u) \/ Deleting(u))'
    BY DEF Progress
  <2>1. \A i \in touch[u] : ~(Undisturbed(u, i))'
    BY <1>4 DEF Undisturbed
  <2>2. u # t /\ (Saving(u) \/ Deleting(u))
    BY <1>4 DEF Progress
  <2> QED BY <1>2, <2>1, <2>2, ProgressKept
<1>11. EpisodesKept'
  <2> SUFFICES ASSUME NEW i \in Ids, i \notin spoiled', \A u \in Threads : i \notin touch'[u]
               PROVE  Whole(view, i, due[i]) /\ Whole(stored, i, due[i])
    BY <1>1 DEF EpisodesKept, Whole
  <2>1. i \notin spoiled /\ \A u \in Threads : i \notin touch[u]
    BY <1>1, <1>2, <1>3
  <2> QED BY <2>1 DEF EpisodesKept
<1> QED BY <1>5, <1>6, <1>7, <1>8, <1>9, <1>10, <1>11

-------------------------------------------------------------------------------
(* Steps of a call.                                                        *)

\* Looking for a transaction: the next statement, the commit or the end.
LEMMA LookStep ==
  ASSUME EInv, NEW t \in Threads, Look(t)
  PROVE  EInv'
<1>0. Calling(t)
  BY DEF Look, Calling
<1>1. CASE Fail(t)
  BY <1>0, <1>1, FailStep
<1>2. CASE /\ ~closed /\ program[t] # <<>>
           /\ step' = [step EXCEPT ![t] = IF open THEN "run" ELSE "begin"]
           /\ UNCHANGED <<tables, program, current, touch, goal, history>>
  <2>1. PICK l \in {"begin", "run", "commit"} : l = (IF open THEN "run" ELSE "begin")
    OBVIOUS
  <2>2. step' = [step EXCEPT ![t] = l] /\ (l = "run" => open)
    BY <1>2, <2>1
  <2>3. UNCHANGED <<view, stored, closed, program, current, touch, goal, history>> /\ open' = open
    BY <1>2 DEF tables
  <2> QED BY <1>0, <1>2, <2>2, <2>3, MoveStep
<1>3. CASE /\ ~closed /\ program[t] = <<>> /\ current[t] /\ open
           /\ step' = [step EXCEPT ![t] = "commit"]
           /\ UNCHANGED <<tables, program, current, touch, goal, history>>
  <2>1. UNCHANGED <<view, stored, closed, program, current, touch, goal, history>> /\ open' = open
    BY <1>3 DEF tables
  <2> QED BY <1>0, <1>3, <2>1, MoveStep
<1>4. CASE /\ ~closed /\ program[t] = <<>> /\ current[t] /\ ~open
           /\ Succeed(t)
           /\ UNCHANGED <<tables, stray>>
  <2>1. /\ view' = view /\ stored' = view /\ open' = FALSE /\ closed' = closed /\ stray' \in BOOLEAN
    BY <1>4 DEF tables, EInv, ConnInv, TypeOK
  <2> QED BY <1>0, <1>4, <2>1, SucceedStep
<1> QED BY <1>1, <1>2, <1>3, <1>4 DEF Look

\* Beginning a transaction executes nothing.
LEMMA BeginStep ==
  ASSUME EInv, NEW t \in Threads, Begin(t)
  PROVE  EInv'
<1>0. Calling(t) /\ program[t] # <<>>
  BY DEF Begin, Calling, EInv, ConnInv, IdleInv
<1>1. CASE Fail(t)
  BY <1>0, <1>1, FailStep
<1>2. CASE /\ ~closed /\ ~open
           /\ open' = TRUE
           /\ step' = [step EXCEPT ![t] = "run"]
           /\ UNCHANGED <<view, stored, closed, program, current, touch, goal, history>>
  BY <1>0, <1>2, MoveStep
<1> QED BY <1>1, <1>2 DEF Begin

\* A statement fails or is executed.
LEMMA RunStep ==
  ASSUME EInv, NEW t \in Threads, Run(t)
  PROVE  EInv'
<1>0. Calling(t) /\ step[t] = "run"
  BY DEF Run, Calling
<1>1. CASE Fail(t)
  BY <1>0, <1>1, FailStep
<1>2. CASE /\ ~closed
           /\ view' = Effect(view, Head(program[t]))
           /\ stored' = IF open THEN stored ELSE view'
           /\ program' = [program EXCEPT ![t] = Tail(@)]
           /\ step' = [step EXCEPT ![t] = "look"]
           /\ UNCHANGED <<open, closed, current, touch, goal, history>>
  BY <1>0, <1>2, ExecuteStep
<1> QED BY <1>1, <1>2 DEF Run

\* A commit fails, or ends the call.
LEMMA CommitStep ==
  ASSUME EInv, NEW t \in Threads, Commit(t)
  PROVE  EInv'
<1>0. Calling(t) /\ program[t] = <<>>
  BY DEF Commit, Calling, EInv, ConnInv, IdleInv
<1>1. CASE Fail(t)
  BY <1>0, <1>1, FailStep
<1>2. CASE /\ ~closed /\ current[t] /\ open
           /\ stored' = view
           /\ open' = FALSE
           /\ stray' = FALSE
           /\ Succeed(t)
           /\ UNCHANGED <<view, closed>>
  BY <1>0, <1>2, SucceedStep
<1> QED BY <1>1, <1>2 DEF Commit

-------------------------------------------------------------------------------
(* The theorems.                                                           *)

\* A step that changes nothing.
LEMMA StutterStep == EInv /\ UNCHANGED vars => EInv'
<1> SUFFICES ASSUME EInv, UNCHANGED vars PROVE EInv'
  OBVIOUS
<1> USE DEF EInv, ConnInv, KeptInv
<1>1. /\ view' = view /\ stored' = stored /\ open' = open /\ closed' = closed /\ step' = step
      /\ program' = program /\ current' = current /\ touch' = touch /\ goal' = goal /\ met' = met
      /\ crowded' = crowded /\ hurt' = hurt /\ due' = due /\ spoiled' = spoiled /\ stray' = stray
  BY DEF vars, tables, calls, history
<1>2. TypeOK'
  BY <1>1 DEF TypeOK
<1>3. IdleInv' /\ ResetInv' /\ Responsible' /\ RowsFinite'
  BY <1>1 DEF IdleInv, ResetInv, Responsible, RowsFinite, Rows, Busy
<1>4. Noticed' /\ AloneInv' /\ EpisodesKept'
  BY <1>1 DEF Noticed, AloneInv, EpisodesKept, Whole, Others, Busy, Calling
<1>5. Progress'
  <2> SUFFICES ASSUME NEW u \in Threads, (Calling(u))' PROVE (Saving(u) \/ Deleting(u))'
    BY DEF Progress
  <2>1. Calling(u) /\ \A i \in touch[u] : (Undisturbed(u, i))' => Undisturbed(u, i)
    BY <1>1 DEF Calling, Undisturbed
  <2> QED BY <1>1, <2>1, ProgressKept DEF Progress
<1> QED BY <1>2, <1>3, <1>4, <1>5

\* A new repository has no episodes and no calls.
LEMMA InitEInv == Init => EInv
<1> SUFFICES ASSUME Init PROVE EInv
  OBVIOUS
<1> USE DEF Init
<1>1. \A t \in Threads : step[t] = "idle" /\ program[t] = <<>> /\ touch[t] = {}
  OBVIOUS
<1>2. TypeOK
  <2>1. program \in [Threads -> Seq(Statements)]
    <3>1. <<>> \in Seq(Statements)
      OBVIOUS
    <3> QED BY <3>1
  <2>2. view \in Images /\ stored \in Images
    BY EmptyIs
  <2>3. \A t \in Threads : step[t] = "run" => program[t] # <<>>
    BY <1>1
  <2> QED BY <2>1, <2>2, <2>3 DEF TypeOK
<1>3. IdleInv /\ ResetInv /\ Responsible
  BY <1>1 DEF IdleInv, ResetInv, Responsible
<1>4. RowsFinite
  BY EmptyIs DEF RowsFinite
<1>5. Noticed /\ AloneInv /\ Progress
  BY <1>1 DEF Noticed, AloneInv, Progress, Calling
<1>6. EpisodesKept
  BY EmptyIs DEF EpisodesKept
<1> QED BY <1>2, <1>3, <1>4, <1>5, <1>6 DEF EInv, ConnInv, KeptInv

\* Every step keeps the invariant.
LEMMA NextStep == EInv /\ [Next]_vars => EInv'
<1> SUFFICES ASSUME EInv, [Next]_vars PROVE EInv'
  OBVIOUS
<1>1. CASE Clear
  BY <1>1, ClearStep
<1>2. ASSUME NEW t \in Threads, NEW i \in Ids, NEW v \in Versions, SaveEpisode(t, i, v)
      PROVE  EInv'
  BY <1>2, SaveStep
<1>3. ASSUME NEW t \in Threads, GcExpired(t) PROVE EInv'
  BY <1>3, GcStep
<1>4. ASSUME NEW t \in Threads, Look(t) PROVE EInv'
  BY <1>4, LookStep
<1>5. ASSUME NEW t \in Threads, Begin(t) PROVE EInv'
  BY <1>5, BeginStep
<1>6. ASSUME NEW t \in Threads, Run(t) PROVE EInv'
  BY <1>6, RunStep
<1>7. ASSUME NEW t \in Threads, Commit(t) PROVE EInv'
  BY <1>7, CommitStep
<1>8. ASSUME NEW t \in Threads, Reset(t) PROVE EInv'
  BY <1>8, ResetStep
<1>9. ASSUME NEW t \in Threads, Reopen(t) PROVE EInv'
  BY <1>9, ReopenStep
<1>10. CASE UNCHANGED vars
  BY <1>10, StutterStep
<1> QED BY <1>1, <1>2, <1>3, <1>4, <1>5, <1>6, <1>7, <1>8, <1>9, <1>10 DEF Next

\* The invariant holds whatever calls of whatever threads share the connection.
THEOREM EpisodeInvariant == Spec => []EInv
BY InitEInv, NextStep, PTL DEF Spec

\* The tables, the calls and the history keep their types; outside a transaction
\* the tables are the committed ones.
THEOREM TypeCorrect == Spec => []TypeOK
<1>1. EInv => TypeOK
  BY DEF EInv, ConnInv
<1> QED BY <1>1, EpisodeInvariant, PTL

\* An episode no call is about is the version saved last with the events of that
\* version alone, committed, unless a call about it overlapped another one, was
\* hurt by a rollback or a reset, or raised beside another (save_episode,
\* gc_expired, clear and the reset of the connection, by any number of threads).
THEOREM EpisodesAlwaysKept == Spec => []EpisodesKept
<1>1. EInv => EpisodesKept
  BY DEF EInv, KeptInv
<1> QED BY <1>1, EpisodeInvariant, PTL

\* When every call has returned no transaction is open, unless a call that ran
\* across a reset has left one on the new connection.
THEOREM QuietAlwaysCommitted == Spec => []QuietMeansCommitted
<1>1. EInv => QuietMeansCommitted
  BY DEF EInv, ConnInv, Responsible, QuietMeansCommitted
<1> QED BY <1>1, EpisodeInvariant, PTL
===============================================================================
