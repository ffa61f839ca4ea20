---------------------------- MODULE EpisodeStore ----------------------------
(***************************************************************************)
(* The episodes and their events in SQLite                                 *)
(* (src/infra/repo/episodic_repo.py, EpisodicRepo), as the HTTP server uses*)
(* them: the endpoints run in a pool of threads (src/app/main.py) that     *)
(* share one connection, opened with check_same_thread=False.              *)
(*                                                                         *)
(* A call is a block "with self._conn" around a few statements; leaving it *)
(* commits, or rolls back when a statement raised.  The transaction belongs*)
(* to the connection and not to the call: a statement begins one if it saw *)
(* none, any call that leaves its block commits what all of them did, and  *)
(* any that fails rolls all of it back.  Looking for a transaction and     *)
(* beginning or committing it are two steps of the sqlite3 module, so two  *)
(* threads may both begin, or both commit; the second one fails.           *)
(*                                                                         *)
(* An episode is kept as the version of it that was saved last, and its    *)
(* events as the set of versions they come from: how many events a version *)
(* has, and whether one is there twice, is left out.  Searching and        *)
(* exporting read the tables and change nothing.                           *)
(***************************************************************************)
EXTENDS Integers, Sequences, FiniteSets

CONSTANTS Threads, Ids,
          Versions,   \* what is saved under an identifier
          Expiring,   \* versions whose expire_at has come when a collection runs
          Flaws,      \* what may be wrong with what is saved
          None

ASSUME EpisodeConstants ==
  /\ None \notin Versions /\ Expiring \subseteq Versions
  /\ Flaws \subseteq {"none", "meta", "refs"}

Images == [rows : [Ids -> Versions \cup {None}], events : [Ids -> SUBSET Versions]]
Empty == [rows |-> [i \in Ids |-> None], events |-> [i \in Ids |-> {}]]

\* A statement; one that is not sound has a value SQLite cannot take.
Statements == [do : {"upsert", "strip", "insert", "delete"}, id : Ids,
               ver : Versions \cup {None}, sound : BOOLEAN]

VARIABLES view,     \* the tables, as every statement sees them
          stored,   \* the tables, as they were last committed
          open,     \* the connection is in a transaction
          closed,   \* between the two steps of POST /admin/reset
          step,     \* per thread
          program,  \* per thread: the statements its call has still to run
          current,  \* per thread: the connection its block was entered with is in use
          touch,    \* per thread: the identifiers its call is about
          goal,     \* per thread: what its call makes of them
          met,      \* history, per thread: identifiers of calls that overlapped
          crowded,  \* history, per thread: another call overlapped
          hurt,     \* history, per thread: another call rolled back, or a reset
          due,      \* history: what each identifier should have (None if not known)
          spoiled,  \* history: identifiers of which that is not known
          stray     \* history: a call left a transaction it could not end

tables == <<view, stored, open, closed>>
calls == <<step, program, current, touch, goal>>
history == <<met, crowded, hurt, due, spoiled, stray>>
vars == <<tables, calls, history>>

Busy(t) == step[t] # "idle"
Others(t) == {u \in Threads \ {t} : Busy(u)}

TypeOK ==
  /\ view \in Images /\ stored \in Images
  /\ open \in BOOLEAN /\ closed \in BOOLEAN
  /\ step \in [Threads -> {"idle", "look", "begin", "run", "commit", "reopen"}]
  /\ program \in [Threads -> Seq(Statements)]
  /\ current \in [Threads -> BOOLEAN]
  /\ touch \in [Threads -> SUBSET Ids]
  /\ goal \in [Threads -> Versions \cup {None}]
  /\ met \in [Threads -> SUBSET Ids]
  /\ crowded \in [Threads -> BOOLEAN]
  /\ hurt \in [Threads -> BOOLEAN]
  /\ due \in [Ids -> Versions \cup {None}]
  /\ spoiled \subseteq Ids
  /\ stray \in BOOLEAN
  /\ ~open => view = stored
  /\ closed => ~open
  /\ \A t \in Threads : step[t] = "run" => program[t] # <<>>

Init ==
  /\ view = Empty /\ stored = Empty
  /\ open = FALSE /\ closed = FALSE
  /\ step = [t \in Threads |-> "idle"]
  /\ program = [t \in Threads |-> <<>>]
  /\ current = [t \in Threads |-> FALSE]
  /\ touch = [t \in Threads |-> {}]
  /\ goal = [t \in Threads |-> None]
  /\ met = [t \in Threads |-> {}]
  /\ crowded = [t \in Threads |-> FALSE]
  /\ hurt = [t \in Threads |-> FALSE]
  /\ due = [i \in Ids |-> None]
  /\ spoiled = {}
  /\ stray = FALSE

-------------------------------------------------------------------------------
(* Entering and leaving a call.                                            *)

Meet(t, ids) ==
  /\ met' = [u \in Threads |->
       IF u = t THEN UNION {touch[w] : w \in Others(t)}
       ELSE IF Busy(u) THEN met[u] \cup ids ELSE met[u]]
  /\ crowded' = [u \in Threads |->
       IF u = t THEN Others(t) # {} ELSE crowded[u] \/ Busy(u)]
  /\ hurt' = [hurt EXCEPT ![t] = FALSE]

Enter(t, p, ids, g) ==
  /\ ~Busy(t)
  /\ step' = [step EXCEPT ![t] = "look"]
  /\ program' = [program EXCEPT ![t] = p]
  /\ current' = [current EXCEPT ![t] = ~closed]
  /\ touch' = [touch EXCEPT ![t] = ids]
  /\ goal' = [goal EXCEPT ![t] = g]
  /\ Meet(t, ids)
  /\ UNCHANGED <<tables, due, spoiled, stray>>

Leave(t) ==
  /\ step' = [step EXCEPT ![t] = "idle"]
  /\ program' = [program EXCEPT ![t] = <<>>]
  /\ current' = [current EXCEPT ![t] = FALSE]
  /\ touch' = [touch EXCEPT ![t] = {}]
  /\ goal' = [goal EXCEPT ![t] = None]
  /\ met' = [met EXCEPT ![t] = {}]
  /\ crowded' = [crowded EXCEPT ![t] = FALSE]

\* The call returns.  What it made of its identifiers is known, except of those
\* that a call which overlapped it was about too.
Succeed(t) ==
  LET known == IF hurt[t] THEN {} ELSE touch[t] \ met[t] IN
  /\ Leave(t)
  /\ due' = [i \in Ids |-> IF i \in known THEN goal[t]
                            ELSE IF i \in touch[t] THEN None ELSE due[i]]
  /\ spoiled' = (spoiled \ touch[t]) \cup (touch[t] \ known)
  /\ hurt' = [hurt EXCEPT ![t] = FALSE]

\* The other calls that run are hurt, t's own is over.
Hurting(t) == [u \in Threads |-> u # t /\ (hurt[u] \/ Busy(u))]

Rollback ==
  /\ view' = stored
  /\ open' = FALSE
  /\ stray' = FALSE

\* Alone, a call that raises leaves no trace; otherwise others may have committed
\* part of it.
Spoil(t) ==
  IF crowded[t]
  THEN /\ spoiled' = spoiled \cup touch[t]
       /\ due' = [i \in Ids |-> IF i \in touch[t] THEN None ELSE due[i]]
  ELSE UNCHANGED <<spoiled, due>>

\* A defect: nothing is rolled back.
FailKeeps(t) ==
  /\ Leave(t)
  /\ Spoil(t)
  /\ hurt' = [hurt EXCEPT ![t] = FALSE]
  /\ UNCHANGED <<tables, stray>>

\* The call raises.  Its block rolls back, on the connection it was entered with.
Fail(t) ==
  /\ Leave(t)
  /\ IF current[t]
     THEN /\ Rollback
          /\ hurt' = Hurting(t)
     ELSE /\ stray' = (stray \/ open)
          /\ hurt' = [hurt EXCEPT ![t] = FALSE]
          /\ UNCHANGED <<view, open>>
  /\ Spoil(t)
  /\ UNCHANGED <<stored, closed>>

-------------------------------------------------------------------------------
(* Statements.                                                             *)

\* The statement sees whether there is a transaction; after the last one the
\* end of the block does.
Look(t) ==
  /\ step[t] = "look"
  /\ \/ closed /\ Fail(t)
     \/ /\ ~closed /\ program[t] # <<>>
        /\ step' = [step EXCEPT ![t] = IF open THEN "run" ELSE "begin"]
        /\ UNCHANGED <<tables, program, current, touch, goal, history>>
     \/ /\ ~closed /\ program[t] = <<>> /\ current[t] /\ open
        /\ step' = [step EXCEPT ![t] = "commit"]
        /\ UNCHANGED <<tables, program, current, touch, goal, history>>
     \/ /\ ~closed /\ program[t] = <<>> /\ current[t] /\ ~open
        /\ Succeed(t)
        /\ UNCHANGED <<tables, stray>>
     \/ ~closed /\ program[t] = <<>> /\ ~current[t] /\ Fail(t)

\* "cannot start a transaction within a transaction" if another thread has begun.
Begin(t) ==
  /\ step[t] = "begin"
  /\ \/ (closed \/ open) /\ Fail(t)
     \/ /\ ~closed /\ ~open
        /\ open' = TRUE
        /\ step' = [step EXCEPT ![t] = "run"]
        /\ UNCHANGED <<view, stored, closed, program, current, touch, goal, history>>

Effect(image, s) ==
  CASE s.do = "upsert" -> [image EXCEPT !.rows[s.id] = s.ver]
    [] s.do = "strip"  -> [image EXCEPT !.events[s.id] = {}]
    [] s.do = "insert" -> [image EXCEPT !.events[s.id] = @ \cup {s.ver}]
    [] s.do = "delete" -> [image EXCEPT !.rows[s.id] = None, !.events[s.id] = {}]

\* An event needs the row of its episode.
Refused(s) == ~s.sound \/ (s.do = "insert" /\ view.rows[s.id] = None)

\* Outside a transaction, when another thread has ended it since, a statement
\* commits itself.
Run(t) ==
  /\ step[t] = "run"
  /\ LET s == Head(program[t]) IN
     \/ (closed \/ Refused(s)) /\ Fail(t)
     \/ /\ ~closed /\ ~Refused(s)
        /\ view' = Effect(view, s)
        /\ stored' = IF open THEN stored ELSE view'
        /\ program' = [program EXCEPT ![t] = Tail(@)]
        /\ step' = [step EXCEPT ![t] = "look"]
        /\ UNCHANGED <<open, closed, current, touch, goal, history>>

\* "cannot commit - no transaction is active" if another thread has ended it.
Commit(t) ==
  /\ step[t] = "commit"
  /\ \/ (closed \/ ~current[t] \/ ~open) /\ Fail(t)
     \/ /\ ~closed /\ current[t] /\ open
        /\ stored' = view
        /\ open' = FALSE
        /\ stray' = FALSE
        /\ Succeed(t)
        /\ UNCHANGED <<view, closed>>

-------------------------------------------------------------------------------
(* The calls.                                                              *)

Statement(do, i, v, sound) == [do |-> do, id |-> i, ver |-> v, sound |-> sound]

\* A defect: the events saved before stay.
SaveProgramAdds(i, v, flaw) ==
  <<Statement("upsert", i, v, flaw # "meta"), Statement("insert", i, v, flaw # "refs")>>

SaveProgram(i, v, flaw) ==
  <<Statement("upsert", i, v, flaw # "meta"), Statement("strip", i, v, TRUE),
    Statement("insert", i, v, flaw # "refs")>>

\* meta is bound with the row, refs with the events; either may hold a string
\* that has no UTF-8 form.
SaveEpisode(t, i, v) ==
  \E flaw \in Flaws : Enter(t, SaveProgram(i, v, flaw), {i}, v)

Dead == {i \in Ids : view.rows[i] \in Expiring}

\* The dead are read before the first is deleted.
GcExpired(t) ==
  \E order \in [1..Cardinality(Dead) -> Dead] :
    /\ {order[n] : n \in DOMAIN order} = Dead
    /\ ~closed
    /\ Enter(t, [n \in DOMAIN order |-> Statement("delete", order[n], None, TRUE)], Dead, None)

\* Used by the command line and the MCP server, one call at a time.
Clear ==
  /\ \A t \in Threads : ~Busy(t)
  /\ view' = Empty /\ stored' = Empty /\ open' = FALSE /\ stray' = FALSE
  /\ due' = [i \in Ids |-> None] /\ spoiled' = {}
  /\ UNCHANGED <<closed, calls, met, crowded, hurt>>

\* POST /admin/reset closes the connection...
Reset(t) ==
  /\ ~Busy(t) /\ ~closed
  /\ closed' = TRUE /\ open' = FALSE /\ stray' = FALSE
  /\ view' = Empty /\ stored' = Empty
  /\ step' = [step EXCEPT ![t] = "reopen"]
  /\ current' = [u \in Threads |-> FALSE]
  /\ met' = met
  /\ crowded' = [u \in Threads |-> crowded[u] \/ u \in Others(t)]
  /\ hurt' = Hurting(t)
  /\ due' = [i \in Ids |-> None]
  /\ spoiled' = UNION {touch[u] : u \in Others(t)}
  /\ UNCHANGED <<program, touch, goal>>

\* ...and opens another, to a database in memory.
Reopen(t) ==
  /\ step[t] = "reopen"
  /\ closed' = FALSE
  /\ Leave(t)
  /\ hurt' = Hurting(t)
  /\ spoiled' = spoiled \cup UNION {touch[u] : u \in Others(t)}
  /\ UNCHANGED <<view, stored, open, due, stray>>

Next ==
  \/ Clear
  \/ \E t \in Threads :
       \/ \E i \in Ids, v \in Versions : SaveEpisode(t, i, v)
       \/ GcExpired(t)
       \/ Look(t) \/ Begin(t) \/ Run(t) \/ Commit(t)
       \/ Reset(t) \/ Reopen(t)

Spec == Init /\ [][Next]_vars

-------------------------------------------------------------------------------
(* Properties.                                                             *)

Whole(image, i, v) ==
  /\ image.rows[i] = v
  /\ image.events[i] = (IF v = None THEN {} ELSE {v})

\* The episode of an identifier that no call is about is the one last saved,
\* with the events of that version and no others, committed, whatever calls
\* about other identifiers run beside: a save that returned has stored it, and
\* one that raised has left no trace.  The exceptions are an identifier of two
\* calls that overlapped, of a call that was running when another rolled back or
\* the repository was reset, and of one that raised while another ran.
EpisodesKept ==
  \A i \in Ids \ spoiled :
    (\A t \in Threads : i \notin touch[t]) => Whole(view, i, due[i]) /\ Whole(stored, i, due[i])

\* When no call runs all that a search sees is committed, so that no later
\* failure can take it back, unless a call that ran across a reset has left a
\* transaction of the new connection open.
QuietMeansCommitted ==
  (\A t \in Threads : ~Busy(t)) => ~open \/ stray
==============================================================================
