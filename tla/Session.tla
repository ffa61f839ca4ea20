------------------------------- MODULE Session -------------------------------
(***************************************************************************)
(* The session of an agent (src/app/memory.py): turns of a dialogue are    *)
(* buffered, and a commit puts them before a distiller, filters what it    *)
(* proposes (src/app/session_distillation.py) and writes the rest.         *)
(*                                                                         *)
(* An agent may use the facade from several threads, as graph nodes do; a  *)
(* call to the distiller takes seconds, and turns are said meanwhile.  One *)
(* commit is under way at a time (a bound); its distiller has answered     *)
(* when it begins, and its items are written one by one after that.        *)
(***************************************************************************)
EXTENDS Memory, Sequences

CONSTANTS Statements,     \* what may be said in a turn
          Distillations,  \* sets of candidates a distiller may propose
          MaxTurns        \* bound: turns in the buffer

\* A candidate quotes a statement as its evidence; sound says whether it
\* passes the other checks: should_write, its kind, confidence, payload, secrets.
Candidates == [item : Items, quote : Statements, sound : BOOLEAN]

ASSUME SessionConstants ==
  /\ Distillations \subseteq SUBSET Candidates
  /\ MaxTurns \in Nat

\* Of a turn is remembered whether it was said while a commit was under way and
\* whether a commit that was no dry run had it distilled.
Turns == [said : Statements, during : BOOLEAN, heard : BOOLEAN]

VARIABLES turns,   \* _session_turns
          dropped  \* history: the turns that the last commit took from the buffer

session == <<turns, dropped>>

SessionTypeOK ==
  /\ turns \in Seq(Turns)
  /\ dropped \in SUBSET Turns

SessionInit == turns = <<>> /\ dropped = {}

Busy == request.for # "nothing"

IngestTurn(s) ==
  /\ Len(turns) < MaxTurns
  /\ turns' = Append(turns, [said |-> s, during |-> Busy, heard |-> FALSE])
  /\ UNCHANGED <<program, memory, ledger, request, dropped>>

ClearSession ==
  /\ turns' = <<>>
  /\ UNCHANGED <<program, memory, ledger, request, dropped>>

\* clear(include_session=True); a dry run changes nothing.
ClearAll(parts) == Clear(parts) /\ turns' = <<>> /\ UNCHANGED dropped

Transcript == {turns[k].said : k \in 1..Len(turns)}

\* What the model of the distiller answers and nobody can read proposes nothing.
Proposals == Distillations \cup {{}}

Valid(candidate) == candidate.sound /\ candidate.quote \in Transcript

Accepted(candidates) == {c.item : c \in {d \in candidates : Valid(d)}}

\* The turns are distilled and the accepted candidates become the items of a
\* request, each under an identifier of its own.
Commit(candidates, dry, clear) ==
  /\ ~Busy /\ turns # <<>>
  /\ request' = [for |-> "commit", items |-> Accepted(candidates), dry |-> dry, clear |-> clear]
  /\ turns' = [k \in 1..Len(turns) |-> [turns[k] EXCEPT !.heard = @ \/ ~dry]]
  /\ dropped' = {}
  /\ UNCHANGED <<program, memory, ledger>>

\* A defect: the turns go also when the distiller failed.
CommitFailsClear ==
  /\ ~Busy /\ turns # <<>>
  /\ turns' = <<>>
  /\ dropped' = {turns[k] : k \in 1..Len(turns)}
  /\ UNCHANGED <<program, memory, ledger, request>>

\* There is no distiller, or it raises: the buffer stays as it is.
CommitFails ==
  /\ ~Busy /\ turns # <<>>
  /\ UNCHANGED <<program, memory, ledger, request, session>>

\* The write is over, whatever became of its items: the whole buffer is
\* cleared, with the turns that were said meanwhile.
EndCommit ==
  /\ request.for = "commit" /\ request.items = {}
  /\ request' = Idle
  /\ IF request.clear /\ ~request.dry
     THEN /\ dropped' = {turns[k] : k \in 1..Len(turns)}
          /\ turns' = <<>>
     ELSE UNCHANGED session
  /\ UNCHANGED <<program, memory, ledger>>

SessionNext ==
  \/ \E s \in Statements : IngestTurn(s)
  \/ ClearSession
  \/ \E candidates \in Proposals, dry, clear \in BOOLEAN : Commit(candidates, dry, clear)
  \/ CommitFails
  \/ EndCommit
==============================================================================
