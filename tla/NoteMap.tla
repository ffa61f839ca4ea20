------------------------------- MODULE NoteMap -------------------------------
(***************************************************************************)
(* What a vector repository promises its callers, whatever index, list or  *)
(* signature table it keeps: it is a map from note texts to one note each. *)
(* Saving a text that is already held only replaces the meta of the note   *)
(* (here its expiry); an identifier names one note; garbage collection     *)
(* forgets exactly the notes whose expiry has passed.                      *)
(* Capacity is not part of the promise: a refused save is a stutter here.  *)
(***************************************************************************)
EXTENDS Integers

CONSTANTS Ids, Texts, Times, None

VARIABLE notes

Notes == [id : Ids, exp : Times \cup {None}]

Held == {t \in Texts : notes[t] # None}

TypeOK == notes \in [Texts -> Notes \cup {None}]

Init == notes = [t \in Texts |-> None]

\* A new text is kept under an identifier no other note has.
Add(i, t, e) ==
  /\ t \notin Held
  /\ \A u \in Held : notes[u].id # i
  /\ notes' = [notes EXCEPT ![t] = [id |-> i, exp |-> e]]

\* A text that is held keeps its identifier and takes the new expiry.
Refresh(t, e) ==
  /\ t \in Held
  /\ notes' = [notes EXCEPT ![t] = [id |-> notes[t].id, exp |-> e]]

Forget(now) ==
  notes' = [t \in Texts |->
              IF /\ notes[t] # None
                 /\ notes[t].exp # None
                 /\ notes[t].exp < now
              THEN None ELSE notes[t]]

Clear == notes' = [t \in Texts |-> None]

Next ==
  \/ \E t \in Texts, e \in Times \cup {None} :
       Refresh(t, e) \/ \E i \in Ids : Add(i, t, e)
  \/ \E now \in Times : Forget(now)
  \/ Clear

Spec == Init /\ [][Next]_notes
==============================================================================
