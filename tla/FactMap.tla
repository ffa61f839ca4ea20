------------------------------- MODULE FactMap -------------------------------
(***************************************************************************)
(* What a fact repository promises, however it files its facts: it holds   *)
(* at most one fact under each identifier, a save replaces that one fact   *)
(* and touches no other, a collection forgets exactly the facts whose      *)
(* expiry has passed, and to anyone who asks between two calls superseding *)
(* a fact is a single step, which closes it without changing what it says. *)
(***************************************************************************)
EXTENDS Integers

CONSTANTS Ids, Facts, Times, None

VARIABLE facts

Init == facts = [i \in Ids |-> None]

Others(S) == \A k \in Ids \ S : facts'[k] = facts[k]

Save(i) ==
  /\ facts'[i] \in Facts /\ facts'[i].id = i
  /\ Others({i})

\* A fact is closed and names the one that replaces it.
Supersede(i, j) ==
  /\ facts[i] # None
  /\ \E t \in Times :
       facts'[i] = [facts[i] EXCEPT !.status = "historical", !.by = j,
                                    !.until = IF @ = None THEN t ELSE @]
  /\ facts'[j] \in Facts /\ facts'[j].id = j /\ facts'[j].by = None
  /\ Others({i, j})

Remove(i) ==
  /\ facts'[i] = None
  /\ Others({i})

Forget(now) ==
  facts' = [i \in Ids |->
              IF facts[i] # None /\ facts[i].exp # None /\ facts[i].exp < now
              THEN None ELSE facts[i]]

Clear == facts' = [i \in Ids |-> None]

Next ==
  \/ \E i \in Ids : Save(i) \/ Remove(i)
  \/ \E i, j \in Ids : i # j /\ Supersede(i, j)
  \/ \E now \in Times : Forget(now)
  \/ Clear

Spec == Init /\ [][Next]_facts
==============================================================================
