---------------------------- MODULE AnswerProofs ----------------------------
(***************************************************************************)
(* For any number of requests, any finite graph and any questions: what    *)
(* happens to the global token budget is explained by requests that        *)
(* replaced it at the same time, a context keeps the budget it was built   *)
(* with and gives it to the sections in order, and retrieval finds what is *)
(* two hops away and nothing else.                                         *)
(*                                                                         *)
(* LimitExplained is not inductive: it says nothing of what a request will *)
(* put back.  Unless two requests are tangled there is at most one that    *)
(* has replaced the setting (Alone), the setting is then still what is     *)
(* configured or already its own, and what it will put back is what is     *)
(* configured (OldKept).                                                   *)
(*                                                                         *)
(* What a context is, is settled where it is assembled, so the invariant   *)
(* of the states (RInv) says only what was computed; the rest is about the *)
(* computation: a recursion over 0..n has a run (RunExists) and no other   *)
(* (SameRuns), both by the least number where it would fail, and along the *)
(* run of a context Fine holds, section by section (FineStep, FineEnd).    *)
(***************************************************************************)
EXTENDS Answer, FiniteSetTheorems, WellFoundedInduction, TLAPS

Planned ==
  \A r \in Requests :
    /\ pc[r] # "new" => query[r] \in Queries
    /\ pc[r] = "new" => budget[r] = None
    /\ pc[r] \in {"save", "set", "restore"} => Overrides(query[r])
    /\ \A p \in Requests : <<p, r>> \in overlap => pc[r] # "new"

Alone == \A p, r \in Replacing : p # r => Tangled

OldKept ==
  ~Tangled => \A r \in Replacing :
    /\ old[r] = DefaultLimit
    /\ limit = IF pc[r] = "set" THEN DefaultLimit ELSE Asks[query[r]].limit

IInv == TypeOK /\ Planned /\ Alone /\ OldKept /\ LimitExplained

-------------------------------------------------------------------------------
\* What is assumed of the constants, for the steps.
LEMMA Constants ==
  /\ \A q \in Queries : Asks[q].limit \in Nat \cup {None} /\ (Overrides(q) => Asks[q].limit \in Nat)
  /\ DefaultLimit \in Nat /\ None \notin Nat /\ None \notin Queries
BY AnswerConstants DEF IsQuery, Overrides

\* Nobody replaces the setting at first.
LEMMA InitInv == Init => IInv
<1> SUFFICES ASSUME Init PROVE IInv
  OBVIOUS
<1>1. Replacing = {} /\ ~Tangled
  BY DEF Init, Replacing, Tangled
<1>2. TypeOK
  BY Constants, AnswerConstants DEF Init, TypeOK
<1>3. Planned
  BY DEF Init, Planned
<1>4. Alone /\ OldKept /\ LimitExplained
  BY <1>1 DEF Init, Alone, OldKept, LimitExplained
<1> QED BY <1>2, <1>3, <1>4 DEF IInv

\* The question of a request is set once, before it can be in overlap: who was
\* tangled stays so.
LEMMA PlanStep ==
  ASSUME IInv, NEW r \in Requests, NEW q \in Queries, Plan(r, q)
  PROVE  IInv'
<1> USE DEF IInv
<1>1. TypeOK'
  <2>1. bundle' \in [Requests -> SUBSET Facts]
    <3>1. \A n : Touching(n) \subseteq Facts
      BY DEF Touching, TypeOK
    <3>2. \A seeds : FirstHop(seeds) \subseteq Facts /\ \A order : SecondHop(seeds, order) \subseteq Facts
      BY <3>1 DEF FirstHop, SecondHop
    <3>3. UNCHANGED bundle \/ \E order : bundle' =
            [bundle EXCEPT ![r] = FirstHop(Asks[q].seeds) \cup SecondHop(Asks[q].seeds, order)]
      BY DEF Plan
    <3> QED BY <3>2, <3>3 DEF TypeOK
  <2> QED BY <2>1 DEF TypeOK, Plan
<1>2. /\ \A s \in Requests : s # r => pc'[s] = pc[s] /\ query'[s] = query[s]
      /\ pc[r] = "new" /\ query'[r] = q /\ pc'[r] = (IF Overrides(q) THEN "save" ELSE "assemble")
      /\ limit' = limit /\ old' = old /\ budget' = budget /\ overlap' = overlap
  BY DEF TypeOK, Plan
<1>3. Planned'
  BY <1>2 DEF Planned, Overrides
<1>4. Replacing' = Replacing
  BY <1>2 DEF Replacing, Overrides
<1>5. Tangled' <=> Tangled
  BY <1>2 DEF Planned, Tangled, Overrides
<1>6. Alone' /\ OldKept'
  BY <1>2, <1>4, <1>5 DEF Alone, OldKept, Replacing
<1>7. LimitExplained'
  BY <1>2, <1>4, <1>5 DEF Planned, LimitExplained, Due, Overrides
<1> QED BY <1>1, <1>3, <1>6, <1>7

\* Who saves the setting meets all who have replaced it.
LEMMA SaveStep ==
  ASSUME IInv, NEW r \in Requests, SaveLimit(r)
  PROVE  IInv'
<1> USE DEF IInv
<1>1. TypeOK'
  BY DEF TypeOK, SaveLimit, Met, Replacing
<1>2. /\ \A s \in Requests : s # r => pc'[s] = pc[s] /\ old'[s] = old[s]
      /\ pc[r] = "save" /\ pc'[r] = "set" /\ old'[r] = limit
      /\ limit' = limit /\ budget' = budget /\ query' = query
      /\ overlap' = overlap \cup ((Replacing \ {r}) \X {r})
  BY DEF TypeOK, SaveLimit, Met
<1>3. Planned'
  BY <1>2 DEF Planned, Overrides
<1>4. Replacing' = Replacing \cup {r} /\ r \notin Replacing
  BY <1>2 DEF Planned, Replacing, Overrides
<1>5. Tangled \/ Replacing # {} => Tangled'
  BY <1>2, <1>4 DEF Planned, Tangled, Overrides, Replacing
<1>6. Alone'
  BY <1>4, <1>5 DEF Alone
<1>7. OldKept'
  BY <1>2, <1>4, <1>5 DEF OldKept, LimitExplained
<1>8. LimitExplained'
  BY <1>2, <1>4, <1>5 DEF LimitExplained, Due, Overrides
<1> QED BY <1>1, <1>3, <1>6, <1>7, <1>8

\* Who sets it is the only one that replaces it, or tangled.
LEMMA SetStep ==
  ASSUME IInv, NEW r \in Requests, SetLimit(r)
  PROVE  IInv'
<1> USE DEF IInv
<1>1. /\ \A s \in Requests : s # r => pc'[s] = pc[s]
      /\ pc[r] = "set" /\ pc'[r] = "assemble" /\ query[r] \in Queries /\ Overrides(query[r])
      /\ limit' = Asks[query[r]].limit /\ budget' = budget /\ query' = query
      /\ overlap' = overlap /\ old' = old
  BY DEF TypeOK, SetLimit, Planned
<1>2. TypeOK'
  BY <1>1, Constants DEF TypeOK, SetLimit
<1>3. Planned'
  BY <1>1 DEF Planned, Overrides
<1>4. Replacing' = Replacing /\ r \in Replacing
  BY <1>1 DEF Replacing, Overrides
<1>5. Tangled' <=> Tangled
  BY <1>1 DEF Tangled, Overrides
<1>6. Alone'
  BY <1>4, <1>5 DEF Alone
<1>7. ~Tangled => Replacing = {r}
  BY <1>4 DEF Alone
<1>8. OldKept'
  BY <1>1, <1>4, <1>5, <1>7 DEF OldKept
<1>9. LimitExplained'
  BY <1>1, <1>4, <1>5 DEF LimitExplained, Due, Overrides
<1> QED BY <1>2, <1>3, <1>6, <1>8, <1>9

\* The budget is what the request asked for, or it met another.
LEMMA AssembleStep ==
  ASSUME IInv, NEW r \in Requests, Assemble(r)
  PROVE  IInv'
<1> USE DEF IInv
<1>1. /\ \A s \in Requests : s # r => pc'[s] = pc[s] /\ budget'[s] = budget[s]
      /\ pc[r] = "assemble" /\ pc'[r] = (IF Overrides(query[r]) THEN "restore" ELSE "done")
      /\ limit' = limit /\ budget'[r] = limit /\ query' = query /\ old' = old
      /\ overlap' = overlap \cup ((Replacing \ {r}) \X {r})
  BY DEF TypeOK, Assemble, Met
<1>2. TypeOK'
  BY DEF TypeOK, Assemble, Met, Replacing
<1>3. Planned'
  BY <1>1 DEF Planned, Overrides
<1>4. Replacing' = Replacing
  BY <1>1 DEF Replacing, Overrides
<1>5. Tangled => Tangled'
  BY <1>1 DEF Tangled, Overrides
<1>6. Alone'
  BY <1>4, <1>5 DEF Alone
<1>7. OldKept'
  BY <1>1, <1>4, <1>5 DEF OldKept, Replacing, Overrides
<1>8. ~Tangled' => budget'[r] = Due(r)' \/ \E p \in Requests : <<p, r>> \in overlap'
  <2>1. CASE Overrides(query[r])
    <3>1. r \in Replacing
      BY <1>1, <2>1 DEF Replacing
    <3> QED BY <1>1, <1>5, <2>1, <3>1 DEF OldKept, Due, Overrides
  <2>2. CASE ~Overrides(query[r]) /\ Replacing = {}
    BY <1>1, <1>5, <2>2 DEF LimitExplained, Due, Overrides
  <2>3. CASE ~Overrides(query[r]) /\ Replacing # {}
    <3>1. PICK p \in Replacing : TRUE
      BY <2>3
    <3>2. p \in Requests /\ p # r
      BY <2>3, <3>1 DEF Replacing
    <3> QED BY <1>1, <3>1, <3>2
  <2> QED BY <2>1, <2>2, <2>3
<1>9. LimitExplained'
  BY <1>1, <1>4, <1>5, <1>8 DEF LimitExplained, Due, Overrides
<1> QED BY <1>2, <1>3, <1>6, <1>7, <1>9

\* What is put back is what is configured, unless two are tangled.
LEMMA RestoreStep ==
  ASSUME IInv, NEW r \in Requests, RestoreLimit(r)
  PROVE  IInv'
<1> USE DEF IInv
<1>1. /\ \A s \in Requests : s # r => pc'[s] = pc[s]
      /\ pc[r] = "restore" /\ pc'[r] = "done" /\ Overrides(query[r])
      /\ limit' = old[r] /\ budget' = budget /\ query' = query
      /\ overlap' = overlap /\ old' = old
  BY DEF TypeOK, RestoreLimit, Planned
<1>2. TypeOK'
  BY DEF TypeOK, RestoreLimit
<1>3. Planned'
  BY <1>1 DEF Planned, Overrides
<1>4. Replacing' = Replacing \ {r} /\ r \in Replacing
  BY <1>1 DEF Replacing, Overrides
<1>5. Tangled' <=> Tangled
  BY <1>1 DEF Tangled, Overrides
<1>6. Alone'
  BY <1>4, <1>5 DEF Alone
<1>7. ~Tangled => Replacing' = {} /\ limit' = DefaultLimit
  BY <1>1, <1>4 DEF Alone, OldKept
<1>8. OldKept'
  BY <1>5, <1>7 DEF OldKept
<1>9. LimitExplained'
  BY <1>1, <1>5, <1>7 DEF LimitExplained, Due, Overrides
<1> QED BY <1>2, <1>3, <1>6, <1>8, <1>9

\* The inductive invariant holds in every reachable state.
THEOREM Inductive == Spec => []IInv
<1>1. Init => IInv
  BY InitInv
<1>2. IInv /\ [Next]_vars => IInv'
  <2> SUFFICES ASSUME IInv, [Next]_vars PROVE IInv'
    OBVIOUS
  <2>1. CASE UNCHANGED vars
    <3>1. Replacing' = Replacing /\ (Tangled' <=> Tangled)
      BY <2>1 DEF Replacing, Tangled, Overrides, vars
    <3>2. TypeOK' /\ Planned'
      BY <2>1 DEF IInv, TypeOK, Planned, Overrides, vars
    <3>3. Alone' /\ OldKept' /\ LimitExplained'
      BY <2>1, <3>1 DEF IInv, Alone, OldKept, LimitExplained, Due, Overrides, vars
    <3> QED BY <3>2, <3>3 DEF IInv
  <2>2. CASE Next
    BY <2>2, PlanStep, SaveStep, SetStep, AssembleStep, RestoreStep DEF Next
  <2> QED BY <2>1, <2>2
<1> QED BY <1>1, <1>2, PTL DEF Spec

\* Type correctness for any requests, graphs and questions: the budget is always
\* a number.
THEOREM TypeCorrect == Spec => []TypeOK
<1>1. IInv => TypeOK
  BY DEF IInv
<1> QED BY <1>1, Inductive, PTL

\* The setting of main.py:171, api_v1.py:62 and answer_chain.py:74 is what is
\* configured, and each context has the budget its request asked for, unless
\* requests that replaced it met.
THEOREM Explained == Spec => []LimitExplained
<1>1. IInv => LimitExplained
  BY DEF IInv
<1> QED BY <1>1, Inductive, PTL

-------------------------------------------------------------------------------
(* Numbers.                                                                *)

\* A set of numbers has a least one.
LEMMA LeastExists ==
  ASSUME NEW S \in SUBSET Nat, S # {}
  PROVE  \E k \in S : \A l \in S : k <= l
<1>1. PICK k \in S : \A l \in S : <<l, k>> \notin OpToRel(<, Nat)
  BY WFMin, NatLessThanWellFounded, Zenon
<1>2. ASSUME NEW l \in S PROVE ~(l < k)
  BY <1>1, <1>2, Zenon DEF OpToRel
<1> QED BY <1>2

\* The search by halves of context_builder.py:26 finds the greatest number that
\* fits, for all numbers.
THEOREM FitsIsLesser ==
  ASSUME NEW room \in Nat, NEW words \in Nat
  PROVE  Fits(room, words) = Lesser(words, room)
<1> DEFINE Ranges == [lo : Nat, hi : Int, best : Nat]
           Mid(s) == (s.lo + s.hi) \div 2
           Upper(s) == [lo |-> Mid(s) + 1, hi |-> s.hi, best |-> Mid(s)]
           Under(s) == [lo |-> s.lo, hi |-> Mid(s) - 1, best |-> s.best]
           Next1(f, s) == IF s.lo > s.hi THEN s.best
                          ELSE IF Mid(s) <= room THEN f[Upper(s)] ELSE f[Under(s)]
           Body(f) == [s \in Ranges |-> Next1(f, s)]
           Result(s) == IF s.lo > s.hi \/ room < s.lo THEN s.best ELSE Lesser(s.hi, room)
           G == [s \in Ranges |-> Result(s)]
<1>a. ASSUME NEW s \in Ranges PROVE s.lo \in Nat /\ s.hi \in Int /\ s.best \in Nat
  OBVIOUS
<1>0. ASSUME NEW s \in Ranges, s.lo <= s.hi
      PROVE  Mid(s) \in Nat /\ s.lo <= Mid(s) /\ Mid(s) <= s.hi
  BY <1>0
<1>b. ASSUME NEW s \in Ranges, s.lo <= s.hi
      PROVE  /\ Upper(s) \in Ranges /\ Upper(s).lo = Mid(s) + 1 /\ Upper(s).hi = s.hi
             /\ Upper(s).best = Mid(s)
             /\ Under(s) \in Ranges /\ Under(s).lo = s.lo /\ Under(s).hi = Mid(s) - 1
             /\ Under(s).best = s.best
  <2>1. Mid(s) \in Nat
    BY <1>0, <1>b
  <2> HIDE DEF Mid
  <2> QED BY <2>1
<1> HIDE DEF Upper, Under, Ranges
<1>1. G = Body(G)
  <2>1. ASSUME NEW s \in Ranges PROVE Result(s) = Next1(G, s)
    <3>1. CASE s.lo > s.hi
      BY <3>1
    <3>2. CASE s.lo <= s.hi /\ Mid(s) <= room
      <4>1. Next1(G, s) = Result(Upper(s))
        BY <1>a, <1>b, <3>2
      <4>2. Result(s) = Result(Upper(s))
        <5>1. /\ Mid(s) \in Nat /\ s.lo <= Mid(s) /\ Mid(s) <= s.hi /\ s.lo \in Nat /\ s.hi \in Int
              /\ Upper(s).lo = Mid(s) + 1 /\ Upper(s).hi = s.hi /\ Upper(s).best = Mid(s)
          BY <1>0, <1>a, <1>b, <3>2
        <5> HIDE DEF Mid
        <5> QED BY <3>2, <5>1 DEF Lesser
      <4> QED BY <4>1, <4>2
    <3>3. CASE s.lo <= s.hi /\ ~(Mid(s) <= room)
      <4>1. Next1(G, s) = Result(Under(s))
        BY <1>a, <1>b, <3>3
      <4>2. Result(s) = Result(Under(s))
        <5>1. /\ Mid(s) \in Nat /\ s.lo <= Mid(s) /\ Mid(s) <= s.hi /\ s.lo \in Nat /\ s.hi \in Int
              /\ Under(s).lo = s.lo /\ Under(s).hi = Mid(s) - 1 /\ Under(s).best = s.best
          BY <1>0, <1>a, <1>b, <3>3
        <5> HIDE DEF Mid
        <5> QED BY <3>3, <5>1 DEF Lesser
      <4> QED BY <4>1, <4>2
    <3> QED BY <1>a, <3>1, <3>2, <3>3
  <2> HIDE DEF Result, Next1
  <2> QED BY <2>1
<1>2. PICK F : F = Body(F) /\ F = CHOOSE f : f = Body(f)
  <2> HIDE DEF Body, G
  <2> QED BY <1>1, Zenon
<1>3. Fits(room, words) = F[[lo |-> 0, hi |-> words, best |-> 0]]
  BY <1>2, Zenon DEF Fits, Ranges, Upper, Under
<1>4. ASSUME NEW s \in Ranges PROVE F[s] = Next1(F, s)
  BY <1>2, <1>4, Zenon
<1>5. \A s \in Ranges : F[s] = Result(s)
  <2> DEFINE Size(s) == IF s.lo > s.hi THEN 0 ELSE s.hi - s.lo + 1
             Wrong == {n \in Nat : \E s \in Ranges : Size(s) = n /\ F[s] # Result(s)}
  <2> SUFFICES ASSUME Wrong # {} PROVE FALSE
    <3>1. ASSUME NEW s \in Ranges PROVE Size(s) \in Nat
      BY <1>a
    <3> QED BY <3>1
  <2>1. PICK n \in Wrong : \A m \in Wrong : n <= m
    BY LeastExists
  <2>2. PICK s \in Ranges : Size(s) = n /\ F[s] # Result(s)
    BY <2>1
  <2>3. s.lo <= s.hi
    BY <1>4, <1>a, <2>2
  <2>4. F[Upper(s)] = Result(Upper(s)) /\ F[Under(s)] = Result(Under(s))
    <3>1. /\ Size(Upper(s)) \in Nat /\ Size(Upper(s)) < n /\ Size(Under(s)) \in Nat /\ Size(Under(s)) < n
      <4>1. /\ Mid(s) \in Nat /\ s.lo <= Mid(s) /\ Mid(s) <= s.hi /\ s.lo \in Nat /\ s.hi \in Int
            /\ Upper(s).lo = Mid(s) + 1 /\ Upper(s).hi = s.hi
            /\ Under(s).lo = s.lo /\ Under(s).hi = Mid(s) - 1
        BY <1>0, <1>a, <1>b, <2>3
      <4> HIDE DEF Mid
      <4> QED BY <2>2, <2>3, <4>1
    <3>2. Size(Upper(s)) \notin Wrong /\ Size(Under(s)) \notin Wrong
      <4> HIDE DEF Wrong, Size
      <4>1. n \in Nat
        BY <2>1 DEF Wrong
      <4> QED BY <2>1, <3>1, <4>1
    <3> QED BY <1>b, <2>3, <3>1, <3>2
  <2>5. G[Upper(s)] = Result(Upper(s)) /\ G[Under(s)] = Result(Under(s))
    BY <1>b, <2>3
  <2>6. Result(s) = Next1(G, s)
    <3>1. G[s] = Body(G)[s]
      BY <1>1
    <3> HIDE DEF Result, Next1
    <3> QED BY <3>1
  <2>7. F[s] = Next1(F, s)
    BY <1>4
  <2> QED BY <2>2, <2>4, <2>5, <2>6, <2>7
<1>6. [lo |-> 0, hi |-> words, best |-> 0] \in Ranges
  BY DEF Ranges
<1>7. Result([lo |-> 0, hi |-> words, best |-> 0]) = Lesser(words, room)
  OBVIOUS
<1> QED BY <1>3, <1>5, <1>6, <1>7

-------------------------------------------------------------------------------
(* Recursion over 0..n.                                                    *)

\* What starts from b and takes the steps of f, n of them.
RunsOf(S, n, f, b) ==
  {run \in [0..n -> S] : run[0] = b /\ \A k \in 1..n : run[k] = f[k][run[k - 1]]}

Steps(S, n) == [1..n -> [S -> S]]

Agree(n, f, g) == f[0] = g[0] /\ \A k \in 1..n : f[k - 1] = g[k - 1] => f[k] = g[k]

\* There is one for any functions.
LEMMA RunExists ==
  ASSUME NEW S, NEW n \in Nat, NEW f \in Steps(S, n), NEW b \in S
  PROVE  RunsOf(S, n, f, b) # {}
<1> USE DEF Steps
<1> DEFINE Runs(m) == {run \in [0..m -> S] : run[0] = b /\ \A k \in 1..m : run[k] = f[k][run[k - 1]]}
           None0 == {m \in 0..n : Runs(m) = {}}
<1>1. ASSUME NEW m \in None0, \A l \in None0 : m <= l PROVE FALSE
  <2>1. CASE m = 0
    <3>1. [k \in 0..0 |-> b] \in Runs(0)
      OBVIOUS
    <3> QED BY <2>1, <3>1
  <2>2. CASE m # 0
    <3>0. m \in 0..n
      BY <1>1
    <3>1. m - 1 \in 0..n /\ m \in 1..n /\ m - 1 \notin None0
      <4> HIDE DEF None0
      <4> QED BY <1>1, <2>2, <3>0
    <3>2. PICK run \in Runs(m - 1) : TRUE
      <4> HIDE DEF Runs
      <4> QED BY <3>1
    <3> DEFINE next == [k \in 0..m |-> IF k = m THEN f[m][run[m - 1]] ELSE run[k]]
    <3>3. run[m - 1] \in S /\ f[m][run[m - 1]] \in S
      BY <3>1, <3>2
    <3>4. next \in [0..m -> S]
      BY <3>1, <3>2, <3>3
    <3>5. next[0] = b
      BY <2>2, <3>1, <3>2
    <3>6. \A k \in 1..m : next[k] = f[k][next[k - 1]]
      <4> SUFFICES ASSUME NEW k \in 1..m PROVE next[k] = f[k][next[k - 1]]
        OBVIOUS
      <4>1. CASE k = m
        BY <3>1, <4>1
      <4>2. CASE k # m
        <5>1. k \in 1..(m - 1) /\ k \in 0..m /\ k - 1 \in 0..m /\ k - 1 # m
          BY <3>1, <4>2
        <5> QED BY <3>2, <4>2, <5>1
      <4> QED BY <4>1, <4>2
    <3>7. next \in Runs(m)
      BY <3>4, <3>5, <3>6
    <3> QED BY <3>7
  <2> QED BY <2>1, <2>2
<1>2. None0 = {}
  <2>1. None0 \in SUBSET Nat
    OBVIOUS
  <2> HIDE DEF None0
  <2> QED BY <1>1, <2>1, LeastExists
<1>3. Runs(n) # {}
  <2>1. n \in 0..n
    OBVIOUS
  <2> HIDE DEF Runs
  <2> QED BY <1>2, <2>1
<1> QED BY <1>3 DEF RunsOf

\* There is no other.
LEMMA SameRuns ==
  ASSUME NEW n \in Nat, NEW f, NEW g, Agree(n, f, g)
  PROVE  \A k \in 0..n : f[k] = g[k]
<1> DEFINE Differ == {k \in 0..n : f[k] # g[k]}
<1> SUFFICES ASSUME Differ # {} PROVE FALSE
  OBVIOUS
<1>1. PICK k \in Differ : \A l \in Differ : k <= l
  <2>1. Differ \in SUBSET Nat
    OBVIOUS
  <2> HIDE DEF Differ
  <2> QED BY <2>1, LeastExists
<1>2. k # 0 /\ k \in 0..n
  BY <1>1 DEF Agree
<1>3. k \in 1..n /\ k - 1 \in 0..n /\ k - 1 \notin Differ
  BY <1>1, <1>2
<1> QED BY <1>1, <1>2, <1>3 DEF Agree

-------------------------------------------------------------------------------
(* Words of lines.                                                         *)

\* Words is the last of the partial sums.
LEMMA WordsIs ==
  ASSUME NEW lines \in Seq(Nat)
  PROVE  \E sum \in [0..Len(lines) -> Nat] :
           /\ sum[0] = 0 /\ \A k \in 1..Len(lines) : sum[k] = sum[k - 1] + lines[k]
           /\ Words(lines) = sum[Len(lines)]
<1> DEFINE n == Len(lines)
           Body(f) == [k \in 0..n |-> IF k = 0 THEN 0 ELSE f[k - 1] + lines[k]]
           adds == [k \in 1..n |-> [m \in Nat |-> m + lines[k]]]
<1>1. n \in Nat /\ 0 \in Nat /\ adds \in Steps(Nat, n)
  BY DEF Steps
<1>2. PICK run \in RunsOf(Nat, n, adds, 0) : TRUE
  <2> HIDE DEF n, adds
  <2> QED BY <1>1, RunExists
<1>3. /\ run \in [0..n -> Nat] /\ run[0] = 0
      /\ \A k \in 1..n : run[k] = run[k - 1] + lines[k]
  <2>1. run \in [0..n -> Nat] /\ run[0] = 0 /\ \A k \in 1..n : run[k] = adds[k][run[k - 1]]
    BY <1>2 DEF RunsOf
  <2>2. \A k \in 1..n : run[k - 1] \in Nat
    <3>1. run \in [0..n -> Nat]
      BY <2>1
    <3> HIDE DEF n
    <3> QED BY <1>1, <3>1
  <2> QED BY <2>1, <2>2
<1>4. run = Body(run)
  BY <1>1, <1>3
<1>5. PICK F : F = Body(F) /\ F = CHOOSE f : f = Body(f)
  <2> HIDE DEF Body
  <2> QED BY <1>4, Zenon
<1>6. Words(lines) = F[n]
  BY <1>5, Zenon DEF Words
<1>7. \A k \in 0..n : F[k] = run[k]
  <2>1. \A k \in 0..n : F[k] = IF k = 0 THEN 0 ELSE F[k - 1] + lines[k]
    BY <1>5, Zenon
  <2>2. F[0] = run[0]
    BY <1>1, <1>3, <2>1
  <2>3. Agree(n, F, run)
    BY <1>1, <1>3, <2>1, <2>2 DEF Agree
  <2> HIDE DEF n
  <2> QED BY <1>1, <2>3, SameRuns
<1> QED BY <1>1, <1>3, <1>6, <1>7

\* No lines, no words.
LEMMA WordsNone == Words(<<>>) = 0
<1>1. <<>> \in Seq(Nat) /\ Len(<<>>) = 0
  OBVIOUS
<1> QED BY <1>1, WordsIs

\* The last of the numbers, and the others.
LEMMA AppendIs ==
  ASSUME NEW f \in Seq(Nat), NEW w \in Nat
  PROVE  /\ Append(f, w) \in Seq(Nat) /\ Len(Append(f, w)) = Len(f) + 1
         /\ Append(f, w)[Len(f) + 1] = w
         /\ \A i \in 1..Len(f) : Append(f, w)[i] = f[i]
OBVIOUS

\* A line more adds its words.
LEMMA WordsAdd ==
  ASSUME NEW lines \in Seq(Nat), NEW w \in Nat
  PROVE  /\ Words(lines) \in Nat /\ Append(lines, w) \in Seq(Nat)
         /\ Words(Append(lines, w)) = Words(lines) + w
<1>1. PICK sum \in [0..Len(lines) -> Nat] :
        /\ sum[0] = 0 /\ \A k \in 1..Len(lines) : sum[k] = sum[k - 1] + lines[k]
        /\ Words(lines) = sum[Len(lines)]
  BY WordsIs
<1>2. PICK more : more = Append(lines, w)
  OBVIOUS
<1>3. /\ more \in Seq(Nat) /\ Len(more) = Len(lines) + 1 /\ more[Len(lines) + 1] = w
      /\ \A k \in 1..Len(lines) : more[k] = lines[k]
  <2>1. /\ Append(lines, w) \in Seq(Nat) /\ Len(Append(lines, w)) = Len(lines) + 1
        /\ Append(lines, w)[Len(lines) + 1] = w
        /\ \A k \in 1..Len(lines) : Append(lines, w)[k] = lines[k]
    BY AppendIs
  <2> QED BY <1>2, <2>1, Zenon
<1>4. PICK both \in [0..Len(more) -> Nat] :
        /\ both[0] = 0 /\ \A k \in 1..Len(more) : both[k] = both[k - 1] + more[k]
        /\ Words(more) = both[Len(more)]
  BY <1>3, WordsIs
<1>5. \A k \in 0..Len(lines) : sum[k] = both[k]
  <2>1. Agree(Len(lines), sum, both) /\ Len(lines) \in Nat
    BY <1>1, <1>3, <1>4 DEF Agree
  <2> QED BY <2>1, SameRuns
<1>6. Words(lines) \in Nat
  <2>1. Len(lines) \in 0..Len(lines) /\ Words(lines) = sum[Len(lines)]
    BY <1>1
  <2> QED BY <2>1
<1>7. Words(more) = both[Len(lines)] + w
  <2>1. Len(lines) \in Nat /\ Len(lines) + 1 \in 1..Len(more) /\ (Len(lines) + 1) - 1 = Len(lines)
    BY <1>3
  <2>2. both[Len(lines) + 1] = both[(Len(lines) + 1) - 1] + more[Len(lines) + 1]
    BY <1>4, <2>1
  <2> QED BY <1>3, <1>4, <2>1, <2>2
<1>8. Words(lines) = both[Len(lines)]
  BY <1>1, <1>5
<1> QED BY <1>2, <1>3, <1>6, <1>7, <1>8

\* The first n lines and one more.
LEMMA Prefix ==
  ASSUME NEW lines \in Seq(Nat), NEW n \in 0..(Len(lines) - 1)
  PROVE  /\ SubSeq(lines, 1, n) \in Seq(Nat) /\ Words(SubSeq(lines, 1, n)) \in Nat
         /\ lines[n + 1] \in Nat
         /\ Words(SubSeq(lines, 1, n + 1)) = Words(SubSeq(lines, 1, n)) + lines[n + 1]
<1>1. SubSeq(lines, 1, n) \in Seq(Nat) /\ lines[n + 1] \in Nat
  OBVIOUS
<1>2. SubSeq(lines, 1, n + 1) = Append(SubSeq(lines, 1, n), lines[n + 1])
  OBVIOUS
<1> QED BY <1>1, <1>2, WordsAdd

\* No line and all lines are prefixes.
LEMMA Ends0 ==
  ASSUME NEW lines \in Seq(Nat)
  PROVE  /\ SubSeq(lines, 1, 0) = <<>> /\ SubSeq(lines, 1, Len(lines)) = lines
         /\ \A n \in 0..Len(lines) : Words(SubSeq(lines, 1, n)) \in Nat
<1>1. SubSeq(lines, 1, 0) = <<>> /\ SubSeq(lines, 1, Len(lines)) = lines
  OBVIOUS
<1>2. \A n \in 0..Len(lines) : SubSeq(lines, 1, n) \in Seq(Nat)
  OBVIOUS
<1> QED BY <1>1, <1>2, WordsAdd

-------------------------------------------------------------------------------
(* What a section takes.                                                   *)

\* Some number of lines fits, and the next one would be too many.
LEMMA FittingIs ==
  ASSUME NEW lines \in Seq(Nat), NEW room \in Nat
  PROVE  /\ Fitting(lines, room) \in 0..Len(lines)
         /\ Words(SubSeq(lines, 1, Fitting(lines, room))) <= room
         /\ Fitting(lines, room) < Len(lines) =>
              Words(SubSeq(lines, 1, Fitting(lines, room) + 1)) > room
<1> DEFINE Ending == {n \in 0..Len(lines) :
                        n < Len(lines) => Words(SubSeq(lines, 1, n + 1)) > room}
<1>1. PICK n \in Ending : \A m \in Ending : n <= m
  <2>1. Ending \in SUBSET Nat /\ Len(lines) \in Ending
    OBVIOUS
  <2> HIDE DEF Ending
  <2> QED BY <2>1, LeastExists
<1>2. n \in 0..Len(lines) /\ (n < Len(lines) => Words(SubSeq(lines, 1, n + 1)) > room)
  BY <1>1
<1>3. Words(SubSeq(lines, 1, n)) <= room
  <2>1. CASE n = 0
    <3>1. SubSeq(lines, 1, n) = <<>>
      BY <2>1, Ends0
    <3>2. Words(SubSeq(lines, 1, n)) = 0
      BY <3>1, WordsNone, Zenon
    <3> QED BY <3>2
  <2>2. CASE n # 0
    <3>1. n - 1 \in 0..Len(lines) /\ (n - 1) + 1 = n /\ n \in 0..Len(lines)
      BY <1>2, <2>2
    <3>2. n - 1 \notin Ending
      <4> HIDE DEF Ending
      <4> QED BY <1>1, <1>2, <2>2
    <3>3. ~(Words(SubSeq(lines, 1, n)) > room)
      BY <3>1, <3>2
    <3>4. Words(SubSeq(lines, 1, n)) \in Nat
      BY <3>1, Ends0
    <3> QED BY <3>3, <3>4
  <2> QED BY <2>1, <2>2
<1>4. \E m \in 0..Len(lines) :
        /\ Words(SubSeq(lines, 1, m)) <= room
        /\ m < Len(lines) => Words(SubSeq(lines, 1, m + 1)) > room
  BY <1>2, <1>3
<1> QED BY <1>4, Zenon DEF Fitting

\* _take_lines_up_to_budget (context_builder.py:17), for any lines and room: a
\* section that is not trimmed is whole; one that is uses up the room, with
\* at most one word more, the ellipsis, and nothing if there was no room.
THEOREM TakeIs ==
  ASSUME NEW lines \in Seq(Nat), NEW room \in Nat
  PROVE  /\ Take(lines, room).lines \in Seq(Nat)
         /\ Take(lines, room).trimmed \in BOOLEAN
         /\ ~Take(lines, room).trimmed =>
              Take(lines, room).lines = lines /\ Words(lines) <= room
         /\ Take(lines, room).trimmed =>
              /\ room <= Words(Take(lines, room).lines)
              /\ Words(Take(lines, room).lines) <= room + 1
              /\ room = 0 => Words(Take(lines, room).lines) = 0
<1> DEFINE n == Fitting(lines, room)
           whole == SubSeq(lines, 1, n)
           best == Fits(room - Words(whole), lines[n + 1])
<1>1. n \in 0..Len(lines) /\ Words(whole) <= room
      /\ (n < Len(lines) => Words(SubSeq(lines, 1, n + 1)) > room)
  BY FittingIs
<1>2. Words(whole) \in Nat
  <2> HIDE DEF n
  <2> QED BY <1>1, Ends0
<1>3. CASE n = Len(lines)
  <2>1. Take(lines, room) = [lines |-> lines, trimmed |-> FALSE]
    BY <1>3 DEF Take
  <2>2. whole = lines
    <3> HIDE DEF n
    <3> QED BY <1>3, Ends0
  <2>3. Words(lines) <= room
    BY <1>1, <2>2, Zenon
  <2> HIDE DEF n, whole, best
  <2> QED BY <2>1, <2>3
<1>4. CASE n # Len(lines)
  <2>1. n \in 0..(Len(lines) - 1)
    <3> HIDE DEF n
    <3> QED BY <1>1, <1>4
  <2>2. /\ whole \in Seq(Nat) /\ lines[n + 1] \in Nat
        /\ Words(SubSeq(lines, 1, n + 1)) = Words(whole) + lines[n + 1]
    <3> HIDE DEF n
    <3> QED BY <2>1, Prefix
  <2>3. lines[n + 1] > room - Words(whole) /\ room - Words(whole) \in Nat
    <3>1. Words(whole) + lines[n + 1] > room
      <4>1. n < Len(lines)
        <5> HIDE DEF n
        <5> QED BY <2>1
      <4> QED BY <1>1, <2>2, <4>1
    <3> HIDE DEF n, whole
    <3> QED BY <1>1, <1>2, <2>2, <3>1
  <2>4. best = room - Words(whole)
    <3>1. best = Lesser(lines[n + 1], room - Words(whole))
      <4> HIDE DEF n, whole
      <4> QED BY <2>2, <2>3, FitsIsLesser
    <3> HIDE DEF n, whole, best
    <3> QED BY <1>2, <2>2, <2>3, <3>1 DEF Lesser
  <2>5. Take(lines, room) = [lines |-> IF best > 0 THEN Append(whole, best + 1) ELSE whole,
                             trimmed |-> TRUE]
    BY <1>4 DEF Take
  <2> HIDE DEF n, whole, best
  <2>6. CASE best > 0
    <3>1. Take(lines, room).lines = Append(whole, best + 1) /\ Take(lines, room).trimmed
      BY <2>5, <2>6
    <3>2. best + 1 \in Nat
      BY <2>3, <2>4
    <3>3. /\ Append(whole, best + 1) \in Seq(Nat)
          /\ Words(Append(whole, best + 1)) = Words(whole) + (best + 1)
      BY <2>2, <3>2, WordsAdd
    <3> QED BY <1>1, <1>2, <2>4, <2>6, <3>1, <3>3
  <2>7. CASE ~(best > 0)
    <3>1. Take(lines, room).lines = whole /\ Take(lines, room).trimmed
      BY <2>5, <2>7
    <3> QED BY <1>1, <1>2, <2>2, <2>3, <2>4, <2>7, <3>1
  <2> QED BY <2>6, <2>7
<1> QED BY <1>3, <1>4

-------------------------------------------------------------------------------
(* What a profile shows.                                                   *)

Order(order) ==
  /\ order \in Seq(Sections)
  /\ \A i, j \in 1..Len(order) : i # j => order[i] # order[j]

\* No profile shows a section twice.
LEMMA ProfilesAreOrders ==
  ASSUME NEW intent \in DOMAIN Profiles
  PROVE  Order(Profiles[intent].sections)
<1>0. /\ "conflicts" \in Sections /\ "current_beliefs" \in Sections /\ "facts" \in Sections
      /\ "episodes" \in Sections /\ "decisions" \in Sections /\ "relevant_experience" \in Sections
      /\ "semantic_notes" \in Sections
  BY DEF Sections
<1>1. CASE intent = "full"
  <2>1. PICK order : order = Profiles[intent].sections
    OBVIOUS
  <2>2. order = <<"conflicts", "current_beliefs", "facts", "episodes", "decisions",
                  "relevant_experience", "semantic_notes">>
    BY <1>1, <2>1 DEF Profiles
  <2>3. order \in Seq(Sections) /\ Len(order) = 7
    BY <1>0, <2>2
  <2>4. \A i, j \in 1..7 : i # j => order[i] # order[j]
    BY <2>2
  <2> QED BY <2>1, <2>3, <2>4 DEF Order
<1>2. CASE intent = "answer_question"
  <2>1. PICK order : order = Profiles[intent].sections
    OBVIOUS
  <2>2. order = <<"conflicts", "current_beliefs", "facts", "semantic_notes">>
    BY <1>2, <2>1 DEF Profiles
  <2>3. order \in Seq(Sections) /\ Len(order) = 4
    BY <1>0, <2>2
  <2>4. \A i, j \in 1..4 : i # j => order[i] # order[j]
    BY <2>2
  <2> QED BY <2>1, <2>3, <2>4 DEF Order
<1>3. CASE intent = "make_decision"
  <2>1. PICK order : order = Profiles[intent].sections
    OBVIOUS
  <2>2. order = <<"decisions", "relevant_experience">>
    BY <1>3, <2>1 DEF Profiles
  <2>3. order \in Seq(Sections) /\ Len(order) = 2 /\ order[1] # order[2]
    BY <1>0, <2>2
  <2> QED BY <2>1, <2>3 DEF Order
<1>4. CASE intent = "debug_failure"
  <2>1. PICK order : order = Profiles[intent].sections
    OBVIOUS
  <2>2. order = <<"relevant_experience">>
    BY <1>4, <2>1 DEF Profiles
  <2>3. order \in Seq(Sections) /\ Len(order) = 1
    BY <1>0, <2>2
  <2> QED BY <2>1, <2>3 DEF Order
<1>5. CASE intent = "plan_task"
  <2>1. PICK order : order = Profiles[intent].sections
    OBVIOUS
  <2>2. order = <<"current_beliefs", "facts", "decisions", "relevant_experience", "semantic_notes">>
    BY <1>5, <2>1 DEF Profiles
  <2>3. order \in Seq(Sections) /\ Len(order) = 5
    BY <1>0, <2>2
  <2>4. \A i, j \in 1..5 : i # j => order[i] # order[j]
    BY <2>2
  <2> QED BY <2>1, <2>3, <2>4 DEF Order
<1>6. CASE intent = "write_code"
  <2>1. PICK order : order = Profiles[intent].sections
    OBVIOUS
  <2>2. order = <<"decisions", "relevant_experience", "semantic_notes">>
    BY <1>6, <2>1 DEF Profiles
  <2>3. order \in Seq(Sections) /\ Len(order) = 3
    BY <1>0, <2>2
  <2>4. \A i, j \in 1..3 : i # j => order[i] # order[j]
    BY <2>2
  <2> QED BY <2>1, <2>3, <2>4 DEF Order
<1>7. intent \in {"full", "answer_question", "make_decision", "debug_failure", "plan_task", "write_code"}
  BY DEF Profiles
<1> QED BY <1>1, <1>2, <1>3, <1>4, <1>5, <1>6, <1>7

\* Lines are numbers of words.
LEMMA LinesTyped ==
  ASSUME NEW q, IsQuery(q), NEW found, IsFiniteSet(found), NEW s \in Sections
  PROVE  LinesOf(q, found, s) \in Seq(Nat)
<1>1. CASE s = "facts"
  <2>1. PICK n \in Nat : n = Cardinality(found)
    BY FS_CardinalityType
  <2>2. [i \in 1..n |-> 3] \in Seq(Nat)
    OBVIOUS
  <2> QED BY <1>1, <2>1, <2>2 DEF LinesOf
<1>2. CASE s # "facts"
  <2>1. q.lines[s] \in Seq(Nat) /\ <<>> \in Seq(Nat)
    BY <1>2 DEF IsQuery
  <2>2. LinesOf(q, found, s) = q.lines[s] \/ LinesOf(q, found, s) = <<>>
    BY <1>2 DEF LinesOf, Sections
  <2> QED BY <2>1, <2>2
<1> QED BY <1>1, <1>2

-------------------------------------------------------------------------------
(* The chain of sections.                                                  *)

Entries == [title : Sections, lines : Seq(Nat)]
Packs == [sections : Seq(Entries), advisories : SUBSET Sections, left : Nat]

\* Words of all sections.
Counts(p) == [i \in DOMAIN p.sections |-> Words(p.sections[i].lines)]
Total(p) == Words(Counts(p))

Titled(p, s) == {j \in DOMAIN p.sections : p.sections[j].title = s}
PartOf(p, s) == IF Titled(p, s) = {} THEN <<>>
                ELSE p.sections[CHOOSE j \in Titled(p, s) : TRUE].lines

Skips(p, s, lines) == lines = <<>> \/ (s \in Optional /\ p.left <= 0)

\* A section that is left out changes nothing.
LEMMA HandleSkips ==
  ASSUME NEW p, NEW s, NEW lines, Skips(p, s, lines)
  PROVE  Handle(p, s, lines) = p
BY DEF Skips, Handle

\* The sections have numbers of words, and so has the whole.
LEMMA CountsTyped ==
  ASSUME NEW p \in Packs
  PROVE  Counts(p) \in Seq(Nat) /\ Len(Counts(p)) = Len(p.sections) /\ Total(p) \in Nat
<1>1. p.sections \in Seq(Entries) /\ Len(p.sections) \in Nat
  BY DEF Packs
<1>2. \A i \in 1..Len(p.sections) : Words(p.sections[i].lines) \in Nat
  <2>1. ASSUME NEW i \in 1..Len(p.sections) PROVE p.sections[i].lines \in Seq(Nat)
    <3>1. p.sections[i] \in Entries
      BY <1>1
    <3> QED BY <3>1 DEF Entries
  <2> QED BY <2>1, WordsAdd
<1>3. DOMAIN p.sections = 1..Len(p.sections)
  BY <1>1
<1>4. Counts(p) \in [1..Len(p.sections) -> Nat]
  BY <1>2, <1>3, Zenon DEF Counts
<1>5. Counts(p) \in Seq(Nat) /\ Len(Counts(p)) = Len(p.sections)
  BY <1>1, <1>4
<1> QED BY <1>5, WordsAdd DEF Total

\* A section that is taken is the last one, and its words are added.
LEMMA HandleTakes ==
  ASSUME NEW p \in Packs, NEW s \in Sections, NEW lines \in Seq(Nat), ~Skips(p, s, lines)
  PROVE  LET taken == Take(lines, p.left)
             next == Handle(p, s, lines)
         IN  /\ next \in Packs
             /\ next.sections = Append(p.sections, [title |-> s, lines |-> taken.lines])
             /\ next.advisories = (IF taken.trimmed THEN p.advisories \cup {s} ELSE p.advisories)
             /\ next.left = Greater(0, p.left - Words(taken.lines))
             /\ Total(next) = Total(p) + Words(taken.lines)
<1> DEFINE next == Handle(p, s, lines)
<1>1. PICK taken : taken = Take(lines, p.left)
  OBVIOUS
<1>2. p.left \in Nat /\ p.sections \in Seq(Entries) /\ p.advisories \in SUBSET Sections
  BY DEF Packs
<1>3. taken.lines \in Seq(Nat) /\ Words(taken.lines) \in Nat
  BY <1>1, <1>2, TakeIs, WordsAdd
<1>4. PICK entry \in Entries : entry = [title |-> s, lines |-> taken.lines]
  BY <1>3 DEF Entries
<1>5. next = [sections |-> Append(p.sections, entry),
              advisories |-> IF taken.trimmed THEN p.advisories \cup {s} ELSE p.advisories,
              left |-> Greater(0, p.left - Words(taken.lines))]
  BY <1>1, <1>4 DEF Handle, Skips
<1>6. Append(p.sections, entry) \in Seq(Entries)
  BY <1>2
<1>7. Greater(0, p.left - Words(taken.lines)) \in Nat
  BY <1>2, <1>3 DEF Greater
<1>8. (IF taken.trimmed THEN p.advisories \cup {s} ELSE p.advisories) \in SUBSET Sections
  BY <1>2
<1>9. next \in Packs
  BY <1>5, <1>6, <1>7, <1>8 DEF Packs
<1>10. next.sections = Append(p.sections, entry)
  BY <1>5
<1> HIDE DEF next
<1>11. Counts(next) = Append(Counts(p), Words(taken.lines))
  <2>1. PICK n \in Nat : n = Len(p.sections)
    BY <1>2
  <2>2. /\ Len(next.sections) = n + 1 /\ next.sections[n + 1] = entry
        /\ \A i \in 1..n : next.sections[i] = p.sections[i]
    BY <1>2, <1>10, <2>1
  <2>3. DOMAIN next.sections = 1..(n + 1) /\ DOMAIN p.sections = 1..n
    BY <1>2, <1>10, <2>1
  <2>4. /\ Counts(next) \in Seq(Nat) /\ Len(Counts(next)) = n + 1
        /\ Counts(p) \in Seq(Nat) /\ Len(Counts(p)) = n
    BY <1>9, <2>1, <2>2, CountsTyped
  <2>5. \A i \in 1..n : Counts(next)[i] = Counts(p)[i]
    BY <2>2, <2>3 DEF Counts
  <2>6. Counts(next)[n + 1] = Words(taken.lines)
    BY <1>4, <2>2, <2>3 DEF Counts
  <2>7. /\ Append(Counts(p), Words(taken.lines)) \in Seq(Nat)
        /\ Len(Append(Counts(p), Words(taken.lines))) = n + 1
        /\ Append(Counts(p), Words(taken.lines))[n + 1] = Words(taken.lines)
        /\ \A i \in 1..n : Append(Counts(p), Words(taken.lines))[i] = Counts(p)[i]
    BY <1>3, <2>4, AppendIs
  <2>8. \A i \in 1..(n + 1) : i \in 1..n \/ i = n + 1
    BY <2>1
  <2>9. \A i \in 1..(n + 1) : Counts(next)[i] = Append(Counts(p), Words(taken.lines))[i]
    BY <2>5, <2>6, <2>7, <2>8
  <2>10. PICK more \in Seq(Nat) : more = Append(Counts(p), Words(taken.lines))
    BY <2>7
  <2>11. PICK counts \in Seq(Nat) : counts = Counts(next)
    BY <2>4
  <2>12. counts = more
    BY <2>4, <2>7, <2>9, <2>10, <2>11
  <2> QED BY <2>10, <2>11, <2>12
<1>12. Total(next) = Total(p) + Words(taken.lines)
  <2>1. Counts(p) \in Seq(Nat)
    BY CountsTyped
  <2> QED BY <1>3, <1>11, <2>1, WordsAdd DEF Total
<1> QED BY <1>1, <1>4, <1>5, <1>9, <1>10, <1>12 DEF next

\* The sections that were there are where they were, and one is new.
LEMMA PartAdded ==
  ASSUME NEW p \in Packs, NEW next \in Packs, NEW entry \in Entries,
         next.sections = Append(p.sections, entry), Titled(p, entry.title) = {}
  PROVE  /\ PartOf(next, entry.title) = entry.lines
         /\ \A s : s # entry.title =>
              Titled(next, s) = Titled(p, s) /\ PartOf(next, s) = PartOf(p, s)
<1>1. PICK n \in Nat : n = Len(p.sections)
  BY DEF Packs
<1>2. /\ DOMAIN next.sections = 1..(n + 1) /\ DOMAIN p.sections = 1..n
      /\ next.sections[n + 1] = entry
      /\ \A i \in 1..n : next.sections[i] = p.sections[i]
  BY <1>1 DEF Packs
<1>3. Titled(next, entry.title) = {n + 1}
  <2>1. \A i \in 1..n : p.sections[i].title # entry.title
    BY <1>2 DEF Titled
  <2>2. \A i \in 1..(n + 1) : i \in 1..n \/ i = n + 1
    OBVIOUS
  <2> QED BY <1>2, <2>1, <2>2 DEF Titled
<1>4. PartOf(next, entry.title) = entry.lines
  <2>1. (CHOOSE j \in {n + 1} : TRUE) = n + 1
    OBVIOUS
  <2> QED BY <1>2, <1>3, <2>1 DEF PartOf
<1>5. ASSUME NEW s, s # entry.title
      PROVE  Titled(next, s) = Titled(p, s) /\ PartOf(next, s) = PartOf(p, s)
  <2>1. Titled(next, s) = Titled(p, s)
    <3>1. \A i \in 1..(n + 1) : i \in 1..n \/ i = n + 1
      OBVIOUS
    <3> QED BY <1>2, <1>5, <3>1 DEF Titled
  <2>2. CASE Titled(p, s) = {}
    BY <2>1, <2>2 DEF PartOf
  <2>3. CASE Titled(p, s) # {}
    <3>1. PICK j \in Titled(p, s) : j = CHOOSE i \in Titled(p, s) : TRUE
      BY <2>3
    <3>2. next.sections[j] = p.sections[j]
      BY <1>2, <3>1 DEF Titled
    <3> QED BY <2>1, <2>3, <3>1, <3>2 DEF PartOf
  <2> QED BY <2>1, <2>2, <2>3
<1> QED BY <1>4, <1>5

\* What a section that has its turn does to the budget.
LEMMA HandleSpends ==
  ASSUME NEW p \in Packs, NEW s \in Sections, NEW lines \in Seq(Nat), Titled(p, s) = {}
  PROVE  LET next == Handle(p, s, lines)
             part == PartOf(next, s)
         IN  /\ next \in Packs /\ part \in Seq(Nat)
             /\ Titled(next, s) \subseteq {1 + Len(p.sections)}
             /\ \A o : o # s => Titled(next, o) = Titled(p, o) /\ PartOf(next, o) = PartOf(p, o)
             /\ p.advisories \subseteq next.advisories
             /\ Total(next) = Total(p) + Words(part)
             /\ Total(p) \in Nat /\ Words(part) \in Nat
             /\ next.left = Greater(0, p.left - Words(part))
             /\ \/ part = lines /\ Words(part) <= p.left /\ next.advisories = p.advisories
                \/ part = <<>> /\ s \in Optional /\ p.left = 0 /\ next.advisories = p.advisories
                \/ /\ s \in next.advisories
                   /\ p.left <= Words(part) /\ Words(part) <= p.left + 1
                   /\ p.left = 0 => Words(part) = 0
<1> DEFINE next == Handle(p, s, lines)
<1>0. p.left \in Nat /\ Total(p) \in Nat /\ <<>> \in Seq(Nat)
  BY CountsTyped DEF Packs
<1>1. CASE Skips(p, s, lines)
  <2>1. next = p
    BY <1>1, HandleSkips
  <2>2. PartOf(p, s) = <<>>
    BY DEF PartOf
  <2>3. lines = <<>> \/ (s \in Optional /\ p.left = 0)
    BY <1>0, <1>1 DEF Skips
  <2>4. Words(<<>>) = 0 /\ Greater(0, p.left - 0) = p.left /\ Total(p) + 0 = Total(p)
    BY <1>0, WordsNone DEF Greater
  <2>5. \/ PartOf(p, s) = lines /\ Words(PartOf(p, s)) <= p.left
        \/ PartOf(p, s) = <<>> /\ s \in Optional /\ p.left = 0
    BY <1>0, <2>2, <2>3, <2>4
  <2> HIDE DEF next
  <2> QED BY <1>0, <2>1, <2>2, <2>4, <2>5 DEF next
<1>2. CASE ~Skips(p, s, lines)
  <2>1. PICK taken : taken = Take(lines, p.left)
    OBVIOUS
  <2>2. /\ next \in Packs
        /\ next.sections = Append(p.sections, [title |-> s, lines |-> taken.lines])
        /\ next.advisories = (IF taken.trimmed THEN p.advisories \cup {s} ELSE p.advisories)
        /\ next.left = Greater(0, p.left - Words(taken.lines))
        /\ Total(next) = Total(p) + Words(taken.lines)
    BY <1>2, <2>1, HandleTakes
  <2> HIDE DEF next
  <2>3. /\ taken.lines \in Seq(Nat) /\ taken.trimmed \in BOOLEAN
        /\ ~taken.trimmed => taken.lines = lines /\ Words(lines) <= p.left
        /\ taken.trimmed => /\ p.left <= Words(taken.lines)
                            /\ Words(taken.lines) <= p.left + 1
                            /\ p.left = 0 => Words(taken.lines) = 0
    BY <1>0, <2>1, TakeIs
  <2>4. PICK entry \in Entries : entry = [title |-> s, lines |-> taken.lines]
    BY <2>3 DEF Entries
  <2>5. entry.title = s /\ entry.lines = taken.lines /\ next.sections = Append(p.sections, entry)
    BY <2>2, <2>4
  <2>6. /\ PartOf(next, s) = taken.lines
        /\ \A o : o # s => Titled(next, o) = Titled(p, o) /\ PartOf(next, o) = PartOf(p, o)
    BY <2>2, <2>5, PartAdded
  <2>7. Titled(next, s) \subseteq {1 + Len(p.sections)}
    <3>1. /\ DOMAIN next.sections = 1..(Len(p.sections) + 1) /\ DOMAIN p.sections = 1..Len(p.sections)
          /\ \A i \in 1..Len(p.sections) : next.sections[i] = p.sections[i]
      BY <2>5 DEF Packs
    <3>2. \A i \in 1..Len(p.sections) : next.sections[i].title # s
      BY <3>1 DEF Titled
    <3>3. \A i \in 1..(Len(p.sections) + 1) : i \in 1..Len(p.sections) \/ i = 1 + Len(p.sections)
      BY DEF Packs
    <3> QED BY <3>1, <3>2, <3>3 DEF Titled
  <2>8. Words(taken.lines) \in Nat
    BY <2>3, WordsAdd
  <2> QED BY <1>0, <2>2, <2>3, <2>6, <2>7, <2>8 DEF next
<1> QED BY <1>1, <1>2

-------------------------------------------------------------------------------
(* The packs of a context, section by section.                             *)

Start(room) == [sections |-> <<>>, advisories |-> {}, left |-> room]

\* run[k] is what the first k sections leave.
PacksOf(order, L, room, run) ==
  /\ run \in [0..Len(order) -> Packs] /\ run[0] = Start(room)
  /\ \A k \in 1..Len(order) : run[k] = Handle(run[k - 1], order[k], L[k])

\* A section keeps the pack one.
LEMMA HandleStays ==
  ASSUME NEW p \in Packs, NEW s \in Sections, NEW lines \in Seq(Nat)
  PROVE  Handle(p, s, lines) \in Packs
<1>1. CASE Skips(p, s, lines)
  BY <1>1, HandleSkips
<1>2. CASE ~Skips(p, s, lines)
  BY <1>2, HandleTakes
<1> QED BY <1>1, <1>2

\* Before the first section there is nothing.
LEMMA StartIs ==
  ASSUME NEW room \in Nat
  PROVE  /\ Start(room) \in Packs /\ [NoContext EXCEPT !.left = room] = Start(room)
         /\ Total(Start(room)) = 0 /\ \A s : Titled(Start(room), s) = {}
<1>1. <<>> \in Seq(Entries) /\ {} \in SUBSET Sections /\ Len(<<>>) = 0
  OBVIOUS
<1>2. Start(room) \in Packs
  BY <1>1 DEF Start, Packs
<1>3. [NoContext EXCEPT !.left = room] = Start(room)
  BY DEF NoContext, Start
<1>4. Start(room).sections = <<>> /\ DOMAIN Start(room).sections = {}
  BY DEF Start
<1>5. Counts(Start(room)) \in Seq(Nat) /\ Len(Counts(Start(room))) = 0
  BY <1>1, <1>2, <1>4, CountsTyped
<1>6. Counts(Start(room)) = <<>>
  <2>1. PICK counts \in Seq(Nat) : counts = Counts(Start(room))
    BY <1>5
  <2> QED BY <1>5, <2>1
<1>7. Total(Start(room)) = 0
  BY <1>6, WordsNone DEF Total
<1>8. \A s : Titled(Start(room), s) = {}
  BY <1>4 DEF Titled
<1> QED BY <1>2, <1>3, <1>7, <1>8

\* A context is where the packs of its sections end.
LEMMA ContextIs ==
  ASSUME NEW q, IsQuery(q), NEW found, IsFiniteSet(found), NEW room \in Nat
  PROVE  LET order == Profiles[q.intent].sections
             L == [k \in 1..Len(order) |-> LinesOf(q, found, order[k])]
         IN  /\ Order(order) /\ L \in [1..Len(order) -> Seq(Nat)]
             /\ \E run : PacksOf(order, L, room, run) /\ Context(q, found, room) = run[Len(order)]
<1> DEFINE order == Profiles[q.intent].sections
           L == [k \in 1..Len(order) |-> LinesOf(q, found, order[k])]
           Body(f) ==
      [k \in 0..Len(order) |-> IF k = 0 THEN [NoContext EXCEPT !.left = room]
                               ELSE Handle(f[k - 1], order[k], LinesOf(q, found, order[k]))]
<1>1. Order(order)
  BY ProfilesAreOrders DEF IsQuery
<1>2. PICK n \in Nat : n = Len(order)
  BY <1>1 DEF Order
<1>3. \A k \in 1..n : order[k] \in Sections
  BY <1>1, <1>2 DEF Order
<1>4. L \in [1..n -> Seq(Nat)] /\ \A k \in 1..n : L[k] = LinesOf(q, found, order[k])
  BY <1>2, <1>3, LinesTyped
<1> DEFINE chain == [k \in 1..n |-> [p \in Packs |-> Handle(p, order[k], L[k])]]
<1>5. chain \in Steps(Packs, n) /\ Start(room) \in Packs
  BY <1>3, <1>4, HandleStays, StartIs DEF Steps
<1>6. PICK run \in RunsOf(Packs, n, chain, Start(room)) : TRUE
  <2> HIDE DEF chain
  <2> QED BY <1>5, RunExists
<1>7. PacksOf(order, L, room, run)
  <2>1. run \in [0..n -> Packs] /\ run[0] = Start(room) /\ \A k \in 1..n : run[k] = chain[k][run[k - 1]]
    BY <1>6 DEF RunsOf
  <2>2. \A k \in 1..n : run[k - 1] \in Packs
    BY <2>1
  <2> QED BY <1>2, <2>1, <2>2 DEF PacksOf
<1>8. \A k \in 1..n : run[k] = Handle(run[k - 1], order[k], LinesOf(q, found, order[k]))
  BY <1>2, <1>4, <1>7 DEF PacksOf
<1>9. run = Body(run)
  <2>1. run \in [0..n -> Packs] /\ run[0] = [NoContext EXCEPT !.left = room]
    BY <1>2, <1>7, StartIs DEF PacksOf
  <2>2. \A k \in 0..n : k # 0 => k \in 1..n
    OBVIOUS
  <2>3. \A k \in 0..n : run[k] = IF k = 0 THEN [NoContext EXCEPT !.left = room]
                                 ELSE Handle(run[k - 1], order[k], LinesOf(q, found, order[k]))
    BY <1>8, <2>1, <2>2, Zenon
  <2> QED BY <1>2, <2>1, <2>3, Zenon
<1>10. PICK F : F = Body(F) /\ F = CHOOSE f : f = Body(f)
  <2> HIDE DEF Body
  <2> QED BY <1>9, Zenon
<1>11. Context(q, found, room) = F[n]
  BY <1>2, <1>10, Zenon DEF Context
<1>12. \A k \in 0..n : F[k] = run[k]
  <2>1. \A k \in 0..n : F[k] = IF k = 0 THEN [NoContext EXCEPT !.left = room]
                               ELSE Handle(F[k - 1], order[k], LinesOf(q, found, order[k]))
    BY <1>2, <1>10, Zenon
  <2>2. 0 \in 0..n /\ \A k \in 1..n : k \in 0..n /\ k # 0
    OBVIOUS
  <2>3. F[0] = run[0]
    BY <2>1, <2>2, <1>7, StartIs, Zenon DEF PacksOf
  <2>4. \A k \in 1..n : F[k] = Handle(F[k - 1], order[k], LinesOf(q, found, order[k]))
    BY <2>1, <2>2, Zenon
  <2>5. Agree(n, F, run)
    BY <1>8, <2>3, <2>4, Zenon DEF Agree
  <2> QED BY <2>5, SameRuns
<1>13. F[n] = run[n]
  BY <1>12
<1> QED BY <1>1, <1>2, <1>4, <1>7, <1>11, <1>13

\* Words per section shown, for the first k sections.
PartWords(p, k, order) == [j \in 1..k |-> Words(PartOf(p, order[j]))]

\* What is left and what is used make the budget, until a line is cut.
Balanced(p, room) ==
  /\ p.advisories = {} => Total(p) + p.left = room
  /\ p.advisories # {} => p.left = 0 /\ room <= Total(p) /\ Total(p) <= room + 1

\* The sections that had no turn are not there, and those that had make up the
\* whole.
Complete(p, k, order) ==
  /\ \A j \in (k + 1)..Len(order) : Titled(p, order[j]) = {}
  /\ \A j \in 1..k : PartOf(p, order[j]) \in Seq(Nat)
  /\ Words(PartWords(p, k, order)) = Total(p)

\* Where a line is missing the budget ended.
Ended(p, k, order, L) ==
  \A i \in 1..k : PartOf(p, order[i]) # L[i] =>
    /\ p.left = 0
    /\ \A j \in (i + 1)..k : Words(PartOf(p, order[j])) = 0
    /\ order[i] \in p.advisories \/ (order[i] \in Optional /\ PartOf(p, order[i]) = <<>>)

Fine(p, k, order, L, room) ==
  /\ p \in Packs /\ Balanced(p, room) /\ Complete(p, k, order) /\ Ended(p, k, order, L)

\* A function over 1..n is a sequence.
LEMMA SequenceIs ==
  ASSUME NEW n \in Nat, NEW f \in [1..n -> Nat]
  PROVE  f \in Seq(Nat) /\ Len(f) = n
OBVIOUS

\* Fine holds before the first section.
LEMMA FineStart ==
  ASSUME NEW room \in Nat, NEW order, NEW L
  PROVE  Fine(Start(room), 0, order, L, room)
<1>1. /\ Start(room) \in Packs /\ Total(Start(room)) = 0 /\ \A s : Titled(Start(room), s) = {}
      /\ Start(room).left = room /\ Start(room).advisories = {}
  BY StartIs DEF Start
<1>2. Words(PartWords(Start(room), 0, order)) = 0
  <2>1. PartWords(Start(room), 0, order) \in [1..0 -> Nat]
    BY DEF PartWords
  <2>2. PICK words \in Seq(Nat) : words = PartWords(Start(room), 0, order) /\ Len(words) = 0
    BY <2>1
  <2>3. words = <<>>
    BY <2>2
  <2> QED BY <2>2, <2>3, WordsNone
<1>3. Balanced(Start(room), room) /\ Complete(Start(room), 0, order) /\ Ended(Start(room), 0, order, L)
  BY <1>1, <1>2 DEF Balanced, Complete, Ended
<1> QED BY <1>1, <1>3 DEF Fine

\* A section keeps it: what it shows is whole, or ends the budget.
LEMMA FineStep ==
  ASSUME NEW room \in Nat, NEW order, Order(order), NEW L \in [1..Len(order) -> Seq(Nat)],
         NEW k \in 1..Len(order), NEW p, Fine(p, k - 1, order, L, room)
  PROVE  Fine(Handle(p, order[k], L[k]), k, order, L, room)
<1>0. PICK n \in Nat : n = Len(order)
  BY DEF Order
<1>1. /\ k \in 1..n /\ k \in Nat /\ k - 1 \in Nat /\ (k - 1) + 1 = k
      /\ order[k] \in Sections /\ L[k] \in Seq(Nat) /\ p \in Packs
      /\ \A j \in 1..n : j # k => order[j] # order[k]
  BY <1>0 DEF Order, Fine
<1>2. PICK s : s = order[k]
  OBVIOUS
<1>3. PICK lines : lines = L[k]
  OBVIOUS
<1>4. Titled(p, s) = {}
  <2>1. \A j \in ((k - 1) + 1)..n : Titled(p, order[j]) = {}
    BY <1>0 DEF Fine, Complete
  <2>2. k \in ((k - 1) + 1)..n
    BY <1>1
  <2> QED BY <1>2, <2>1, <2>2
<1>5. PICK next : next = Handle(p, s, lines)
  OBVIOUS
<1>6. PICK part : part = PartOf(next, s)
  OBVIOUS
<1>7. /\ next \in Packs /\ part \in Seq(Nat)
      /\ \A o : o # s => Titled(next, o) = Titled(p, o) /\ PartOf(next, o) = PartOf(p, o)
      /\ p.advisories \subseteq next.advisories
      /\ Total(next) = Total(p) + Words(part)
      /\ Total(p) \in Nat /\ Words(part) \in Nat
      /\ next.left = Greater(0, p.left - Words(part))
      /\ \/ part = lines /\ Words(part) <= p.left /\ next.advisories = p.advisories
         \/ part = <<>> /\ s \in Optional /\ p.left = 0 /\ next.advisories = p.advisories
         \/ /\ s \in next.advisories
            /\ p.left <= Words(part) /\ Words(part) <= p.left + 1
            /\ p.left = 0 => Words(part) = 0
  <2>1. p \in Packs /\ s \in Sections /\ lines \in Seq(Nat)
    BY <1>1, <1>2, <1>3
  <2> QED BY <1>4, <1>5, <1>6, <2>1, HandleSpends
<1>8. p.left \in Nat /\ Words(<<>>) = 0
  BY <1>1, WordsNone DEF Packs
<1>9. p.left = 0 => Words(part) = 0 /\ next.left = 0
  BY <1>7, <1>8 DEF Greater
<1>10. part # lines => next.left = 0
  BY <1>7, <1>8, <1>9 DEF Greater
<1>11. Balanced(next, room)
  <2>0. /\ Total(next) = Total(p) + Words(part) /\ Total(p) \in Nat /\ Words(part) \in Nat
        /\ next.left = Greater(0, p.left - Words(part))
    BY <1>7
  <2>1. CASE p.advisories # {}
    <3>1. p.left = 0 /\ room <= Total(p) /\ Total(p) <= room + 1
      BY <2>1 DEF Fine, Balanced
    <3>2. next.advisories # {} /\ next.left = 0 /\ Total(next) = Total(p)
      BY <1>7, <1>9, <2>0, <2>1, <3>1
    <3> QED BY <3>1, <3>2 DEF Balanced
  <2>2. CASE p.advisories = {}
    <3>1. Total(p) + p.left = room
      BY <2>2 DEF Fine, Balanced
    <3>2. CASE s \in next.advisories
      <4>1. p.left <= Words(part) /\ Words(part) <= p.left + 1
        BY <1>7, <2>2, <3>2
      <4>2. next.left = 0 /\ next.advisories # {}
        BY <1>8, <2>0, <3>2, <4>1 DEF Greater
      <4>3. room <= Total(next) /\ Total(next) <= room + 1
        BY <1>8, <2>0, <3>1, <4>1
      <4> QED BY <4>2, <4>3 DEF Balanced
    <3>3. CASE s \notin next.advisories
      <4>1. next.advisories = {} /\ Words(part) <= p.left
        BY <1>7, <1>8, <2>2, <3>3
      <4>2. next.left = p.left - Words(part)
        BY <1>8, <2>0, <4>1 DEF Greater
      <4>3. Total(next) + next.left = room
        BY <1>8, <2>0, <3>1, <4>2
      <4> QED BY <4>1, <4>3 DEF Balanced
    <3> QED BY <3>2, <3>3
  <2> QED BY <2>1, <2>2
<1>12. \A j \in 1..n : j # k =>
         Titled(next, order[j]) = Titled(p, order[j]) /\ PartOf(next, order[j]) = PartOf(p, order[j])
  BY <1>1, <1>2, <1>7
<1>13. \A j \in 1..(k - 1) : j \in 1..n /\ j # k /\ j \in 1..k
  BY <1>1
<1>14. \A j \in 1..k : j \in 1..(k - 1) \/ j = k
  BY <1>1
<1>15. \A j \in 1..k : PartOf(next, order[j]) \in Seq(Nat)
  <2>1. \A j \in 1..(k - 1) : PartOf(p, order[j]) \in Seq(Nat)
    BY DEF Fine, Complete
  <2> QED BY <1>2, <1>6, <1>7, <1>12, <1>13, <1>14, <2>1
<1>16. Complete(next, k, order)
  <2>1. \A j \in (k + 1)..n : j \in 1..n /\ j # k /\ j \in ((k - 1) + 1)..n
    BY <1>0, <1>1
  <2>2. \A j \in (k + 1)..n : Titled(next, order[j]) = {}
    BY <1>0, <1>12, <2>1 DEF Fine, Complete
  <2>3. PICK before : before = PartWords(p, k - 1, order)
    OBVIOUS
  <2>4. PICK after : after = PartWords(next, k, order)
    OBVIOUS
  <2>5. \A j \in 1..k : Words(PartOf(next, order[j])) \in Nat
    BY <1>15, WordsAdd
  <2>6. after \in [1..k -> Nat] /\ \A j \in 1..k : after[j] = Words(PartOf(next, order[j]))
    BY <2>4, <2>5, Zenon DEF PartWords
  <2>7. before = [j \in 1..(k - 1) |-> Words(PartOf(p, order[j]))]
    BY <2>3 DEF PartWords
  <2>8. \A j \in 1..(k - 1) : before[j] = after[j] /\ before[j] \in Nat
    BY <1>12, <1>13, <2>6, <2>7
  <2>9. before \in [1..(k - 1) -> Nat]
    BY <2>7, <2>8
  <2>10. before \in Seq(Nat) /\ Len(before) = k - 1 /\ after \in Seq(Nat) /\ Len(after) = k
    BY <1>1, <2>6, <2>9, SequenceIs
  <2>11. after[k] = Words(part)
    BY <1>1, <1>2, <1>6, <2>6
  <2>12. after = Append(before, Words(part))
    <3>1. PICK more \in Seq(Nat) : more = Append(before, Words(part))
      BY <1>7, <2>10, WordsAdd
    <3>2. Len(more) = k /\ more[k] = Words(part) /\ \A j \in 1..(k - 1) : more[j] = before[j]
      <4>1. Words(part) \in Nat
        BY <1>7
      <4>2. /\ Len(Append(before, Words(part))) = (k - 1) + 1
            /\ Append(before, Words(part))[(k - 1) + 1] = Words(part)
            /\ \A j \in 1..(k - 1) : Append(before, Words(part))[j] = before[j]
        BY <2>10, <4>1, AppendIs
      <4> QED BY <1>1, <3>1, <4>2
    <3>3. \A j \in 1..k : more[j] = after[j]
      BY <1>14, <2>8, <2>11, <3>2
    <3> QED BY <2>10, <3>1, <3>2, <3>3
  <2>13. Words(after) = Words(before) + Words(part)
    BY <1>7, <2>10, <2>12, WordsAdd
  <2>14. Words(before) = Total(p)
    BY <2>3 DEF Fine, Complete
  <2> QED BY <1>0, <1>7, <1>15, <2>2, <2>4, <2>13, <2>14 DEF Complete
<1>17. Ended(next, k, order, L)
  <2> SUFFICES ASSUME NEW i \in 1..k, PartOf(next, order[i]) # L[i]
               PROVE  /\ next.left = 0
                      /\ \A j \in (i + 1)..k : Words(PartOf(next, order[j])) = 0
                      /\ \/ order[i] \in next.advisories
                         \/ order[i] \in Optional /\ PartOf(next, order[i]) = <<>>
    BY DEF Ended
  <2>1. CASE i = k
    <3>1. part # lines /\ order[i] = s /\ PartOf(next, order[i]) = part
      BY <1>2, <1>3, <1>6, <2>1
    <3>2. \A j \in (i + 1)..k : FALSE
      BY <1>1, <2>1
    <3>3. s \in next.advisories \/ (s \in Optional /\ part = <<>>)
      BY <1>7, <3>1
    <3> QED BY <1>10, <3>1, <3>2, <3>3
  <2>2. CASE i # k
    <3>1. i \in 1..(k - 1) /\ PartOf(next, order[i]) = PartOf(p, order[i])
      BY <1>12, <1>13, <1>14, <2>2
    <3>2. /\ p.left = 0
          /\ \A j \in (i + 1)..(k - 1) : Words(PartOf(p, order[j])) = 0
          /\ order[i] \in p.advisories \/ (order[i] \in Optional /\ PartOf(p, order[i]) = <<>>)
      BY <3>1 DEF Fine, Ended
    <3>3. ASSUME NEW j \in (i + 1)..k PROVE Words(PartOf(next, order[j])) = 0
      <4>1. CASE j = k
        BY <1>2, <1>6, <1>9, <3>2, <4>1
      <4>2. CASE j # k
        <5>1. j \in (i + 1)..(k - 1) /\ j \in 1..(k - 1)
          BY <1>1, <3>1, <4>2
        <5>2. PartOf(next, order[j]) = PartOf(p, order[j])
          BY <1>12, <1>13, <5>1
        <5> QED BY <3>2, <5>1, <5>2
      <4> QED BY <4>1, <4>2
    <3> QED BY <1>7, <1>9, <3>1, <3>2, <3>3
  <2> QED BY <2>1, <2>2
<1> QED BY <1>2, <1>3, <1>5, <1>7, <1>11, <1>16, <1>17 DEF Fine

\* So it holds after the last one.
LEMMA FineEnd ==
  ASSUME NEW room \in Nat, NEW order, Order(order), NEW L \in [1..Len(order) -> Seq(Nat)],
         NEW run, PacksOf(order, L, room, run)
  PROVE  Fine(run[Len(order)], Len(order), order, L, room)
<1>0. PICK n \in Nat : n = Len(order)
  BY DEF Order
<1> DEFINE Broken == {k \in 0..n : ~Fine(run[k], k, order, L, room)}
<1>1. ASSUME Broken # {} PROVE FALSE
  <2>1. PICK k \in Broken : \A l \in Broken : k <= l
    <3>1. Broken \in SUBSET Nat
      OBVIOUS
    <3> HIDE DEF Broken
    <3> QED BY <1>1, <3>1, LeastExists
  <2>2. k \in 0..n /\ ~Fine(run[k], k, order, L, room)
    BY <2>1
  <2>3. k # 0
    BY <2>2, FineStart DEF PacksOf
  <2>4. k \in 1..n /\ k - 1 \in 0..n /\ ~(k <= k - 1)
    BY <2>2, <2>3
  <2>5. k - 1 \notin Broken
    <3> HIDE DEF Broken
    <3> QED BY <2>1, <2>4
  <2>6. Fine(run[k - 1], k - 1, order, L, room)
    BY <2>4, <2>5
  <2>7. run[k] = Handle(run[k - 1], order[k], L[k])
    BY <1>0, <2>4 DEF PacksOf
  <2> QED BY <1>0, <2>2, <2>4, <2>6, <2>7, FineStep
<1>2. n \in 0..n
  OBVIOUS
<1> QED BY <1>0, <1>1, <1>2

-------------------------------------------------------------------------------
(* Two hops.                                                               *)

EndNames(facts) == {f.subject : f \in facts} \cup {f.object : f \in facts}

\* The order lists all facts.
LEMMA OrderLists ==
  ASSUME NEW facts, IsFiniteSet(facts), NEW order \in SetToSeqs(facts)
  PROVE  /\ order \in Seq(facts) /\ Len(order) \in Nat
         /\ \A f \in facts : \E i \in 1..Len(order) : order[i] = f
<1>1. PICK n \in Nat : n = Cardinality(facts)
  BY FS_CardinalityType
<1>2. order \in [1..n -> facts] /\ \A i, j \in 1..n : i # j => order[i] # order[j]
  BY <1>1 DEF SetToSeqs
<1>3. order \in Injection(1..n, facts)
  BY <1>2 DEF Injection, IsInjective
<1>4. IsFiniteSet(1..n) /\ Cardinality(1..n) = n
  BY FS_Interval
<1>5. order \in Surjection(1..n, facts)
  BY <1>1, <1>3, <1>4, FS_Injection
<1>6. order \in Seq(facts) /\ Len(order) = n
  BY <1>2
<1> QED BY <1>5, <1>6 DEF Surjection

\* The ends of the order are the names in the facts, all of them.
LEMMA EndsAre ==
  ASSUME NEW facts \in SUBSET Facts, IsFiniteSet(facts), NEW order \in SetToSeqs(facts)
  PROVE  /\ DOMAIN Ends(order) = 1..(2 * Len(order)) /\ Len(order) \in Nat
         /\ \A k \in DOMAIN Ends(order) : Ends(order)[k] \in EndNames(facts)
         /\ \A n \in EndNames(facts) : \E k \in DOMAIN Ends(order) : Ends(order)[k] = n
<1>1. /\ order \in Seq(facts) /\ Len(order) \in Nat
      /\ \A f \in facts : \E i \in 1..Len(order) : order[i] = f
  BY OrderLists
<1>2. PICK m \in Nat : m = Len(order)
  BY <1>1
<1>3. DOMAIN Ends(order) = 1..(2 * m)
  BY <1>2, Zenon DEF Ends
<1>4. \A k \in 1..(2 * m) : Ends(order)[k] =
        IF k % 2 = 1 THEN order[(k + 1) \div 2].subject ELSE order[k \div 2].object
  BY <1>2, Zenon DEF Ends
<1>5. ASSUME NEW k \in 1..(2 * m) PROVE Ends(order)[k] \in EndNames(facts)
  <2>1. CASE k % 2 = 1
    <3>1. (k + 1) \div 2 \in 1..m
      BY <2>1
    <3>2. order[(k + 1) \div 2] \in facts
      BY <1>1, <1>2, <3>1
    <3> QED BY <1>4, <2>1, <3>2, Zenon DEF EndNames
  <2>2. CASE k % 2 # 1
    <3>1. k \div 2 \in 1..m
      BY <2>2
    <3>2. order[k \div 2] \in facts
      BY <1>1, <1>2, <3>1
    <3> QED BY <1>4, <2>2, <3>2, Zenon DEF EndNames
  <2> QED BY <2>1, <2>2
<1>6. ASSUME NEW f \in facts
      PROVE  /\ \E k \in 1..(2 * m) : Ends(order)[k] = f.subject
             /\ \E k \in 1..(2 * m) : Ends(order)[k] = f.object
  <2>1. PICK i \in 1..m : order[i] = f
    BY <1>1, <1>2
  <2>2. /\ 2 * i - 1 \in 1..(2 * m) /\ (2 * i - 1) % 2 = 1 /\ ((2 * i - 1) + 1) \div 2 = i
        /\ 2 * i \in 1..(2 * m) /\ (2 * i) % 2 # 1 /\ (2 * i) \div 2 = i
    OBVIOUS
  <2>3. Ends(order)[2 * i - 1] = f.subject
    BY <1>4, <2>1, <2>2, Zenon
  <2>4. Ends(order)[2 * i] = f.object
    BY <1>4, <2>1, <2>2, Zenon
  <2> QED BY <2>2, <2>3, <2>4
<1>7. ASSUME NEW n \in EndNames(facts) PROVE \E k \in 1..(2 * m) : Ends(order)[k] = n
  <2>1. PICK f \in facts : n = f.subject \/ n = f.object
    BY DEF EndNames
  <2> QED BY <1>6, <2>1
<1> QED BY <1>2, <1>3, <1>5, <1>7

\* Of the ends with one lower case form that is no seed, the first is looked up.
LEMMA FirstIsLookedUp ==
  ASSUME NEW facts \in SUBSET Facts, IsFiniteSet(facts), NEW order \in SetToSeqs(facts),
         NEW seeds, NEW n \in EndNames(facts), Fold[n] \notin seeds
  PROVE  \E m \in Frontier(seeds, order) : m \in EndNames(facts) /\ Fold[m] = Fold[n]
<1>1. /\ DOMAIN Ends(order) = 1..(2 * Len(order)) /\ Len(order) \in Nat
      /\ \A k \in DOMAIN Ends(order) : Ends(order)[k] \in EndNames(facts)
      /\ \E k \in DOMAIN Ends(order) : Ends(order)[k] = n
  BY EndsAre
<1> DEFINE Same == {k \in DOMAIN Ends(order) : Fold[Ends(order)[k]] = Fold[n]}
<1>2. Same # {} /\ Same \in SUBSET Nat
  BY <1>1
<1>3. PICK k \in Same : \A l \in Same : k <= l
  <2> HIDE DEF Same
  <2> QED BY <1>2, LeastExists
<1>4. k \in DOMAIN Ends(order) /\ k \in Nat /\ Fold[Ends(order)[k]] = Fold[n]
  BY <1>1, <1>3
<1>5. ASSUME NEW l \in 1..(k - 1) PROVE Fold[Ends(order)[l]] # Fold[Ends(order)[k]]
  <2>1. l \in DOMAIN Ends(order) /\ ~(k <= l)
    BY <1>1, <1>4
  <2>2. l \notin Same
    <3> HIDE DEF Same
    <3> QED BY <1>3, <2>1
  <2> QED BY <1>4, <2>1, <2>2
<1>6. Ends(order)[k] \in Frontier(seeds, order)
  BY <1>4, <1>5 DEF Frontier
<1> QED BY <1>1, <1>4, <1>6

Grown(seeds, found) ==
  \E order \in SetToSeqs(FirstHop(seeds)) : found = FirstHop(seeds) \cup SecondHop(seeds, order)

\* What the two hops find, and what they pass over.
LEMMA HopsFound ==
  ASSUME graph \in Graphs, NEW seeds, seeds \subseteq {Fold[n] : n \in Names},
         NEW found, Grown(seeds, found)
  PROVE  LET ends == EndNames(FirstHop(seeds))
         IN  /\ FirstHop(seeds) \subseteq found
             /\ \A n \in ends : \A f \in Touching(n) \ found :
                  \E m \in seeds \cup ends : m # n /\ Fold[m] = Fold[n]
             /\ \A n \in ends : \A f \in Touching(Fold[n]) : f \in found
             /\ found \subseteq UNION {Touching(n) : n \in seeds \cup ends}
<1>1. PICK facts : facts = FirstHop(seeds)
  OBVIOUS
<1>2. PICK ends : ends = EndNames(facts)
  OBVIOUS
<1>3. facts \subseteq graph /\ graph \subseteq Facts /\ IsFiniteSet(graph)
  BY <1>1, AnswerConstants DEF FirstHop, Touching
<1>4. facts \in SUBSET Facts /\ IsFiniteSet(facts)
  BY <1>3, FS_Subset
<1>5. PICK order \in SetToSeqs(facts) : found = facts \cup SecondHop(seeds, order)
  BY <1>1 DEF Grown
<1>6. ends \subseteq Names
  BY <1>2, <1>4 DEF EndNames, Facts
<1>7. \A n \in Names : Fold[n] \in Names /\ Fold[Fold[n]] = Fold[n]
  BY AnswerConstants
<1>8. \A n \in seeds : Touching(n) \subseteq found
  BY <1>1, <1>5 DEF FirstHop
<1>9. \A n \in Frontier(seeds, order) : Touching(n) \subseteq found
  BY <1>5 DEF SecondHop
<1>10. Frontier(seeds, order) \subseteq ends
  BY <1>2, <1>4, <1>5, EndsAre DEF Frontier
<1>11. ASSUME NEW n \in ends, NEW f \in Touching(n) \ found
       PROVE  \E m \in seeds \cup ends : m # n /\ Fold[m] = Fold[n]
  <2>1. CASE Fold[n] \in seeds
    <3>1. Fold[n] # n
      BY <1>8, <1>11, <2>1
    <3> QED BY <1>6, <1>7, <2>1, <3>1
  <2>2. CASE Fold[n] \notin seeds
    <3>1. PICK m \in Frontier(seeds, order) : m \in ends /\ Fold[m] = Fold[n]
      BY <1>2, <1>4, <1>5, <2>2, FirstIsLookedUp
    <3>2. m # n
      BY <1>9, <1>11, <3>1
    <3> QED BY <3>1, <3>2
  <2> QED BY <2>1, <2>2
<1>12. ASSUME NEW n \in ends, NEW f \in Touching(Fold[n]) PROVE f \in found
  <2>1. f \in graph /\ Fold[n] \in {f.subject, f.object}
    BY <1>6, <1>7 DEF Touching, Variants
  <2>2. CASE Fold[n] \in seeds
    BY <1>8, <1>12, <2>2
  <2>3. CASE Fold[n] \notin seeds
    <3>1. PICK m \in Frontier(seeds, order) : m \in ends /\ Fold[m] = Fold[n]
      BY <1>2, <1>4, <1>5, <2>3, FirstIsLookedUp
    <3>2. f \in Touching(m)
      BY <2>1, <3>1 DEF Touching, Variants
    <3> QED BY <1>9, <3>1, <3>2
  <2> QED BY <2>2, <2>3
<1>13. found \subseteq UNION {Touching(n) : n \in seeds \cup ends}
  BY <1>1, <1>5, <1>10 DEF FirstHop, SecondHop
<1> QED BY <1>1, <1>2, <1>5, <1>11, <1>12, <1>13

-------------------------------------------------------------------------------
(* What the requests retrieved and assembled.                              *)

Retrieved ==
  /\ graph \in Graphs
  /\ \A r \in Requests :
       /\ bundle[r] \subseteq graph
       /\ pc[r] # "new" /\ "facts" \in Profiles[Asks[query[r]].intent].channels =>
            Grown(Asks[query[r]].seeds, bundle[r])

Assembled ==
  /\ DOMAIN context = Requests
  /\ \A r \in Requests : Answered(r) =>
       /\ pc[r] \in {"restore", "done"}
       /\ context[r] = Context(Asks[query[r]], bundle[r], budget[r])

RInv == Retrieved /\ Assembled

\* Of the state retrieval reads the graph only.
LEMMA GrownStays ==
  ASSUME graph' = graph, NEW seeds, NEW found, Grown(seeds, found)
  PROVE  Grown(seeds, found)'
<1>1. \A n : Touching(n)' = Touching(n)
  BY DEF Touching
<1>2. FirstHop(seeds)' = FirstHop(seeds) /\ \A order : SecondHop(seeds, order)' = SecondHop(seeds, order)
  BY <1>1 DEF FirstHop, SecondHop, Frontier, Ends
<1> QED BY <1>2 DEF Grown

\* Nothing is retrieved or assembled at first.
LEMMA InitRetrieved == Init => RInv
BY DEF Init, RInv, Retrieved, Assembled, Answered

\* A step that retrieves nothing.
LEMMA RetrievedStays ==
  ASSUME IInv, Retrieved, graph' = graph, bundle' = bundle, query' = query,
         \A r \in Requests : pc'[r] # "new" => pc[r] # "new"
  PROVE  Retrieved'
<1>1. graph' \in Graphs /\ \A r \in Requests : bundle'[r] \subseteq graph'
  BY DEF Retrieved
<1>2. ASSUME NEW r \in Requests, pc'[r] # "new",
             "facts" \in Profiles[Asks[query'[r]].intent].channels
      PROVE  Grown(Asks[query[r]].seeds, bundle[r])'
  <2>1. PICK seeds : seeds = Asks[query[r]].seeds
    OBVIOUS
  <2>2. PICK found : found = bundle[r]
    OBVIOUS
  <2>3. Grown(seeds, found)
    BY <1>2, <2>1, <2>2 DEF Retrieved
  <2>4. Grown(seeds, found)'
    BY <2>3, GrownStays
  <2>5. seeds = Asks[query'[r]].seeds /\ found = bundle'[r]
    BY <2>1, <2>2
  <2> QED BY <2>4, <2>5
<1> QED BY <1>1, <1>2 DEF Retrieved

\* A step that assembles nothing.
LEMMA AssembledStays ==
  ASSUME Assembled, context' = context, budget' = budget,
         \A r \in Requests : Answered(r) =>
           pc'[r] \in {"restore", "done"} /\ query'[r] = query[r] /\ bundle'[r] = bundle[r]
  PROVE  Assembled'
BY DEF Assembled, Answered

\* A plan retrieves what it says, and leaves the contexts alone.
LEMMA PlanRetrieves ==
  ASSUME IInv, RInv, NEW r \in Requests, NEW q \in Queries, Plan(r, q)
  PROVE  RInv'
<1>1. /\ \A s \in Requests : s # r => pc'[s] = pc[s] /\ query'[s] = query[s] /\ bundle'[s] = bundle[s]
      /\ pc[r] = "new" /\ query'[r] = q /\ graph' = graph /\ context' = context /\ budget' = budget
  BY DEF IInv, TypeOK, Plan
<1>2. PICK seeds : seeds = Asks[q].seeds
  OBVIOUS
<1>3. ASSUME NEW s \in Requests, s # r, pc'[s] # "new",
             "facts" \in Profiles[Asks[query'[s]].intent].channels
      PROVE  Grown(Asks[query[s]].seeds, bundle[s])'
  <2>1. PICK wanted : wanted = Asks[query[s]].seeds
    OBVIOUS
  <2>2. PICK found : found = bundle[s]
    OBVIOUS
  <2>3. Grown(wanted, found)
    BY <1>1, <1>3, <2>1, <2>2 DEF RInv, Retrieved
  <2>4. Grown(wanted, found)'
    BY <1>1, <2>3, GrownStays
  <2>5. wanted = Asks[query'[s]].seeds /\ found = bundle'[s]
    BY <1>1, <1>3, <2>1, <2>2
  <2> QED BY <2>4, <2>5
<1>4. /\ "facts" \in Profiles[Asks[query'[r]].intent].channels => Grown(Asks[query[r]].seeds, bundle[r])'
      /\ bundle'[r] \subseteq graph
  <2>1. CASE "facts" \in Profiles[Asks[q].intent].channels
    <3>1. PICK order \in SetToSeqs(FirstHop(seeds)) :
            bundle' = [bundle EXCEPT ![r] = FirstHop(seeds) \cup SecondHop(seeds, order)]
      BY <1>2, <2>1 DEF Plan
    <3>2. bundle'[r] = FirstHop(seeds) \cup SecondHop(seeds, order)
      BY <3>1 DEF IInv, TypeOK
    <3>3. bundle'[r] \subseteq graph
      BY <3>2 DEF FirstHop, SecondHop, Touching
    <3>4. PICK found : found = bundle'[r]
      OBVIOUS
    <3>5. Grown(seeds, found)
      BY <3>2, <3>4 DEF Grown
    <3>6. Grown(seeds, found)'
      BY <1>1, <3>5, GrownStays
    <3>7. seeds = Asks[query'[r]].seeds
      BY <1>1, <1>2
    <3> QED BY <3>3, <3>4, <3>6, <3>7
  <2>2. CASE "facts" \notin Profiles[Asks[q].intent].channels
    <3>1. bundle' = bundle
      BY <2>2 DEF Plan
    <3> QED BY <1>1, <2>2, <3>1 DEF RInv, Retrieved
  <2> QED BY <2>1, <2>2
<1>5. Retrieved'
  <2>1. graph' \in Graphs /\ \A s \in Requests : bundle'[s] \subseteq graph'
    BY <1>1, <1>4 DEF RInv, Retrieved
  <2> QED BY <1>3, <1>4, <2>1 DEF Retrieved
<1>6. Assembled'
  <2>1. \A s \in Requests : Answered(s) => s # r
    BY <1>1 DEF IInv, Planned, Answered
  <2>2. \A s \in Requests : Answered(s) =>
          pc'[s] \in {"restore", "done"} /\ query'[s] = query[s] /\ bundle'[s] = bundle[s]
    BY <1>1, <2>1 DEF RInv, Assembled
  <2> QED BY <1>1, <2>2, AssembledStays DEF RInv
<1> QED BY <1>5, <1>6 DEF RInv

\* A context is assembled from what was retrieved, with the budget read.
LEMMA AssembleRetrieves ==
  ASSUME IInv, RInv, NEW r \in Requests, Assemble(r)
  PROVE  RInv'
<1>1. /\ \A s \in Requests : s # r =>
           pc'[s] = pc[s] /\ budget'[s] = budget[s] /\ context'[s] = context[s]
      /\ pc[r] = "assemble" /\ pc'[r] \in {"restore", "done"}
      /\ budget'[r] = limit /\ context'[r] = Context(Asks[query[r]], bundle[r], limit)
      /\ DOMAIN context' = Requests
      /\ graph' = graph /\ query' = query /\ bundle' = bundle
  BY DEF IInv, TypeOK, RInv, Assembled, Assemble
<1>2. Retrieved'
  <2>1. \A s \in Requests : pc'[s] # "new" => pc[s] # "new"
    BY <1>1
  <2> QED BY <1>1, <2>1, RetrievedStays DEF RInv
<1>3. Assembled'
  <2>1. \A s \in Requests : s # r /\ budget'[s] # None =>
          /\ pc'[s] \in {"restore", "done"}
          /\ context'[s] = Context(Asks[query'[s]], bundle'[s], budget'[s])
    BY <1>1 DEF RInv, Assembled, Answered
  <2>2. context'[r] = Context(Asks[query'[r]], bundle'[r], budget'[r])
    BY <1>1
  <2> QED BY <1>1, <2>1, <2>2 DEF Assembled, Answered
<1> QED BY <1>2, <1>3 DEF RInv

\* The other steps retrieve and assemble nothing.
LEMMA OthersRetrieve ==
  ASSUME IInv, RInv, NEW r \in Requests, SaveLimit(r) \/ SetLimit(r) \/ RestoreLimit(r)
  PROVE  RInv'
<1>1. /\ \A s \in Requests : s # r => pc'[s] = pc[s]
      /\ pc[r] \in {"save", "set", "restore"} /\ pc'[r] \in {"set", "assemble", "done"}
      /\ pc[r] = "restore" => pc'[r] = "done"
      /\ graph' = graph /\ query' = query /\ bundle' = bundle
      /\ context' = context /\ budget' = budget
  BY DEF IInv, TypeOK, SaveLimit, SetLimit, RestoreLimit
<1>2. Retrieved'
  <2>1. \A s \in Requests : pc'[s] # "new" => pc[s] # "new"
    BY <1>1
  <2> QED BY <1>1, <2>1, RetrievedStays DEF RInv
<1>3. Assembled'
  <2>1. \A s \in Requests : Answered(s) => pc'[s] \in {"restore", "done"}
    BY <1>1 DEF RInv, Assembled
  <2> QED BY <1>1, <2>1, AssembledStays DEF RInv
<1> QED BY <1>2, <1>3 DEF RInv

\* What each request retrieved and assembled, in every reachable state.
THEOREM RetrievedAndAssembled == Spec => []RInv
<1>1. Init => RInv
  BY InitRetrieved
<1>2. IInv /\ RInv /\ [Next]_vars => RInv'
  <2> SUFFICES ASSUME IInv, RInv, [Next]_vars PROVE RInv'
    OBVIOUS
  <2>1. CASE UNCHANGED vars
    <3>1. graph' = graph /\ bundle' = bundle /\ query' = query /\ pc' = pc
          /\ context' = context /\ budget' = budget
      BY <2>1 DEF vars
    <3>2. Retrieved'
      BY <3>1, RetrievedStays DEF RInv
    <3>3. Assembled'
      BY <3>1 DEF RInv, Assembled, Answered
    <3> QED BY <3>2, <3>3 DEF RInv
  <2>2. CASE Next
    <3>1. PICK r \in Requests :
            \/ \E q \in Queries : Plan(r, q)
            \/ SaveLimit(r) \/ SetLimit(r) \/ Assemble(r) \/ RestoreLimit(r)
      BY <2>2, Zenon DEF Next
    <3> QED BY <3>1, PlanRetrieves, AssembleRetrieves, OthersRetrieve
  <2> QED BY <2>1, <2>2
<1> QED BY <1>1, <1>2, Inductive, PTL DEF Spec

\* The context of an answered request, section by section.
LEMMA ContextFine ==
  ASSUME IInv, RInv, NEW r \in Requests, Answered(r)
  PROVE  LET order == Profiles[Asks[query[r]].intent].sections
             L == [k \in 1..Len(order) |-> Lines(r, order[k])]
         IN  /\ Order(order)
             /\ Fine(context[r], Len(order), order, L, budget[r]) /\ budget[r] \in Nat
<1>1. budget[r] \in Nat /\ query[r] \in Queries
  <2>1. pc[r] # "new"
    BY DEF RInv, Assembled
  <2> QED BY <2>1 DEF IInv, TypeOK, Planned, Answered
<1>2. PICK q : q = Asks[query[r]]
  OBVIOUS
<1>3. PICK room \in Nat : room = budget[r]
  BY <1>1
<1>4. PICK found : found = bundle[r]
  OBVIOUS
<1>5. IsQuery(q)
  BY <1>1, <1>2, AnswerConstants
<1>6. IsFiniteSet(found)
  <2>1. found \subseteq graph /\ IsFiniteSet(graph)
    BY <1>4, AnswerConstants DEF RInv, Retrieved
  <2> QED BY <2>1, FS_Subset
<1>7. context[r] = Context(q, found, room)
  BY <1>2, <1>3, <1>4 DEF RInv, Assembled
<1> DEFINE order == Profiles[q.intent].sections
           L == [k \in 1..Len(order) |-> LinesOf(q, found, order[k])]
<1>8. /\ Order(order) /\ L \in [1..Len(order) -> Seq(Nat)]
      /\ \E run : PacksOf(order, L, room, run) /\ Context(q, found, room) = run[Len(order)]
  BY <1>5, <1>6, ContextIs
<1>9. Fine(context[r], Len(order), order, L, room)
  <2> HIDE DEF order, L
  <2> QED BY <1>7, <1>8, FineEnd
<1>10. L = [k \in 1..Len(order) |-> Lines(r, order[k])]
  BY <1>2, <1>4, Zenon DEF Lines
<1> QED BY <1>2, <1>3, <1>8, <1>9, <1>10

\* What is shown of a section is its part of the context.
LEMMA ShownIs ==
  ASSUME NEW r \in Requests, NEW s
  PROVE  Shown(r, s) = PartOf(context[r], s)
BY DEF Shown, PartOf, Titled

\* BudgetHolds, for any budgets, lines and profiles' questions: build_context
\* never exceeds context_max_tokens by more than the one ellipsis
\* (context_builder.py:17-40).
THEOREM BudgetAlwaysHolds == Spec => []BudgetHolds
<1>1. IInv /\ RInv => BudgetHolds
  <2> SUFFICES ASSUME IInv, RInv, NEW r \in Requests, Answered(r)
               PROVE  Total(context[r]) <= budget[r] + (IF context[r].advisories = {} THEN 0 ELSE 1)
    BY DEF BudgetHolds, Total, Counts
  <2>1. context[r] \in Packs /\ Balanced(context[r], budget[r]) /\ budget[r] \in Nat
    <3>1. \E n, order, L : Fine(context[r], n, order, L, budget[r]) /\ budget[r] \in Nat
      BY ContextFine
    <3> QED BY <3>1 DEF Fine
  <2>2. Total(context[r]) \in Nat /\ context[r].left \in Nat
    BY <2>1, CountsTyped DEF Packs
  <2> QED BY <2>1, <2>2 DEF Balanced
<1> QED BY <1>1, Inductive, RetrievedAndAssembled, PTL

\* What PriorityKept says of one request and the order its profile shows.
Prioritised(r, order) ==
  \A i \in DOMAIN order : Shown(r, order[i]) # Lines(r, order[i]) =>
    /\ \A j \in (i + 1)..Len(order) : Words(Shown(r, order[j])) = 0
    /\ Words([j \in DOMAIN order |-> Words(Shown(r, order[j]))]) >= budget[r]
    /\ order[i] \in context[r].advisories \/
         (order[i] \in Optional /\ Shown(r, order[i]) = <<>>)

\* PriorityKept, for any budgets, lines and questions: the sections of a profile
\* use the budget in the profile's order (memory_planner.py, context_builder.py).
THEOREM PriorityAlwaysKept == Spec => []PriorityKept
<1>1. IInv /\ RInv => PriorityKept
  <2> SUFFICES ASSUME IInv, RInv, NEW r \in Requests, Answered(r)
               PROVE  Prioritised(r, Profiles[Asks[query[r]].intent].sections)
    BY Zenon DEF PriorityKept, Prioritised
  <2>1. PICK order : order = Profiles[Asks[query[r]].intent].sections
    OBVIOUS
  <2>2. PICK L : L = [k \in 1..Len(order) |-> Lines(r, order[k])]
    OBVIOUS
  <2>3. PICK p : p = context[r]
    OBVIOUS
  <2>4. PICK n \in Nat : n = Len(order) /\ DOMAIN order = 1..n
    <3>1. Order(order)
      BY <2>1, ContextFine
    <3> QED BY <3>1 DEF Order
  <2>5. /\ p \in Packs /\ Balanced(p, budget[r]) /\ budget[r] \in Nat
        /\ Complete(p, n, order) /\ Ended(p, n, order, L)
    <3>1. Fine(p, n, order, L, budget[r]) /\ budget[r] \in Nat
      BY <2>1, <2>2, <2>3, <2>4, ContextFine
    <3> QED BY <3>1 DEF Fine
  <2>6. \A s : Shown(r, s) = PartOf(p, s)
    BY <2>3, ShownIs
  <2>7. Words([j \in DOMAIN order |-> Words(Shown(r, order[j]))]) = Total(p)
    BY <2>4, <2>5, <2>6 DEF Complete, PartWords
  <2>8. Total(p) \in Nat
    BY <2>5, CountsTyped
  <2>9. ASSUME NEW i \in 1..n, PartOf(p, order[i]) # L[i]
        PROVE  /\ \A j \in (i + 1)..n : Words(PartOf(p, order[j])) = 0
               /\ Total(p) >= budget[r]
               /\ order[i] \in p.advisories \/ (order[i] \in Optional /\ PartOf(p, order[i]) = <<>>)
    BY <2>5, <2>8, <2>9 DEF Ended, Balanced
  <2>10. \A i \in 1..n : L[i] = Lines(r, order[i])
    BY <2>2, <2>4
  <2>11. Prioritised(r, order)
    BY <2>3, <2>4, <2>6, <2>7, <2>9, <2>10 DEF Prioritised
  <2> QED BY <2>1, <2>11
<1> QED BY <1>1, Inductive, RetrievedAndAssembled, PTL

\* TwoHopsOnly, for any graph, spelling and order: what _expand_graph_two_hop
\* (retriever.py) finds, and what it passes over.
THEOREM TwoHopsAlways == Spec => []TwoHopsOnly
<1>1. IInv /\ RInv => TwoHopsOnly
  <2> SUFFICES ASSUME IInv, RInv, NEW r \in Requests, pc[r] # "new",
                      "facts" \in Profiles[Asks[query[r]].intent].channels
               PROVE  /\ FirstHop(Asks[query[r]].seeds) \subseteq bundle[r]
                      /\ \A n \in Reached(r) : \A f \in Touching(n) \ bundle[r] :
                           \E m \in Asks[query[r]].seeds \cup Reached(r) : m # n /\ Fold[m] = Fold[n]
                      /\ \A n \in Reached(r) : \A f \in Touching(Fold[n]) : f \in bundle[r]
                      /\ bundle[r] \subseteq UNION {Touching(n) : n \in Asks[query[r]].seeds \cup Reached(r)}
    BY DEF TwoHopsOnly
  <2>1. PICK seeds : seeds = Asks[query[r]].seeds
    OBVIOUS
  <2>2. PICK found : found = bundle[r]
    OBVIOUS
  <2>3. graph \in Graphs /\ Grown(seeds, found)
    BY <2>1, <2>2 DEF RInv, Retrieved
  <2>4. seeds \subseteq {Fold[n] : n \in Names}
    <3>1. query[r] \in Queries
      BY DEF IInv, Planned
    <3> QED BY <2>1, <3>1, AnswerConstants DEF IsQuery
  <2>5. Reached(r) = EndNames(FirstHop(seeds))
    BY <2>1, Zenon DEF Reached, EndNames
  <2> QED BY <2>1, <2>2, <2>3, <2>4, <2>5, HopsFound
<1> QED BY <1>1, Inductive, RetrievedAndAssembled, PTL
=============================================================================
