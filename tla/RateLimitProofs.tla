--------------------------- MODULE RateLimitProofs ---------------------------
(***************************************************************************)
(* What the rate limit guarantees for every rate, burst, set of clients    *)
(* and set of addresses.                                                   *)
(***************************************************************************)
EXTENDS RateLimit, TLAPS

LEMMA FullNat == Full \in Nat
BY RateConstants

LEMMA AtMostFullBounded ==
  ASSUME NEW n \in Nat
  PROVE  AtMostFull(n) \in Nat /\ AtMostFull(n) <= n /\ AtMostFull(n) <= Full
BY FullNat DEF AtMostFull

LEMMA LevelTyped ==
  ASSUME TypeOK, NEW a \in Addresses
  PROVE  Level(a) \in Nat /\ Level(a) <= Full
<1>1. CASE tokens[a] = NoBucket
  BY <1>1, FullNat DEF Level
<1>2. CASE tokens[a] # NoBucket
  <2>1. tokens[a] + earned[a] \in Nat
    BY <1>2 DEF TypeOK
  <2> QED BY <1>2, <2>1, AtMostFullBounded DEF Level
<1> QED BY <1>1, <1>2

LEMMA RetryAfterTyped ==
  ASSUME NEW n \in Nat
  PROVE  RetryAfter(n) \in Nat
<1>1. CASE Gain = 0
  BY <1>1 DEF RetryAfter
<1>2. CASE Gain # 0
  <2>1. PICK g \in Nat : g = Gain * Second /\ g > 0
    BY <1>2, RateConstants
  <2>2. (2 * n + g) \div (2 * g) \in Nat
    BY <2>1
  <2>3. RetryAfter(n) = (2 * n + g) \div (2 * g)
    BY <1>2, <2>1, RateConstants DEF RetryAfter
  <2> QED BY <2>2, <2>3
<1> QED BY <1>1, <1>2

-------------------------------------------------------------------------------
LEMMA ServeTyped ==
  ASSUME TypeOK, NEW c \in Clients, Serve(c)
  PROVE  TypeOK'
<1> DEFINE a == AddressOf[c]
<1>1. a \in Addresses
  BY RateConstants
<1>2. Level(a) - Unit \in Nat
  BY <1>1, LevelTyped, RateConstants DEF Serve
<1>3. tokens' \in [Addresses -> Nat \cup {NoBucket}] /\ earned' \in [Addresses -> Nat]
  BY <1>1, <1>2 DEF TypeOK, Serve
<1>4. spent' \in [Addresses -> Nat]
  BY <1>1, RateConstants DEF TypeOK, Serve
<1> QED BY <1>3, <1>4 DEF TypeOK, Serve

LEMMA RefuseTyped ==
  ASSUME TypeOK, NEW c \in Clients, Refuse(c)
  PROVE  TypeOK'
<1> DEFINE a == AddressOf[c]
<1>1. a \in Addresses
  BY RateConstants
<1>2. Level(a) \in Nat /\ Unit - Level(a) \in Nat
  BY <1>1, LevelTyped, RateConstants DEF Refuse
<1>3. RetryAfter(Unit - Level(a)) \in Nat
  BY <1>2, RetryAfterTyped
<1>4. Second * RetryAfter(Unit - Level(a)) \in Nat
  BY <1>3, RateConstants
<1>5. wait' \in [Clients -> Nat]
  BY <1>4 DEF TypeOK, Refuse, Told
<1>6. tokens' \in [Addresses -> Nat \cup {NoBucket}] /\ earned' \in [Addresses -> Nat]
  BY <1>1, <1>2 DEF TypeOK, Refuse
<1> QED BY <1>5, <1>6 DEF TypeOK, Refuse, observer

LEMMA TickTyped ==
  ASSUME TypeOK, Tick
  PROVE  TypeOK'
<1>1. earned' \in [Addresses -> Nat]
  <2>1. \A a \in Addresses : earned[a] + Gain \in Nat
    BY RateConstants DEF TypeOK
  <2>2. \A a \in Addresses : AtMostFull(earned[a] + Gain) \in Nat
    BY <2>1, AtMostFullBounded
  <2> QED BY <2>2 DEF Tick
<1>2. wait' \in [Clients -> Nat]
  BY DEF TypeOK, Tick
<1>3. /\ left' \in [Addresses -> Nat]
      /\ budget' \in [Addresses -> Nat]
      /\ spent' \in [Addresses -> Nat]
  BY FullNat, RateConstants DEF TypeOK, Tick, Observe
<1> QED BY <1>1, <1>2, <1>3 DEF TypeOK, Tick

\* The buckets, the clients and the observer keep their types: no bucket is
\* ever below zero (TokenBucket.allow).
THEOREM TypeCorrect == Spec => []TypeOK
<1>1. Init => TypeOK
  BY FullNat DEF Init, TypeOK
<1>2. TypeOK /\ [Next]_vars => TypeOK'
  <2> SUFFICES ASSUME TypeOK, [Next]_vars PROVE TypeOK'
    OBVIOUS
  <2>1. CASE Tick
    BY <2>1, TickTyped
  <2>2. CASE \E c \in Clients : Ask(c)
    BY <2>2, ServeTyped, RefuseTyped DEF Ask
  <2>3. CASE UNCHANGED vars
    BY <2>3 DEF TypeOK, vars
  <2> QED BY <2>1, <2>2, <2>3 DEF Next
<1> QED BY <1>1, <1>2, PTL DEF Spec

-------------------------------------------------------------------------------
(* What has been served and what the bucket still holds never exceed what  *)
(* the observer has seen come in.                                          *)
Covered == \A a \in Addresses : left[a] > 0 => spent[a] + Level(a) <= budget[a]

LEMMA ServeCovered ==
  ASSUME TypeOK, Covered, NEW c \in Clients, Serve(c)
  PROVE  Covered'
<1> DEFINE a == AddressOf[c]
<1>1. a \in Addresses
  BY RateConstants
<1>2. Level(a) \in Nat /\ Level(a) <= Full /\ Level(a) - Unit \in Nat
  BY <1>1, LevelTyped, RateConstants DEF Serve
<1>3. tokens'[a] = Level(a) - Unit /\ earned'[a] = 0
  BY <1>1 DEF Serve, TypeOK
<1>4. Level(a)' = Level(a) - Unit
  BY <1>2, <1>3, FullNat, RateConstants DEF Level, AtMostFull
<1>5. \A b \in Addresses \ {a} : Level(b)' = Level(b) /\ spent'[b] = spent[b]
  BY DEF Serve, TypeOK, Level
<1>6. left[a] > 0 => spent'[a] = spent[a] + Unit
  BY <1>1 DEF Serve, TypeOK
<1>7. left[a] > 0 => spent'[a] + Level(a)' <= budget[a]
  BY <1>1, <1>2, <1>4, <1>6, RateConstants DEF Covered, TypeOK
<1>8. left' = left /\ budget' = budget
  BY DEF Serve
<1>9. \A b \in Addresses \ {a} : left[b] > 0 => spent'[b] + Level(b)' <= budget[b]
  BY <1>5 DEF Covered
<1> HIDE DEF a
<1> QED BY <1>7, <1>8, <1>9 DEF Covered

LEMMA RefuseCovered ==
  ASSUME TypeOK, Covered, NEW c \in Clients, Refuse(c)
  PROVE  Covered'
<1> DEFINE a == AddressOf[c]
<1>1. a \in Addresses
  BY RateConstants
<1>2. Level(a) \in Nat /\ Level(a) <= Full
  BY <1>1, LevelTyped
<1>3. tokens'[a] = Level(a) /\ earned'[a] = 0
  BY <1>1 DEF Refuse, TypeOK
<1>4. Level(a)' = Level(a)
  BY <1>2, <1>3, FullNat, RateConstants DEF Level, AtMostFull
<1>5. \A b \in Addresses \ {a} : Level(b)' = Level(b)
  BY DEF Refuse, TypeOK, Level
<1>6. left' = left /\ budget' = budget /\ spent' = spent
  BY DEF Refuse, observer
<1>7. \A b \in Addresses : Level(b)' = Level(b)
  BY <1>4, <1>5
<1> QED BY <1>6, <1>7 DEF Covered

\* A tick brings a bucket no more than Gain.
LEMMA TickLevel ==
  ASSUME TypeOK, Tick, NEW a \in Addresses
  PROVE  Level(a)' \in Nat /\ Level(a)' <= Full /\ Level(a)' <= Level(a) + Gain
<1>1. TypeOK'
  BY TickTyped
<1>2. tokens'[a] = tokens[a]
  BY DEF Tick
<1>3. Level(a) \in Nat /\ Level(a)' \in Nat /\ Level(a)' <= Full
  <2>1. Level(a) \in Nat
    BY LevelTyped
  <2>2. CASE tokens[a] = NoBucket
    BY <1>2, <2>2, FullNat DEF Level
  <2>3. CASE tokens[a] # NoBucket
    <3>1. tokens'[a] + earned'[a] \in Nat
      BY <1>1, <1>2, <2>3 DEF TypeOK
    <3>2. \A n \in Nat : AtMostFull(n) \in Nat /\ AtMostFull(n) <= Full
      BY AtMostFullBounded
    <3>3. Level(a)' = AtMostFull(tokens'[a] + earned'[a])
      BY <1>2, <2>3 DEF Level
    <3> QED BY <2>1, <3>1, <3>2, <3>3
  <2> QED BY <2>1, <2>2, <2>3
<1>4. CASE tokens[a] = NoBucket
  BY <1>2, <1>3, <1>4, FullNat, RateConstants DEF Level
<1>5. CASE tokens[a] # NoBucket
  <2>1. tokens[a] \in Nat /\ earned[a] \in Nat /\ Gain \in Nat
    BY <1>5, RateConstants DEF TypeOK
  <2>2. earned'[a] = AtMostFull(earned[a] + Gain)
    BY <1>5 DEF Tick
  <2>3. earned'[a] \in Nat /\ earned'[a] <= earned[a] + Gain
    BY <2>1, <2>2, AtMostFullBounded
  <2>4. Level(a)' = AtMostFull(tokens[a] + earned'[a]) /\ Level(a) = AtMostFull(tokens[a] + earned[a])
    BY <1>2, <1>5 DEF Level
  <2> QED BY <1>3, <2>1, <2>3, <2>4, FullNat DEF AtMostFull
<1> QED BY <1>3, <1>4, <1>5

LEMMA TickCovered ==
  ASSUME TypeOK, Covered, Tick
  PROVE  Covered'
<1> SUFFICES ASSUME NEW a \in Addresses, left'[a] > 0
             PROVE  spent'[a] + Level(a)' <= budget'[a]
  BY DEF Covered
<1>1. Level(a)' \in Nat /\ Level(a)' <= Full /\ Level(a)' <= Level(a) + Gain
  BY TickLevel
<1>2. CASE left[a] > 1
  <2>1. spent'[a] = spent[a] /\ budget'[a] = budget[a] + Gain
    BY <1>2 DEF Tick, Observe
  <2>2. spent[a] + Level(a) <= budget[a]
    BY <1>2 DEF Covered, TypeOK
  <2>3. Level(a) \in Nat /\ spent[a] \in Nat /\ budget[a] \in Nat /\ Gain \in Nat
    BY LevelTyped, RateConstants DEF TypeOK
  <2> QED BY <1>1, <2>1, <2>2, <2>3
<1>3. CASE ~(left[a] > 1)
  <2>1. spent'[a] = 0 /\ budget'[a] = Full
    BY <1>3 DEF Tick, Observe
  <2> QED BY <1>1, <2>1, FullNat
<1> QED BY <1>2, <1>3

LEMMA CoveredInvariant == Spec => []Covered
<1>1. Init => Covered
  BY FullNat DEF Init, Covered
<1>2. TypeOK /\ Covered /\ [Next]_vars => Covered'
  <2> SUFFICES ASSUME TypeOK, Covered, [Next]_vars PROVE Covered'
    OBVIOUS
  <2>1. CASE Tick
    BY <2>1, TickCovered
  <2>2. CASE \E c \in Clients : Ask(c)
    BY <2>2, ServeCovered, RefuseCovered DEF Ask
  <2>3. CASE UNCHANGED vars
    BY <2>3 DEF Covered, Level, vars
  <2> QED BY <2>1, <2>2, <2>3 DEF Next
<1> QED BY <1>1, <1>2, TypeCorrect, PTL DEF Spec

\* For any rate, burst, clients and addresses, no stretch of time sees more
\* requests of an address served than a burst and what the rate brings
\* (TokenBucket.allow).
THEOREM RateKept == Spec => []NeverMoreThanRate
<1>1. TypeOK /\ Covered => NeverMoreThanRate
  <2> SUFFICES ASSUME TypeOK, Covered, NEW a \in Addresses, left[a] > 0
               PROVE  spent[a] <= budget[a]
    BY DEF NeverMoreThanRate
  <2>1. spent[a] + Level(a) <= budget[a]
    BY DEF Covered
  <2>2. Level(a) \in Nat /\ spent[a] \in Nat /\ budget[a] \in Nat
    BY LevelTyped DEF TypeOK
  <2> QED BY <2>1, <2>2
<1> QED BY <1>1, TypeCorrect, CoveredInvariant, PTL
-------------------------------------------------------------------------------
(* Rounding to the nearest second tells at most half a second too little.  *)

LEMMA Quotient ==
  ASSUME NEW n \in Nat, NEW d \in Nat, d > 0
  PROVE  n \div d \in Nat /\ n < d * (n \div d) + d
<1>1. n \div d \in Nat
  OBVIOUS
<1>2. n < d * (n \div d) + d
  BY Z3
<1> QED BY <1>1, <1>2

LEMMA Rounding ==
  ASSUME NEW m \in Nat, Gain > 0
  PROVE  2 * m <= 2 * Gain * (Second * RetryAfter(m)) + Gain * Second
<1>1. PICK g \in Nat : g = Gain * Second /\ g > 0
  BY RateConstants
<1>2. PICK q \in Nat : q = RetryAfter(m)
  BY RetryAfterTyped
<1>3. q = (2 * m + g) \div (2 * g)
  BY <1>1, <1>2, RateConstants DEF RetryAfter
<1>4. 2 * m + g < (2 * g) * q + 2 * g
  BY <1>1, <1>3, Quotient
<1>5. 2 * Gain * (Second * q) = (2 * g) * q
  BY <1>1, RateConstants
<1> QED BY <1>1, <1>2, <1>4, <1>5

\* The times and waits of one client.
Due(c) ==
  2 * (Unit - Level(AddressOf[c])) <= 2 * Gain * wait[c] + Gain * Second

Waiting(c) == Gain > 0 /\ Burst > 0 /\ Alone(c) /\ answer[c] = "refused"

\* A tick brings a bucket Gain, or fills it.
LEMMA TickFills ==
  ASSUME TypeOK, Tick, NEW a \in Addresses
  PROVE  Level(a)' = Full \/ Level(a)' >= Level(a) + Gain
<1>1. tokens'[a] = tokens[a]
  BY DEF Tick
<1>2. CASE tokens[a] = NoBucket
  BY <1>1, <1>2 DEF Level
<1>3. CASE tokens[a] # NoBucket
  <2>1. tokens[a] \in Nat /\ earned[a] \in Nat /\ Gain \in Nat
    BY <1>3, RateConstants DEF TypeOK
  <2>2. earned'[a] = AtMostFull(earned[a] + Gain)
    BY <1>3 DEF Tick
  <2>3. Level(a)' = AtMostFull(tokens[a] + earned'[a]) /\ Level(a) = AtMostFull(tokens[a] + earned[a])
    BY <1>1, <1>3 DEF Level
  <2> QED BY <2>1, <2>2, <2>3, FullNat DEF AtMostFull
<1> QED BY <1>2, <1>3

LEMMA FullHasToken ==
  ASSUME Burst > 0
  PROVE  Full >= Unit
BY RateConstants DEF Full

LEMMA TickDue ==
  ASSUME TypeOK, Tick, NEW c \in Polite, Waiting(c), Due(c)
  PROVE  Due(c)'
<1> DEFINE a == AddressOf[c]
<1>1. a \in Addresses /\ c \in Clients
  BY RateConstants
<1>2. PICK l \in Nat : l = Level(a)
  BY <1>1, LevelTyped
<1>3. Level(a)' \in Nat
  BY <1>1, TickLevel
<1>4. PICK k \in Nat : k = Level(a)'
  BY <1>3
<1>5. k = Full \/ k >= l + Gain
  BY <1>1, <1>2, <1>4, TickFills
<1>6. PICK w \in Nat : w = wait[c]
  BY <1>1 DEF TypeOK
<1>7. PICK v \in Nat : v = wait'[c]
  BY <1>1, <1>6 DEF Tick
<1>8. IF w > 0 THEN v = w - 1 ELSE v = 0
  BY <1>1, <1>6, <1>7 DEF Tick
<1>9. 2 * (Unit - l) <= 2 * Gain * w + Gain * Second
  BY <1>2, <1>6 DEF Due
<1>10. 2 * (Unit - k) <= 2 * Gain * v + Gain * Second
  <2>1. Gain * Second \in Nat /\ 2 * Gain * v \in Nat /\ Gain \in Nat /\ Unit \in Nat
    BY RateConstants
  <2>2. CASE k = Full
    BY <2>1, <2>2, FullHasToken, FullNat DEF Waiting
  <2>3. CASE k >= l + Gain /\ w > 0
    <3>1. 2 * Gain * v = 2 * Gain * w - 2 * Gain
      BY <1>8, <2>1, <2>3
    <3> QED BY <1>9, <2>1, <2>3, <3>1
  <2>4. CASE k >= l + Gain /\ w = 0
    <3>1. v = w
      BY <1>8, <2>4
    <3> QED BY <1>9, <2>1, <2>4, <3>1
  <2> QED BY <1>5, <2>2, <2>3, <2>4
<1>11. Due(c)' <=> 2 * (Unit - Level(a)') <= 2 * Gain * wait'[c] + Gain * Second
  BY DEF Due
<1> QED BY <1>4, <1>7, <1>10, <1>11

LEMMA RefuseDue ==
  ASSUME TypeOK, NEW c \in Polite, Refuse(c), Gain > 0
  PROVE  Due(c)'
<1> DEFINE a == AddressOf[c]
<1>1. a \in Addresses /\ c \in Clients
  BY RateConstants
<1>2. Level(a) \in Nat /\ Level(a) <= Full /\ Unit - Level(a) \in Nat
  BY <1>1, LevelTyped, RateConstants DEF Refuse
<1>3. tokens'[a] = Level(a) /\ earned'[a] = 0
  BY <1>1 DEF Refuse, TypeOK
<1>4. Level(a)' = Level(a)
  BY <1>2, <1>3, FullNat, RateConstants DEF Level, AtMostFull
<1>5. wait'[c] = Second * RetryAfter(Unit - Level(a))
  BY <1>1 DEF Refuse, Told, TypeOK
<1>6. 2 * (Unit - Level(a)) <= 2 * Gain * (Second * RetryAfter(Unit - Level(a))) + Gain * Second
  BY <1>2, Rounding
<1>7. Due(c)' <=> 2 * (Unit - Level(a)') <= 2 * Gain * wait'[c] + Gain * Second
  BY DEF Due
<1> QED BY <1>4, <1>5, <1>6, <1>7

\* Another client changes nothing for one that has its address to itself.
LEMMA OthersDue ==
  ASSUME TypeOK, NEW c \in Polite, NEW d \in Clients, Ask(d), d # c, Alone(c), Due(c)
  PROVE  Due(c)'
<1>1. c \in Clients /\ AddressOf[c] \in Addresses /\ AddressOf[d] # AddressOf[c]
  BY RateConstants DEF Alone
<1>2. wait'[c] = wait[c]
  BY <1>1 DEF Ask, Serve, Refuse, Told, TypeOK
<1>3. tokens'[AddressOf[c]] = tokens[AddressOf[c]] /\ earned'[AddressOf[c]] = earned[AddressOf[c]]
  BY <1>1 DEF Ask, Serve, Refuse, TypeOK
<1>4. Level(AddressOf[c])' = Level(AddressOf[c])
  BY <1>3 DEF Level
<1>5. Due(c)' <=> 2 * (Unit - Level(AddressOf[c])') <= 2 * Gain * wait'[c] + Gain * Second
  BY DEF Due
<1> QED BY <1>2, <1>4, <1>5 DEF Due

\* For any rate, burst and clients, what a refused client still misses when its
\* wait is over comes in within half a second (RateLimitMiddleware.dispatch).
THEOREM WaitsTruthful == Spec => []ToldWithinHalfSecond
<1> DEFINE Inv == \A c \in Polite : Waiting(c) => Due(c)
<1>1. Init => Inv
  BY RateConstants DEF Init, Waiting
<1>2. TypeOK /\ Inv /\ [Next]_vars => Inv'
  <2> SUFFICES ASSUME TypeOK, Inv, [Next]_vars, NEW c \in Polite, Waiting(c)'
               PROVE  Due(c)'
    OBVIOUS
  <2>1. Gain > 0 /\ Burst > 0 /\ Alone(c) /\ answer'[c] = "refused" /\ c \in Clients
    BY RateConstants DEF Waiting, Alone
  <2>2. CASE Tick
    <3>1. answer[c] = "refused"
      BY <2>1, <2>2 DEF Tick
    <3>2. Waiting(c)
      BY <2>1, <3>1 DEF Waiting
    <3> QED BY <2>2, <3>2, TickDue
  <2>3. ASSUME NEW d \in Clients, Ask(d), d # c PROVE Due(c)'
    <3>1. answer[c] = "refused"
      BY <2>1, <2>3 DEF Ask, Serve, Refuse, TypeOK
    <3>2. Waiting(c)
      BY <2>1, <3>1 DEF Waiting
    <3> QED BY <2>1, <2>3, <3>2, OthersDue
  <2>4. CASE Ask(c)
    <3>1. ~Serve(c)
      BY <2>1 DEF Serve, TypeOK
    <3> QED BY <2>1, <2>4, <3>1, RefuseDue DEF Ask
  <2>5. CASE UNCHANGED vars
    BY <2>5 DEF Waiting, Due, Alone, Level, vars
  <2> QED BY <2>2, <2>3, <2>4, <2>5 DEF Next
<1>3. Inv => ToldWithinHalfSecond
  BY DEF Waiting, Due, ToldWithinHalfSecond
<1> QED BY <1>1, <1>2, <1>3, TypeCorrect, PTL DEF Spec
==============================================================================
