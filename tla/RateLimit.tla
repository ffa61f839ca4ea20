------------------------------ MODULE RateLimit ------------------------------
(***************************************************************************)
(* RateLimitMiddleware (src/app/ratelimit.py): a token bucket for every    *)
(* client address, in front of all endpoints but /healthz and /metrics.    *)
(* dispatch does not await between its lookup of the bucket and the answer *)
(* of allow, and allow holds the lock of the bucket: a request is a step.  *)
(*                                                                         *)
(* Time passes in ticks, Second of them in a second.  A token is Unit      *)
(* units, and a tick brings Gain of them, so that the rate of the code,    *)
(* rate_per_min / 60 per second, is Gain * Second / Unit.  A bucket        *)
(* remembers when it was asked last (ts); here it has what has come in     *)
(* since: (now - ts) * rate, up to a full bucket, as more is of no use.    *)
(* Arithmetic is exact where the code's is in floating point.              *)
(*                                                                         *)
(* A polite client that was refused asks again when the time of the        *)
(* Retry-After header is over; the others ask whenever they like.          *)
(***************************************************************************)
EXTENDS Integers, FiniteSets

CONSTANTS Clients, Addresses,
          AddressOf,  \* client -> its address; several may share one
          Polite,     \* clients that wait as they are told
          Burst, Unit, Gain, Second,
          Window,     \* bound: ticks that an observer counts for
          NoBucket    \* the address has not been seen

Full == Burst * Unit

ASSUME RateConstants ==
  /\ AddressOf \in [Clients -> Addresses]
  /\ Polite \subseteq Clients
  /\ Burst \in Nat /\ Unit \in Nat \ {0} /\ Gain \in Nat /\ Second \in Nat \ {0}
  /\ Window \in Nat
  /\ Full \in Nat
  /\ NoBucket \notin Nat

VARIABLES tokens,  \* per address: units when it was asked last, or NoBucket
          earned,  \* per address: units that have come in since
          answer,  \* per client: "none", "served" or "refused", the last answer
          wait,    \* per polite client: ticks it has still been told to wait
          left,    \* history, per address: ticks the observer goes on counting
          budget,  \* history: units of a full bucket and those earned since
          spent    \* history: units of the requests served since

vars == <<tokens, earned, answer, wait, left, budget, spent>>
observer == <<left, budget, spent>>

TypeOK ==
  /\ tokens \in [Addresses -> Nat \cup {NoBucket}]
  /\ earned \in [Addresses -> Nat]
  /\ answer \in [Clients -> {"none", "served", "refused"}]
  /\ wait \in [Clients -> Nat]
  /\ left \in [Addresses -> Nat]
  /\ budget \in [Addresses -> Nat]
  /\ spent \in [Addresses -> Nat]

Init ==
  /\ tokens = [a \in Addresses |-> NoBucket]
  /\ earned = [a \in Addresses |-> 0]
  /\ answer = [c \in Clients |-> "none"]
  /\ wait = [c \in Clients |-> 0]
  /\ left = [a \in Addresses |-> 0]
  /\ budget = [a \in Addresses |-> Full]
  /\ spent = [a \in Addresses |-> 0]

-------------------------------------------------------------------------------
AtMostFull(n) == IF n <= Full THEN n ELSE Full

\* A defect: what has come in is not limited to the capacity.
LevelUnlimited(a) == IF tokens[a] = NoBucket THEN Full ELSE tokens[a] + earned[a]

\* What the bucket holds when it is asked now; a new one is full.
Level(a) == IF tokens[a] = NoBucket THEN Full ELSE AtMostFull(tokens[a] + earned[a])

\* A defect: the seconds are rounded down.
RetryAfterDown(missing) ==
  IF Gain = 0 THEN 60 ELSE missing \div (Gain * Second)

\* int(wait + 0.5) for a wait of missing / rate seconds, a minute without a rate.
RetryAfter(missing) ==
  IF Gain = 0 THEN 60
  ELSE (2 * missing + Gain * Second) \div (2 * Gain * Second)

\* Whether client c may ask now.
Asks(c) == c \in Polite => wait[c] = 0

\* A defect: a started token is taken for a whole one.
ServeStarted(c) ==
  LET a == AddressOf[c] IN
  /\ Asks(c) /\ Level(a) > 0
  /\ tokens' = [tokens EXCEPT ![a] = Level(a) - Unit]
  /\ earned' = [earned EXCEPT ![a] = 0]
  /\ answer' = [answer EXCEPT ![c] = "served"]
  /\ UNCHANGED <<wait, observer>>

Serve(c) ==
  LET a == AddressOf[c] IN
  /\ Asks(c) /\ Level(a) >= Unit
  /\ tokens' = [tokens EXCEPT ![a] = Level(a) - Unit]
  /\ earned' = [earned EXCEPT ![a] = 0]
  /\ answer' = [answer EXCEPT ![c] = "served"]
  /\ spent' = [spent EXCEPT ![a] = IF left[a] > 0 THEN @ + Unit ELSE @]
  /\ UNCHANGED <<wait, left, budget>>

\* Who asks when it likes does not count the time it was told.
Told(c, ticks) == IF c \in Polite THEN [wait EXCEPT ![c] = ticks] ELSE wait

\* A defect: a refusal forgets what has come in.
RefuseForgets(c) ==
  LET a == AddressOf[c] IN
  /\ Asks(c) /\ Level(a) < Unit
  /\ tokens' = [tokens EXCEPT ![a] = IF @ = NoBucket THEN Full ELSE @]
  /\ earned' = [earned EXCEPT ![a] = 0]
  /\ answer' = [answer EXCEPT ![c] = "refused"]
  /\ wait' = Told(c, Second * RetryAfter(Unit - Level(a)))
  /\ UNCHANGED observer

Refuse(c) ==
  LET a == AddressOf[c] IN
  /\ Asks(c) /\ Level(a) < Unit
  /\ tokens' = [tokens EXCEPT ![a] = Level(a)]
  /\ earned' = [earned EXCEPT ![a] = 0]
  /\ answer' = [answer EXCEPT ![c] = "refused"]
  /\ wait' = Told(c, Second * RetryAfter(Unit - Level(a)))
  /\ UNCHANGED observer

-------------------------------------------------------------------------------
\* The observer counts through a stretch of at most Window ticks, begun at any
\* of them; between two stretches it counts nothing.
Observe ==
  \E begun \in SUBSET {a \in Addresses : left[a] = 0} :
    /\ left' = [a \in Addresses |-> IF a \in begun THEN Window
                                    ELSE IF left[a] > 0 THEN left[a] - 1 ELSE 0]
    /\ budget' = [a \in Addresses |-> IF left[a] > 1 THEN budget[a] + Gain ELSE Full]
    /\ spent' = [a \in Addresses |-> IF left[a] > 1 THEN spent[a] ELSE 0]

Tick ==
  /\ earned' = [a \in Addresses |-> IF tokens[a] = NoBucket THEN 0 ELSE AtMostFull(earned[a] + Gain)]
  /\ wait' = [c \in Clients |-> IF wait[c] > 0 THEN wait[c] - 1 ELSE 0]
  /\ Observe
  /\ UNCHANGED <<tokens, answer>>

Ask(c) == Serve(c) \/ Refuse(c)

Next == Tick \/ \E c \in Clients : Ask(c)

\* Time goes on, and a polite client that was refused asks again.
Spec ==
  /\ Init /\ [][Next]_vars
  /\ WF_vars(Tick)
  /\ \A c \in Polite : WF_vars(answer[c] = "refused" /\ Ask(c))

-------------------------------------------------------------------------------
(* Properties.                                                             *)

\* In any stretch of time an address is served no more than a burst and what
\* the rate brings in that time, whoever asks and however often
\* (TokenBucket.allow).
NeverMoreThanRate == \A a \in Addresses : left[a] > 0 => spent[a] <= budget[a]

Alone(c) == \A d \in Clients : AddressOf[d] = AddressOf[c] => d = c

\* What a refused client that has its address to itself will still miss when
\* the time in its Retry-After header is over comes in within half a second:
\* the header is rounded, and may tell it to ask too early by that much.
ToldWithinHalfSecond ==
  \A c \in Polite : Gain > 0 /\ Burst > 0 /\ Alone(c) /\ answer[c] = "refused" =>
    2 * (Unit - Level(AddressOf[c])) <= 2 * Gain * wait[c] + Gain * Second

\* A refused client that waits as it is told and asks again is served in the
\* end, if it has its address to itself: asking does not throw it back.
RefusedThenServed ==
  \A c \in Polite : Gain > 0 /\ Burst > 0 /\ Alone(c) =>
    (answer[c] = "refused" ~> answer[c] = "served")
==============================================================================
