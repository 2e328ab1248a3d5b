----------------------------- MODULE RetryDelay -----------------------------
(***************************************************************************)
(* calculateDelay of worker/src/retry.ts, and how executeJob uses it: each  *)
(* time a job fails and has attempts left, run_at becomes now() plus the    *)
(* delay for the attempts charged so far.  One job and its policy, which no *)
(* code changes once the job is there.                                     *)
(***************************************************************************)
EXTENDS Integers, TLAPS

CONSTANTS
  MaxAttempt,  \* bound on the attempts charged
  PowerOfTwo,  \* Math.pow(2, n)
  BaseDelays,  \* base_delay_ms of the retry policies
  MaxDelays    \* max_delay_ms of the retry policies

ASSUME PowerAssumption ==
  /\ MaxAttempt \in Nat
  /\ PowerOfTwo \in [0..MaxAttempt -> Nat \ {0}]
  /\ \A n \in 1..MaxAttempt : PowerOfTwo[n] = 2 * PowerOfTwo[n - 1]
ASSUME DelaysAssumption == BaseDelays \subseteq Nat /\ MaxDelays \subseteq Nat

Strategies == {"fixed", "linear", "exponential"}
Smaller(a, b) == IF a <= b THEN a ELSE b

\* Math.floor(Math.random() * base * 0.1), where random() < 1.
Jitters(base) == {i \in 0..base : i = 0 \/ 10 * i < base}

VARIABLES
  policy,   \* strategy, baseDelayMs and maxDelayMs
  failures, \* attempt_count
  delay     \* the delay after the last failure, 0 before the first one

retryVars == <<policy, failures, delay>>

\* Mutant: the cap comes before the jitter.
CalculateDelayCappedFirst(strategy, base, max, attempt) ==
  CASE strategy = "fixed" -> {Smaller(base, max)}
    [] strategy = "linear" -> {Smaller(base * attempt, max)}
    [] OTHER -> {Smaller(base * PowerOfTwo[attempt], max) + i : i \in Jitters(base)}

\* The delays that may come out; only the exponential one is random.
CalculateDelay(strategy, base, max, attempt) ==
  CASE strategy = "fixed" -> {Smaller(base, max)}
    [] strategy = "linear" -> {Smaller(base * attempt, max)}
    [] OTHER -> {Smaller(base * PowerOfTwo[attempt] + i, max) : i \in Jitters(base)}

RetryInit ==
  /\ policy \in [strategy : Strategies, base : BaseDelays, max : MaxDelays]
  /\ failures = 0
  /\ delay = 0

\* executeJob: the handler failed, and the job is to run again.
FailAgain ==
  /\ failures < MaxAttempt
  /\ failures' = failures + 1
  /\ delay' \in CalculateDelay(policy.strategy, policy.base, policy.max, failures')
  /\ UNCHANGED policy

RetrySpec == RetryInit /\ [][FailAgain]_retryVars

-----------------------------------------------------------------------------
\* A job never waits less than the base delay nor more than the maximum, and,
\* whatever the jitters, never less than after the failure before (retry.ts).
RetriesBackOff ==
  [][/\ Smaller(policy.base, policy.max) <= delay'
     /\ delay' <= policy.max
     /\ delay <= delay']_retryVars

-----------------------------------------------------------------------------
LEMMA Products ==
  ASSUME NEW b \in Nat, NEW k \in Nat \ {0}
  PROVE  /\ b * k \in Nat
         /\ b <= b * k
         /\ b * (2 * k) = (b * k) + (b * k)
         /\ b * (k + 1) = (b * k) + b
  BY SMT

\* The exponential delays before the cap: the jitter of one attempt never
\* makes up for the doubling of the next.
LEMMA Doubling ==
  ASSUME NEW base \in Nat, NEW n \in 1..MaxAttempt, n < MaxAttempt,
         NEW i \in Jitters(base), NEW k \in Jitters(base)
  PROVE  (base * PowerOfTwo[n]) + i <= (base * PowerOfTwo[n + 1]) + k
  <1>1. PowerOfTwo[n] \in Nat \ {0} /\ PowerOfTwo[n + 1] = 2 * PowerOfTwo[n]
    BY PowerAssumption
  <1>2. i \in Nat /\ i <= base /\ k \in Nat
    BY DEF Jitters
  <1>3. /\ base * PowerOfTwo[n] \in Nat
        /\ base <= base * PowerOfTwo[n]
        /\ base * PowerOfTwo[n + 1] = (base * PowerOfTwo[n]) + (base * PowerOfTwo[n])
    BY <1>1, Products
  <1> QED
    BY <1>2, <1>3

LEMMA DelaysGrow ==
  ASSUME NEW s \in Strategies, NEW base \in BaseDelays, NEW max \in MaxDelays,
         NEW n \in 1..MaxAttempt, NEW d \in CalculateDelay(s, base, max, n)
  PROVE  /\ d \in Nat
         /\ Smaller(base, max) <= d
         /\ d <= max
         /\ n < MaxAttempt =>
              \A e \in CalculateDelay(s, base, max, n + 1) : d <= e
  <1>1. base \in Nat /\ max \in Nat /\ n \in Nat \ {0}
    BY DelaysAssumption, PowerAssumption
  <1>2. CASE s = "fixed"
    BY <1>1, <1>2 DEF CalculateDelay, Smaller
  <1>3. CASE s = "linear"
    <2>1. /\ base * n \in Nat
          /\ base <= base * n
          /\ base * (n + 1) = (base * n) + base
      BY <1>1, Products
    <2>2. /\ d = Smaller(base * n, max)
          /\ \A e \in CalculateDelay(s, base, max, n + 1) : e = Smaller(base * (n + 1), max)
      BY <1>3 DEF CalculateDelay
    <2> QED
      BY <1>1, <2>1, <2>2 DEF Smaller
  <1>4. CASE s = "exponential"
    <2>1. PICK i \in Jitters(base) : d = Smaller((base * PowerOfTwo[n]) + i, max)
      BY <1>4 DEF CalculateDelay
    <2>2. i \in Nat
      BY DEF Jitters
    <2>3. base * PowerOfTwo[n] \in Nat /\ base <= base * PowerOfTwo[n]
      BY <1>1, PowerAssumption, Products
    <2>4. ASSUME n < MaxAttempt, NEW e \in CalculateDelay(s, base, max, n + 1)
          PROVE  d <= e
      <3>1. PICK k \in Jitters(base) : e = Smaller((base * PowerOfTwo[n + 1]) + k, max)
        BY <1>4 DEF CalculateDelay
      <3>2. k \in Nat /\ PowerOfTwo[n + 1] \in Nat \ {0}
        BY <1>1, <2>4, PowerAssumption DEF Jitters
      <3>3. k \in Nat /\ base * PowerOfTwo[n + 1] \in Nat
        BY <1>1, <3>2, Products
      <3>4. (base * PowerOfTwo[n]) + i <= (base * PowerOfTwo[n + 1]) + k
        BY <1>1, <2>4, Doubling
      <3> QED
        BY <1>1, <2>1, <2>2, <2>3, <3>1, <3>2, <3>3, <3>4 DEF Smaller
    <2> QED
      BY <1>1, <2>1, <2>2, <2>3, <2>4 DEF Smaller
  <1> QED
    BY <1>2, <1>3, <1>4 DEF Strategies

\* The delay is one that the last failure could give.
RetryInv ==
  /\ policy.strategy \in Strategies /\ policy.base \in BaseDelays /\ policy.max \in MaxDelays
  /\ failures \in 0..MaxAttempt
  /\ failures = 0 => delay = 0
  /\ failures > 0 =>
       delay \in CalculateDelay(policy.strategy, policy.base, policy.max, failures)

\* Retries back off, for every policy and every number of attempts (retry.ts).
THEOREM BackOff == RetrySpec => RetriesBackOff
  <1>1. RetryInit => RetryInv
    BY PowerAssumption DEF RetryInit, RetryInv
  <1>2. ASSUME RetryInv, FailAgain
        PROVE  /\ RetryInv'
               /\ Smaller(policy.base, policy.max) <= delay'
               /\ delay' <= policy.max
               /\ delay <= delay'
    <2>1. /\ failures' = failures + 1 /\ failures < MaxAttempt /\ failures \in Nat
          /\ failures' \in 1..MaxAttempt
          /\ policy' = policy
          /\ delay' \in CalculateDelay(policy.strategy, policy.base, policy.max, failures')
      BY <1>2, PowerAssumption DEF RetryInv, FailAgain
    <2>2. RetryInv'
      BY <1>2, <2>1 DEF RetryInv
    <2>3. Smaller(policy.base, policy.max) <= delay' /\ delay' <= policy.max /\ delay' \in Nat
      BY <1>2, <2>1, DelaysGrow DEF RetryInv
    <2>4. delay <= delay'
      <3>1. CASE failures = 0
        <4>1. delay = 0
          BY <1>2, <3>1 DEF RetryInv
        <4> QED
          BY <4>1, <2>3
      <3>2. CASE failures > 0
        <4>1. failures \in 1..MaxAttempt
          BY <1>2, <3>2 DEF RetryInv
        <4> QED
          BY <1>2, <2>1, <3>2, <4>1, DelaysGrow DEF RetryInv
      <3> QED
        BY <2>1, <3>1, <3>2
    <2> QED
      BY <2>2, <2>3, <2>4
  <1>3. RetryInv /\ UNCHANGED retryVars => RetryInv'
    BY DEF RetryInv, retryVars
  <1> QED
    BY <1>1, <1>2, <1>3, PTL DEF RetrySpec, RetriesBackOff
=============================================================================
