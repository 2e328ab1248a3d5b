-------------------------- MODULE RateLimiterProofs -------------------------
(***************************************************************************)
(* What a caller of the token bucket may and may not count on, for every    *)
(* bucket size, window, resolution of the clock and lag of the requests.    *)
(***************************************************************************)
EXTENDS RateLimiter, TLAPS

USE BucketAssumption, SecondAssumption, LagAssumption, TimeAssumption

\* A stored time lies within the lag before the write, and a level below zero
\* is owed to that lag alone (rateLimit.ts: a negative elapsed).
StoredWell(c) ==
  /\ level[c] <= Full
  /\ lastRefill[c] <= written[c]
  /\ written[c] <= now
  /\ written[c] <= lastRefill[c] + MaxLag
  /\ level[c] + MaxTokens * written[c] >= MaxTokens * lastRefill[c]

\* What was let through since mark, and the tokens left, were in the bucket at
\* mark or came since.
Accounted(c) ==
  admitted[c] > 0 =>
    /\ c \in used
    /\ mark <= lastRefill[c] + MaxLag
    /\ admitted[c] * Window + level[c] + MaxTokens * mark
         <= Full + MaxTokens * lastRefill[c] + MaxTokens * MaxLag

\* By the time told to a refused caller one token is there.
WaitsEnough(c) ==
  retryAt[c] > 0 =>
    /\ c \in used
    /\ level[c] + MaxTokens * retryAt[c] >= Window + MaxTokens * lastRefill[c]

BucketInv ==
  /\ BucketTypeOK
  /\ \A c \in Callers : StoredWell(c) /\ Accounted(c) /\ WaitsEnough(c)

-----------------------------------------------------------------------------
\* A product with the rate grows with the other factor.
LEMMA RateMonotone ==
  ASSUME NEW x \in Int, NEW y \in Int, x <= y
  PROVE  MaxTokens * x <= MaxTokens * y
  OBVIOUS

\* The refill rate times a sum of times.
LEMMA RateSplits ==
  ASSUME NEW x \in Int, NEW y \in Int
  PROVE  /\ MaxTokens * (x - y) = MaxTokens * x - MaxTokens * y
         /\ MaxTokens * (x + y) = MaxTokens * x + MaxTokens * y
  OBVIOUS

\* A full bucket and its products are numbers.
LEMMA FullInNat == Full \in Nat /\ Full = MaxTokens * Window /\ Full >= Window
  BY DEF Full

\* A refusal told in whole seconds covers the missing tokens: math.ceil.
LEMMA WaitCovers ==
  ASSUME NEW tokens \in Int, tokens < Window
  PROVE  /\ SecondsToWait(tokens) \in Nat \ {0}
         /\ MaxTokens * (SecondsToWait(tokens) * PerSecond) >= Window - tokens
<1> DEFINE d == MaxTokens * PerSecond
           n == Window - tokens
           s == SecondsToWait(tokens)
<1>1. d \in Nat \ {0} /\ n \in Nat \ {0}
  OBVIOUS
<1>2. s = (n + d - 1) \div d
  BY DEF SecondsToWait
<1> HIDE DEF d, n, s
<1>3. s \in Int /\ d * s >= n
  BY <1>1, <1>2
<1>4. s \in Nat \ {0}
  BY <1>1, <1>3
<1>5. MaxTokens * (s * PerSecond) = d * s
  BY <1>3 DEF d
<1> QED
  BY <1>3, <1>4, <1>5 DEF n, s

-----------------------------------------------------------------------------
\* What a refilled bucket holds at the time of a request.
LEMMA RefillBounds ==
  ASSUME BucketInv, NEW c \in Callers, NEW t \in RequestTimes
  PROVE  /\ t \in Nat /\ t <= now /\ now <= t + MaxLag
         /\ Refilled(c, t) \in Int
         /\ Refilled(c, t) <= Full
         /\ Refilled(c, t) + MaxTokens * now >= MaxTokens * t
         /\ admitted[c] > 0 =>
              /\ mark <= t + MaxLag
              /\ admitted[c] * Window + Refilled(c, t) + MaxTokens * mark
                   <= Full + MaxTokens * t + MaxTokens * MaxLag
<1> DEFINE lr == lastRefill[c]
           wr == written[c]
           lv == level[c]
           a  == admitted[c]
<1>1. /\ t \in Nat /\ t <= now /\ now <= t + MaxLag /\ now \in Nat
      /\ lr \in Nat /\ wr \in Nat /\ lv \in Int /\ a \in Nat
      /\ mark \in Nat /\ mark <= now
  BY DEF BucketInv, BucketTypeOK, RequestTimes
<1>2. /\ lv <= Full /\ lr <= wr /\ wr <= now /\ wr <= lr + MaxLag
      /\ lv + MaxTokens * wr >= MaxTokens * lr
  BY DEF BucketInv, StoredWell
<1>3. a > 0 => /\ c \in used
               /\ mark <= lr + MaxLag
               /\ a * Window + lv + MaxTokens * mark
                    <= Full + MaxTokens * lr + MaxTokens * MaxLag
  BY DEF BucketInv, Accounted
<1>4. /\ MaxTokens * t <= MaxTokens * now
      /\ MaxTokens * wr <= MaxTokens * now
      /\ MaxTokens * lr \in Int /\ MaxTokens * wr \in Int /\ MaxTokens * now \in Int
      /\ MaxTokens * t \in Int /\ MaxTokens * mark \in Int /\ MaxTokens * MaxLag \in Int
      /\ a * Window \in Int
  BY <1>1, <1>2, RateMonotone
<1>5. CASE Stored(c)
  <2>1. Refilled(c, t) = AtMost(Full, lv + MaxTokens * t - MaxTokens * lr)
    BY <1>1, <1>5, RateSplits DEF Refilled
  <2> QED
    BY <1>1, <1>2, <1>3, <1>4, <2>1, FullInNat DEF AtMost
<1>6. CASE ~Stored(c)
  <2>1. Refilled(c, t) = Full
    BY <1>6 DEF Refilled
  <2>2. CASE a > 0
    <3>1. Window + wr <= t
      BY <1>1, <1>3, <1>6, <2>2 DEF Stored
    <3>2. Full + MaxTokens * wr <= MaxTokens * t
      BY <1>1, <3>1, RateMonotone, RateSplits DEF Full
    <3> QED
      BY <1>1, <1>2, <1>3, <1>4, <2>1, <2>2, <3>2, FullInNat
  <2>3. CASE ~(a > 0)
    BY <1>1, <1>4, <2>1, <2>3, FullInNat
  <2> QED
    BY <2>2, <2>3
<1> QED
  BY <1>5, <1>6

-----------------------------------------------------------------------------
LEMMA BucketInitially == BucketInit => BucketInv
  BY FullInNat DEF BucketInit, BucketInv, BucketTypeOK, StoredWell, Accounted, WaitsEnough

\* A request that finds a token takes it; `admitted` may or may not count it.
LEMMA TakingKeepsInv ==
  ASSUME BucketInv, NEW c \in Callers, NEW t \in RequestTimes,
         Refilled(c, t) >= Window, Store(c, t, Refilled(c, t) - Window),
         admitted' = [admitted EXCEPT ![c] = @ + 1] \/ admitted' = admitted,
         retryAt' = [retryAt EXCEPT ![c] = 0], UNCHANGED <<now, mark>>
  PROVE  BucketInv'
<1> DEFINE R == Refilled(c, t)
<1>1. /\ t \in Nat /\ t <= now /\ now <= t + MaxLag /\ R \in Int /\ R <= Full
      /\ admitted[c] > 0 =>
           /\ mark <= t + MaxLag
           /\ admitted[c] * Window + R + MaxTokens * mark
                <= Full + MaxTokens * t + MaxTokens * MaxLag
  BY RefillBounds
<1>2. R >= Window /\ admitted[c] \in Nat /\ now \in Nat /\ mark \in Nat /\ mark <= now
  BY DEF BucketInv, BucketTypeOK
<1> HIDE DEF R
<1>3. BucketTypeOK'
  BY <1>1, <1>2 DEF BucketInv, BucketTypeOK, Store, R
<1>4. ASSUME NEW d \in Callers, d # c
      PROVE  StoredWell(d)' /\ Accounted(d)' /\ WaitsEnough(d)'
  BY <1>4, FullInNat
     DEF BucketInv, BucketTypeOK, StoredWell, Accounted, WaitsEnough, Store
<1>5. /\ level'[c] = R - Window /\ lastRefill'[c] = t /\ written'[c] = now
      /\ c \in used' /\ retryAt'[c] = 0 /\ now' = now /\ mark' = mark
      /\ admitted'[c] \in {admitted[c], admitted[c] + 1}
  BY DEF BucketInv, BucketTypeOK, Store, R
<1>6. MaxTokens * t <= MaxTokens * now /\ MaxTokens * mark <= MaxTokens * (t + MaxLag)
  BY <1>1, <1>2, RateMonotone
<1>7. MaxTokens * (t + MaxLag) = MaxTokens * t + MaxTokens * MaxLag
  BY <1>1, RateSplits
<1>8. StoredWell(c)'
  BY <1>1, <1>2, <1>5, <1>6, FullInNat DEF StoredWell
<1>9. Accounted(c)'
  <2>1. (admitted[c] + 1) * Window = admitted[c] * Window + Window
    BY <1>2
  <2>2. /\ admitted'[c] * Window + level'[c] + MaxTokens * mark
             <= Full + MaxTokens * t + MaxTokens * MaxLag
        /\ mark <= t + MaxLag
    BY <1>1, <1>2, <1>5, <1>6, <1>7, <2>1, FullInNat
  <2> QED
    BY <1>5, <2>2 DEF Accounted, Full
<1>10. WaitsEnough(c)'
  BY <1>5 DEF WaitsEnough
<1> QED
  BY <1>3, <1>4, <1>8, <1>9, <1>10 DEF BucketInv

\* A refusal stores the refilled level and promises a time.
LEMMA RefusingKeepsInv ==
  ASSUME BucketInv, NEW c \in Callers, NEW t \in RequestTimes, Refuse(c, t)
  PROVE  BucketInv'
<1> DEFINE R == Refilled(c, t)
           w == SecondsToWait(R) * PerSecond
<1>1. /\ t \in Nat /\ t <= now /\ now <= t + MaxLag /\ R \in Int /\ R <= Full
      /\ R + MaxTokens * now >= MaxTokens * t
      /\ admitted[c] > 0 =>
           /\ mark <= t + MaxLag
           /\ admitted[c] * Window + R + MaxTokens * mark
                <= Full + MaxTokens * t + MaxTokens * MaxLag
  BY RefillBounds
<1>2. R < Window
  BY DEF Refuse
<1>3. w \in Nat /\ MaxTokens * w >= Window - R
  BY <1>1, <1>2, WaitCovers
<1>4. MaxTokens * (t + w) = MaxTokens * t + MaxTokens * w
  BY <1>1, <1>3, RateSplits
<1>5. /\ level'[c] = R /\ lastRefill'[c] = t /\ written'[c] = now
      /\ c \in used' /\ retryAt'[c] = t + w /\ now' = now /\ mark' = mark
      /\ admitted' = admitted
  BY DEF BucketInv, BucketTypeOK, Refuse, Store
<1> HIDE DEF w, R
<1>6. BucketTypeOK'
  BY <1>1, <1>3 DEF BucketInv, BucketTypeOK, Refuse, Store, w, R
<1>7. ASSUME NEW d \in Callers, d # c
      PROVE  StoredWell(d)' /\ Accounted(d)' /\ WaitsEnough(d)'
  BY <1>7, FullInNat
     DEF BucketInv, BucketTypeOK, StoredWell, Accounted, WaitsEnough, Refuse, Store
<1>8. StoredWell(c)'
  <2>1. now \in Nat /\ Full' = Full
    BY DEF BucketInv, BucketTypeOK, Full
  <2> QED
    BY <1>1, <1>5, <2>1 DEF StoredWell
<1>9. Accounted(c)'
  BY <1>1, <1>5 DEF Accounted, Full
<1>10. WaitsEnough(c)'
  BY <1>1, <1>3, <1>4, <1>5 DEF WaitsEnough
<1> QED
  BY <1>6, <1>7, <1>8, <1>9, <1>10 DEF BucketInv

LEMMA BucketStep == BucketInv /\ [BucketNext]_bucketVars => BucketInv'
<1> SUFFICES ASSUME BucketInv, [BucketNext]_bucketVars PROVE BucketInv'
  OBVIOUS
<1>1. CASE TimePasses
  <2>1. BucketTypeOK'
    BY <1>1 DEF BucketInv, BucketTypeOK, TimePasses
  <2>2. ASSUME NEW c \in Callers PROVE StoredWell(c)' /\ Accounted(c)' /\ WaitsEnough(c)'
    BY <1>1
       DEF BucketInv, BucketTypeOK, StoredWell, Accounted, WaitsEnough, TimePasses, Full
  <2> QED
    BY <2>1, <2>2 DEF BucketInv
<1>2. CASE Observe
  <2>1. BucketTypeOK'
    BY <1>2 DEF BucketInv, BucketTypeOK, Observe
  <2>2. ASSUME NEW c \in Callers PROVE StoredWell(c)' /\ Accounted(c)' /\ WaitsEnough(c)'
    BY <1>2
       DEF BucketInv, BucketTypeOK, StoredWell, Accounted, WaitsEnough, Observe, Full
  <2> QED
    BY <2>1, <2>2 DEF BucketInv
<1>3. ASSUME NEW c \in Callers, NEW t \in RequestTimes,
             Admit(c, t) \/ TakeUnheard(c, t) \/ Refuse(c, t)
      PROVE  BucketInv'
  <2>1. CASE Admit(c, t)
    BY <2>1, TakingKeepsInv DEF Admit
  <2>2. CASE TakeUnheard(c, t)
    BY <2>2, TakingKeepsInv DEF TakeUnheard
  <2>3. CASE Refuse(c, t)
    BY <2>3, RefusingKeepsInv
  <2> QED
    BY <1>3, <2>1, <2>2, <2>3
<1>4. CASE UNCHANGED bucketVars
  BY <1>4 DEF BucketInv, BucketTypeOK, StoredWell, Accounted, WaitsEnough, bucketVars, Full
<1> QED
  BY <1>1, <1>2, <1>3, <1>4 DEF BucketNext

LEMMA BucketInvariant == BucketSpec => []BucketInv
  BY BucketInitially, BucketStep, PTL DEF BucketSpec

-----------------------------------------------------------------------------
\* Every variable of the bucket keeps its type.
THEOREM BucketTypeCorrect == BucketSpec => []BucketTypeOK
  BY BucketInvariant, PTL DEF BucketInv

\* However often and however late a caller asks, however its requests are
\* reordered, and although an idle bucket expires and comes back full, it gets
\* in any stretch of time no more than one full bucket and the refill of that
\* stretch and of the lag (rateLimit.ts).
THEOREM RateIsBounded == BucketSpec => []RateBound
<1>1. BucketInv => RateBound
  <2> SUFFICES ASSUME BucketInv, NEW c \in Callers
               PROVE  admitted[c] * Window <= MaxTokens * (Window + (now - mark) + MaxLag)
    BY DEF RateBound
  <2>1. /\ now \in Nat /\ mark \in Nat /\ mark <= now /\ admitted[c] \in Nat
        /\ level[c] \in Int /\ lastRefill[c] \in Nat /\ written[c] \in Nat
    BY DEF BucketInv, BucketTypeOK
  <2>2. MaxTokens * (Window + (now - mark) + MaxLag)
          = Full + MaxTokens * now - MaxTokens * mark + MaxTokens * MaxLag
    BY <2>1 DEF Full
  <2>3. CASE admitted[c] > 0
    <3>1. MaxTokens * written[c] <= MaxTokens * now
      BY <2>1, RateMonotone DEF BucketInv, StoredWell
    <3> QED
      BY <2>1, <2>2, <2>3, <3>1, FullInNat DEF BucketInv, StoredWell, Accounted
  <2>4. CASE admitted[c] = 0
    <3>1. MaxTokens * mark <= MaxTokens * now /\ MaxTokens * MaxLag \in Nat
      BY <2>1, RateMonotone
    <3> QED
      BY <2>1, <2>2, <2>4, <3>1, FullInNat
  <2> QED
    BY <2>1, <2>3, <2>4
<1> QED
  BY <1>1, BucketInvariant, PTL

\* A refused caller that waits as long as it was told finds a token, if it has
\* not asked again before: the rounded wait is never too short (rateLimit.ts).
THEOREM WaitingIsEnough == BucketSpec => []RetryAfterSuffices
<1>1. BucketInv => RetryAfterSuffices
  <2> SUFFICES ASSUME BucketInv, NEW c \in Callers, retryAt[c] > 0,
                      NEW t \in RequestTimes, t >= retryAt[c]
               PROVE  Refilled(c, t) >= Window
    BY DEF RetryAfterSuffices
  <2>1. /\ t \in Int /\ retryAt[c] \in Nat /\ level[c] \in Int /\ lastRefill[c] \in Nat
    BY DEF BucketInv, BucketTypeOK, RequestTimes
  <2>2. level[c] + MaxTokens * retryAt[c] >= Window + MaxTokens * lastRefill[c]
    BY DEF BucketInv, WaitsEnough
  <2>3. MaxTokens * retryAt[c] <= MaxTokens * t
    BY <2>1, RateMonotone
  <2>4. CASE Stored(c)
    <3>1. Refilled(c, t)
            = AtMost(Full, level[c] + (MaxTokens * t - MaxTokens * lastRefill[c]))
      BY <2>1, <2>4, RateSplits DEF Refilled
    <3> QED
      BY <2>1, <2>2, <2>3, <3>1, FullInNat DEF AtMost
  <2>5. CASE ~Stored(c)
    BY <2>5, FullInNat DEF Refilled
  <2> QED
    BY <2>4, <2>5
<1> QED
  BY <1>1, BucketInvariant, PTL
=============================================================================
