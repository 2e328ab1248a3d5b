----------------------------- MODULE RateLimiter ----------------------------
(***************************************************************************)
(* The token bucket of api/src/middleware/rateLimit.ts.  Its Lua script     *)
(* runs atomically in Redis, on a time that an API process read from its    *)
(* own clock before the call: requests may reach Redis out of order, and    *)
(* the clocks of processes differ, by at most MaxLag together.              *)
(*                                                                         *)
(* The script's fractions are integers here: a level counts 1/Window        *)
(* tokens, Window being the window's length in ticks.  One tick refills     *)
(* MaxTokens of them, exactly, so a full bucket has MaxTokens * Window.     *)
(***************************************************************************)
EXTENDS Integers

CONSTANTS
  Callers,    \* user ids and addresses; each has a bucket per endpoint
  MaxTokens,  \* RateLimitConfig.maxTokens
  Window,     \* RateLimitConfig.windowSecs, in ticks
  PerSecond,  \* ticks per second
  MaxLag,     \* ticks a request's time may lie behind the present
  MaxTime     \* bound on the clock

ASSUME BucketAssumption == MaxTokens \in Nat \ {0} /\ Window \in Nat \ {0}
ASSUME SecondAssumption == PerSecond \in Nat \ {0}
ASSUME LagAssumption == MaxLag \in Nat /\ MaxLag <= Window
ASSUME TimeAssumption == MaxTime \in Nat

VARIABLES
  now,        \* the present, in ticks since the first request
  used,       \* callers whose bucket was ever written
  level,      \* the stored tokens
  lastRefill, \* the stored time
  written,    \* when the bucket was written; it expires 2 windows later
  mark,       \* any moment: the start of the stretch of time looked at
  admitted,   \* requests let through since then
  retryAt     \* when the last refusal told the caller to come back; 0: none

bucketVars == <<now, used, level, lastRefill, written, mark, admitted, retryAt>>

Full == MaxTokens * Window

BucketInit ==
  /\ now = 0
  /\ used = {}
  /\ level = [c \in Callers |-> 0]
  /\ lastRefill = [c \in Callers |-> 0]
  /\ written = [c \in Callers |-> 0]
  /\ mark = 0
  /\ admitted = [c \in Callers |-> 0]
  /\ retryAt = [c \in Callers |-> 0]

BucketTypeOK ==
  /\ now \in Nat
  /\ used \subseteq Callers
  /\ level \in [Callers -> Int]
  /\ lastRefill \in [Callers -> Nat]
  /\ written \in [Callers -> Nat]
  /\ mark \in 0..now
  /\ admitted \in [Callers -> Nat]
  /\ retryAt \in [Callers -> Nat]

\* Mutant: the hash expires after one window.
StoredOneWindow(c) == c \in used /\ now < written[c] + Window

\* EXPIRE: the hash is gone 2 windows after its last write.
Stored(c) == c \in used /\ now < written[c] + 2 * Window

AtMost(bound, n) == IF n > bound THEN bound ELSE n

\* Mutant: the refill is not capped.
RefilledUncapped(c, t) ==
  IF Stored(c) THEN level[c] + MaxTokens * (t - lastRefill[c]) ELSE Full

\* The tokens at time t; a negative time difference takes tokens away.
Refilled(c, t) ==
  IF Stored(c) THEN AtMost(Full, level[c] + MaxTokens * (t - lastRefill[c])) ELSE Full

\* Times a request that is evaluated now may carry.
RequestTimes == {t \in (now - MaxLag)..now : t >= 0}

Store(c, t, tokens) ==
  /\ used' = used \cup {c}
  /\ level' = [level EXCEPT ![c] = tokens]
  /\ lastRefill' = [lastRefill EXCEPT ![c] = t]
  /\ written' = [written EXCEPT ![c] = now]

Admit(c, t) ==
  /\ Refilled(c, t) >= Window
  /\ Store(c, t, Refilled(c, t) - Window)
  /\ admitted' = [admitted EXCEPT ![c] = @ + 1]
  /\ retryAt' = [retryAt EXCEPT ![c] = 0]
  /\ UNCHANGED <<now, mark>>

\* The client library sends a script again whose answer it lost: a token is
\* taken for the same request a second time.
TakeUnheard(c, t) ==
  /\ Refilled(c, t) >= Window
  /\ Store(c, t, Refilled(c, t) - Window)
  /\ retryAt' = [retryAt EXCEPT ![c] = 0]
  /\ UNCHANGED <<now, mark, admitted>>

\* Mutant: the wait is rounded down.
SecondsToWaitRoundedDown(tokens) == (Window - tokens) \div (MaxTokens * PerSecond)

\* Mutant: the subtraction the wrong way round.
SecondsToWaitReversed(tokens) == (tokens - Window) \div (MaxTokens * PerSecond)

\* math.ceil of the time until one token is there.
SecondsToWait(tokens) ==
  (Window - tokens + MaxTokens * PerSecond - 1) \div (MaxTokens * PerSecond)

Refuse(c, t) ==
  /\ Refilled(c, t) < Window
  /\ Store(c, t, Refilled(c, t))
  /\ retryAt' = [retryAt EXCEPT ![c] = t + SecondsToWait(Refilled(c, t)) * PerSecond]
  /\ UNCHANGED <<now, mark, admitted>>

TimePasses ==
  /\ now < MaxTime
  /\ now' = now + 1
  /\ UNCHANGED <<used, level, lastRefill, written, mark, admitted, retryAt>>

\* The observer starts to count; the code knows nothing of it.
Observe ==
  /\ mark' = now
  /\ admitted' = [c \in Callers |-> 0]
  /\ UNCHANGED <<now, used, level, lastRefill, written, retryAt>>

BucketNext ==
  \/ TimePasses
  \/ Observe
  \/ \E c \in Callers, t \in RequestTimes :
       Admit(c, t) \/ TakeUnheard(c, t) \/ Refuse(c, t)

BucketSpec == BucketInit /\ [][BucketNext]_bucketVars

-----------------------------------------------------------------------------
\* In a stretch of time a caller gets what is refilled in it and a full
\* bucket, however its requests are delayed and reordered, and although an
\* idle bucket is thrown away and comes back full (rateLimit.ts).
RateBound ==
  \A c \in Callers :
    admitted[c] * Window <= MaxTokens * (Window + (now - mark) + MaxLag)

\* A caller that was refused, waits the Retry-After it was told and then
\* asks first is let through (rateLimit.ts).
RetryAfterSuffices ==
  \A c \in Callers :
    retryAt[c] > 0 => \A t \in RequestTimes : t >= retryAt[c] => Refilled(c, t) >= Window
=============================================================================
