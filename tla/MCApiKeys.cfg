SPECIFICATION KeysSpec
CHECK_DEADLOCK FALSE
SYMMETRY ApiKeysSymmetry
CONSTANTS
  r1 = r1
  r2 = r2
  u1 = u1
  t1 = t1
  t2 = t2
  t3 = t3
  program = program
  Requests = {r1, r2}
  Users = {u1}
  Jtis = {t1, t2, t3}
  NoJti = NoJti
  MaxFaults = 1
  Programs = {program}
  Browser = Browser
  MaxEnds = 1
  Callers = {u1}
  MaxTokens = 3
  Window = 4
  PerSecond = 2
  MaxLag = 2
  MaxTime = 14
INVARIANTS
  SessionTypeOK OneSignupPerEmail NoStrayToken JarIsGood
  BucketTypeOK RateBound RetryAfterSuffices
PROPERTIES
  SignedOutForCause
