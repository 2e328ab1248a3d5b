------------------------------ MODULE ApiKeys -------------------------------
(***************************************************************************)
(* What the API processes keep in Redis: the refresh tokens of Sessions and *)
(* the token buckets of RateLimiter.  The two have no key in common and no  *)
(* request uses both, so a behaviour is of one of them, and the other stays *)
(* as it is at its start.                                                  *)
(***************************************************************************)
EXTENDS Sessions, RateLimiter

VARIABLE keys

keysVars == <<keys, sessionVars, bucketVars>>

KeysInit ==
  /\ keys \in {"refresh", "bucket"}
  /\ SessionInit
  /\ BucketInit

RefreshTokens == keys = "refresh" /\ SessionNext /\ UNCHANGED <<keys, bucketVars>>
Buckets == keys = "bucket" /\ BucketNext /\ UNCHANGED <<keys, sessionVars>>

KeysNext == RefreshTokens \/ Buckets

KeysSpec == KeysInit /\ [][KeysNext]_keysVars
=============================================================================
