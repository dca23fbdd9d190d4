--------------------------- MODULE MCIdempotency ---------------------------
(* Three requests with one key: two retries of each other and one that      *)
(* reuses the key with another payload; two of them share a process.        *)
EXTENDS Idempotency, TLC

CONSTANTS a, b, c, p, q, same, other

TwoPayloads == a :> same @@ b :> same @@ c :> other
TwoProcesses == a :> p @@ b :> q @@ c :> q
=============================================================================
