---------------------------- MODULE MCMetaClient ----------------------------
(***************************************************************************)
(* MetaClient with the default settings, in half seconds.                  *)
(***************************************************************************)
EXTENDS MetaClient

DefaultPower == [n \in 1..meta_max_retries |-> 2 ^ (n - 1)]

\* Expired, about to expire, inside and just outside the leeway, fresh.
Lifetimes == {0, 1, Leeway, Leeway + 1, TTL}
=============================================================================
