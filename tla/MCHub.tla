------------------------------- MODULE MCHub -------------------------------
(***************************************************************************)
(* A small instance of Hub: two advertisers whose ad accounts list the     *)
(* same pixels, one of them with a token that can be refreshed.            *)
(***************************************************************************)
EXTENDS Hub, TLC

CONSTANTS r1, s1, s2, a1, a2, c1, c2, n1, p1, p2, d1, m1, on

Entry(p) == [pixel |-> p, name |-> m1, status |-> on]

TwoAccounts == a1 :> c1 @@ a2 :> c2

\* Meta lists the same two pixels in either account, not in the same order.
Listings ==
  c1 :> {<<Entry(p1), Entry(p2)>>} @@ c2 :> {<<Entry(p2), Entry(p1)>>}

Calls == {[adv |-> a1, name |-> n1, pixel |-> p1, detail |-> d1, key |-> None]}

ByName == p1 :> 1 @@ p2 :> 2
=============================================================================
