---------------------------- MODULE MCPixelSync ----------------------------
(***************************************************************************)
(* Small instances of PixelSync.                                           *)
(***************************************************************************)
EXTENDS PixelSync, TLC

CONSTANTS a1, a2, a3, c1, c2, p1, p2, n1, n2, on, off

E(p, n, s) == [pixel |-> p, name |-> n, status |-> s]

\* Two ad accounts share pixels and a third advertiser has no ad account.
TwoAccounts == a1 :> c1 @@ a2 :> c2 @@ a3 :> None

\* The first account lists both pixels in either order; the second shares one.
EitherOrder ==
  c1 :> {<<E(p1, n1, on), E(p2, n1, on)>>, <<E(p2, n1, on), E(p1, n2, on)>>} @@
  c2 :> {<<E(p1, n1, on)>>}

\* One account, one pixel: it is renamed and it is switched off.
OneAccount == a1 :> c1
Edits == c1 :> {<<E(p1, n1, on)>>, <<E(p1, n2, on)>>, <<E(p1, n1, off)>>}

ByName == p1 :> 1 @@ p2 :> 2
=============================================================================
