----------------------------- MODULE MCWorkers -----------------------------
(***************************************************************************)
(* A small instance of Workers.                                            *)
(***************************************************************************)
EXTENDS Workers, TLC

CONSTANTS k1, k2, r1, r2, r3, g1, q1, h1, x

\* One container is crowded, the other serves a rival for the same advertiser
\* and replies before it commits.
Where == r1 :> k1 @@ r2 :> k1 @@ r3 :> k1 @@ g1 :> k1 @@ h1 :> k1 @@ q1 :> k2

Refs == r1 :> x @@ r2 :> x @@ r3 :> x @@ q1 :> x @@ g1 :> None @@ h1 :> None

InTurn(r, q) ==
  /\ pc[r] = "idle" /\ pc'[r] = "call" => pc[q] # "idle"
  /\ pc[r] = "call" /\ pc'[r] = "connect" => pc[q] \notin {"idle", "call"}

\* r1, r2 and r3 are alike until they get a thread, and no fairness is assumed
\* of their order: it is enough to explore the runs where they get one in turn.
InOrder == InTurn(r2, r1) /\ InTurn(r3, r2)
=============================================================================
