----------------------------- MODULE PixelTable -----------------------------
(***************************************************************************)
(* What the readers of the table `pixels' may count on.  It changes by     *)
(* whole syncs, each with one listing of a registered advertiser's ad      *)
(* account: every pixel listed is in the table afterwards, each column of  *)
(* its row either as listed or as it was, and no other row changes.  Rows  *)
(* never go away.                                                          *)
(***************************************************************************)
CONSTANTS Advertiser, Pixel, Name, Status, AdAccount, None

VARIABLES
  rows,   \* pixels: what the Hub knows of each Meta pixel
  shown   \* what Meta has answered so far: <<ad account, listing>>

vars == <<rows, shown>>

Row == [owner : Advertiser, name : Name, status : Status]

Init ==
  /\ rows = [p \in Pixel |-> None]
  /\ shown = {}

\* Meta lists an ad account's pixels.
List ==
  /\ shown \subseteq shown'
  /\ UNCHANGED rows

\* The row new takes over from the row old what a sync for a read in entry e.
Upserted(new, old, a, e) ==
  /\ new \in Row
  /\ new.owner \in {a} \cup (IF old = None THEN {} ELSE {old.owner})
  /\ new.name \in {e.name} \cup (IF old = None THEN {} ELSE {old.name})
  /\ new.status \in {e.status} \cup (IF old = None THEN {} ELSE {old.status})

\* One sync of a takes effect at once, with the listing l.
Reconcile(a, l) ==
  /\ <<AdAccount[a], l>> \in shown
  /\ \A p \in Pixel :
       LET listed == {i \in DOMAIN l : l[i].pixel = p}
       IN  IF listed = {} THEN rows'[p] = rows[p]
                          ELSE \E i \in listed : Upserted(rows'[p], rows[p], a, l[i])
  /\ UNCHANGED shown

Next ==
  \/ List
  \/ \E a \in DOMAIN AdAccount : \E x \in shown : Reconcile(a, x[2])

Spec == Init /\ [][Next]_vars
=============================================================================
