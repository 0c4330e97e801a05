------------------------------ MODULE MenuView ------------------------------
(***************************************************************************)
(* What the publication of the menus promises to a PXE client, page by     *)
(* page.  Demand is the database's business; from then on a page that is   *)
(* kept is brought up to date, and never goes back to an old state of the  *)
(* database unless the promise is given up first.                          *)
(***************************************************************************)
CONSTANTS
  Pages,
  Handmade   \* what an administrator can put in the place of a page

VARIABLES
  wanted,    \* what the database asks each page to be
  shown,     \* what clients get
  kept       \* the pages the promise is made for

vars == <<wanted, shown, kept>>

Fresh(p) == shown[p] = wanted[p]

Init == kept = {}

\* The database changes; a change that asks for no regeneration ends the promise.
Demand ==
  /\ kept' \subseteq kept
  /\ UNCHANGED shown

Override(p) ==
  /\ shown' = [shown EXCEPT ![p] = shown'[p]]
  /\ shown'[p] \in Handmade
  /\ UNCHANGED <<wanted, kept>>

\* A regeneration writes: the page is right, or it was not right before and is
\* still due, or the promise is given up.
Publish(p) ==
  /\ shown' = [shown EXCEPT ![p] = shown'[p]]
  /\ kept' \ {p} = kept \ {p}
  /\ p \in kept' => Fresh(p)' \/ (p \in kept /\ ~Fresh(p))
  /\ UNCHANGED wanted

GiveUp ==
  /\ kept' \subseteq kept
  /\ UNCHANGED <<wanted, shown>>

Next ==
  \/ Demand
  \/ GiveUp
  \/ \E p \in Pages : Override(p) \/ Publish(p)

Promise == \A p \in Pages : (p \in kept /\ ~Fresh(p)) ~> (Fresh(p) \/ p \notin kept)

Spec == Init /\ [][Next]_vars /\ Promise
=============================================================================
