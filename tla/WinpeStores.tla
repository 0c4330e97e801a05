---------------------------- MODULE WinpeStores ----------------------------
(***************************************************************************)
(* The two stores of a WinPE deployment besides the masters: drivers and   *)
(* language packs.  They share neither a file nor a row, so a behaviour    *)
(* follows one of them and leaves the other as it was at the start.        *)
(***************************************************************************)
EXTENDS DriverStore, PackStore

VARIABLE store

Init ==
  /\ store \in {"drivers", "packs"} /\ DriverInit /\ PackInit
  /\ IF store = "packs" THEN folder = [s \in Slugs |-> "absent"] ELSE list = {}

\* Everybody has finished.
AllOver ==
  /\ \A a \in Actors : dop[a].pc \in {"idle", "ended"}
  /\ \A a \in PackActors : pop[a].pc \in {"idle", "ended"}

Next ==
  \/ store = "drivers" /\ DriverNext /\ UNCHANGED <<pvars, store>>
  \/ store = "packs" /\ PackNext /\ UNCHANGED <<dvars, store>>
  \/ AllOver /\ UNCHANGED <<dvars, pvars, store>>
Spec == Init /\ [][Next]_<<dvars, pvars, store>>
=============================================================================
