---------------------------- MODULE MasterStore ----------------------------
(***************************************************************************)
(* Windows masters: boot/masters/<family>/<slug>/install.wim, the          *)
(* catalogue masters.json with each master's label and DISM index, and the *)
(* scripts of a WinPE version that list them.                              *)
(*                                                                         *)
(* An operation is an upload through a part file that a Celery task moves, *)
(* an upload written in place ("master store"), a deletion, or a request   *)
(* for new scripts.  Most of them queue a regeneration of the scripts,     *)
(* which here bears the name of its operation.  Two web processes and the  *)
(* pool of the worker act at the same time; a step is what no other        *)
(* process can see the inside of.                                          *)
(***************************************************************************)
EXTENDS Integers, FiniteSets

CONSTANTS
  Masters,    \* <family>/<slug>
  Uploads,    \* bound: the uploads, numbered from 1
  Others,     \* bound: the deletions and requests for scripts, further numbers
  Pool,       \* processes of the worker
  Torn, NoScripts

ASSUME MasterStoreAssumption ==
  /\ Uploads \subseteq Nat \ {0} /\ IsFiniteSet(Uploads) /\ Pool \in Nat \ {0}
  /\ \A u \in Uploads : u <= Cardinality(Uploads)
  /\ Others \subseteq Nat \ {0} /\ Uploads \cap Others = {}
  /\ "none" \notin Masters /\ Torn \notin [Masters -> Nat]

Ops == Uploads \cup Others

VARIABLES
  wim,      \* master -> install.wim
  part,     \* master -> install.wim.part
  cat,      \* masters.json: master -> upload that wrote its entry; Torn: no valid JSON
  row,      \* Upload.status; "none" before its commit
  op,       \* the operations
  regen,    \* their regenerations
  lock,     \* the upload that holds SQLite's write lock, or Nobody
  patched,  \* winpe_startnet_patched_at is set
  shown,    \* master -> entry listed by the version's masters.json
  moved,    \* history: upload -> what its task moved
  crossed,  \* history: operations that met another one on the same master
  raced,    \* history: two changes of the catalogue overlapped, or one failed
  orphaned, \* history: uploads whose task was never queued or could not record its end
  unshown   \* history: a change may have no regeneration left to show it

files   == <<wim, part>>
scripts == <<patched, shown>>
history == <<moved, crossed, raced, orphaned, unshown>>
vars    == <<wim, part, cat, row, op, regen, lock, patched, shown,
             moved, crossed, raced, orphaned, unshown>>

(***************************************************************************)
(* Contents: u is what upload u sent, -u what it has written so far,       *)
(* Missing no file, Garbage the writes of several.                         *)
(***************************************************************************)
Missing == 0
Garbage == -1 - Cardinality(Uploads)
Contents == Uploads \cup {-u : u \in Uploads} \cup {Missing, Garbage}

NoMaster == "none"
Nobody   == 0
NoEntry  == 0
Empty    == [m \in Masters |-> NoEntry]
Entries  == Uploads \cup {NoEntry}
IdleOp   == [pc |-> "idle", kind |-> "none", m |-> NoMaster, seen |-> Empty]
IdleRun  == [pc |-> "none", seen |-> Empty]

Init ==
  /\ wim = [m \in Masters |-> Missing] /\ part = [m \in Masters |-> Missing]
  /\ cat = Empty
  /\ row = [u \in Uploads |-> "none"]
  /\ op = [o \in Ops |-> IdleOp] /\ regen = [o \in Ops |-> IdleRun]
  /\ lock = Nobody
  /\ patched = FALSE /\ shown = NoScripts
  /\ moved = [u \in Uploads |-> Missing]
  /\ crossed = {} /\ raced = FALSE /\ orphaned = {} /\ unshown = FALSE

Free      == lock = Nobody
At(o, p)  == op[o].pc = p
Go(o, p)  == op' = [op EXCEPT ![o].pc = p]
Live(o)   == op[o].pc \notin {"idle", "ended"}
OnDisk    == {m \in Masters : wim[m] # Missing}
OnPool    == {u \in Uploads : op[u].pc \in {"checking", "moving", "failing"}
                 \/ (op[u].kind = "part" /\ op[u].pc \in {"reading", "truncating", "writing catalogue",
                                                       "committing", "regenerating"})}
Running   == {o \in Ops : regen[o].pc \notin {"none", "queued", "ended"}}
HasSlot   == Cardinality(OnPool) + Cardinality(Running) < Pool

\* An operation begins: it crosses those that are at work on its master.
Begin(o, k, m, p) ==
  LET met == {x \in Ops : Live(x) /\ op[x].m = m}
  IN /\ At(o, "idle")
     /\ op' = [op EXCEPT ![o] = [IdleOp EXCEPT !.pc = p, !.kind = k, !.m = m]]
     /\ crossed' = IF met = {} THEN crossed ELSE crossed \cup met \cup {o}

\* Truncation of a file somebody still writes leaves two writers in it.
Opened(c, u) ==
  IF \E v \in Uploads \ {u} : c = -v /\ op[v].pc \in {"receiving", "in place"} THEN Garbage ELSE -u

\* The end of the writes reaches the file wherever it is by now.
Closed(f, u) == [m \in Masters |-> IF f[m] = -u THEN u ELSE f[m]]
-----------------------------------------------------------------------------
(***************************************************************************)
(* upload_winpe_install                                                    *)
(***************************************************************************)
Receive_InPlace(u, m) ==   \* faulty: no part file
  /\ Free
  /\ Begin(u, "part", m, "receiving")
  /\ lock' = u
  /\ wim' = [wim EXCEPT ![m] = -u]
  /\ UNCHANGED <<part, cat, row, regen, scripts, moved, raced, orphaned, unshown>>
\* The flush takes the write lock, which is kept while the file is copied.
Receive(u, m) ==
  /\ Free
  /\ Begin(u, "part", m, "receiving")
  /\ lock' = u
  /\ part' = [part EXCEPT ![m] = -u]
  /\ UNCHANGED <<wim, cat, row, regen, scripts, moved, raced, orphaned, unshown>>

Received(u) ==
  /\ At(u, "receiving")
  /\ part' = Closed(part, u) /\ wim' = Closed(wim, u)
  /\ row' = [row EXCEPT ![u] = "processing"]
  /\ lock' = Nobody
  /\ Go(u, "sending")
  /\ UNCHANGED <<cat, regen, scripts, history>>

ReceiveFails_Kept(u) ==   \* faulty: a short file counts as received
  /\ At(u, "receiving")
  /\ row' = [row EXCEPT ![u] = "processing"]
  /\ lock' = Nobody /\ Go(u, "sending")
  /\ UNCHANGED <<files, cat, regen, scripts, history>>
\* The disk fills up: rollback, then the part file goes, by its name.
ReceiveFails(u) ==
  /\ At(u, "receiving")
  /\ lock' = Nobody /\ Go(u, "discarding")
  /\ UNCHANGED <<files, cat, row, regen, scripts, history>>

\* The broker refuses the task: the row is committed and stays, the file goes.
SendFails(u) ==
  /\ At(u, "sending")
  /\ orphaned' = orphaned \cup {u} /\ Go(u, "discarding")
  /\ UNCHANGED <<files, cat, row, regen, lock, scripts, moved, crossed, raced, unshown>>

Discard(u) ==
  /\ At(u, "discarding")
  /\ part' = [part EXCEPT ![op[u].m] = Missing]
  /\ Go(u, "ended")
  /\ UNCHANGED <<wim, cat, row, regen, lock, scripts, history>>

Send(u) ==
  /\ At(u, "sending") /\ Go(u, "queued")
  /\ UNCHANGED <<files, cat, row, regen, lock, scripts, history>>
-----------------------------------------------------------------------------
(***************************************************************************)
(* upload_winpe_install_task                                               *)
(***************************************************************************)
\* The first commit waits for the lock, or fails after 30 seconds.
TaskStarts(u) ==
  /\ At(u, "queued") /\ HasSlot
  /\ IF Free THEN Go(u, "checking") ELSE Go(u, "failing")
  /\ UNCHANGED <<files, cat, row, regen, lock, scripts, history>>

\* The old install.wim is removed before the part file is moved.
TaskChecks(u) ==
  /\ At(u, "checking")
  /\ \/ part[op[u].m] = Missing /\ Go(u, "failing") /\ UNCHANGED wim
     \/ /\ part[op[u].m] # Missing /\ Go(u, "moving")
        /\ wim' = [wim EXCEPT ![op[u].m] = Missing]
  /\ UNCHANGED <<part, cat, row, regen, lock, scripts, history>>

\* Without the part file the task fails, and the old install.wim is gone.
TaskMoves(u) ==
  LET m == op[u].m
  IN /\ At(u, "moving")
     /\ IF part[m] = Missing THEN Go(u, "failing") /\ unshown' = TRUE /\ UNCHANGED <<files, moved>>
        ELSE /\ Go(u, "reading")
             /\ wim' = [wim EXCEPT ![m] = part[m]]
             /\ part' = [part EXCEPT ![m] = Missing]
             /\ moved' = [moved EXCEPT ![u] = part[m]]
             /\ UNCHANGED unshown
     /\ UNCHANGED <<cat, row, regen, lock, scripts, crossed, raced, orphaned>>

TaskFails_Silently(u) ==   \* faulty: the row is left as it was
  /\ At(u, "failing")
  /\ part' = [part EXCEPT ![op[u].m] = Missing]
  /\ Go(u, "ended")
  /\ unshown' = (unshown \/ moved[u] # Missing)
  /\ UNCHANGED <<wim, cat, row, regen, lock, scripts, moved, crossed, raced, orphaned>>
\* The handler commits the error, unless the lock is held, then removes the part
\* file of that name, whoever wrote it.
TaskFails(u) ==
  /\ At(u, "failing")
  /\ row' = IF Free THEN [row EXCEPT ![u] = "error"] ELSE row
  /\ orphaned' = IF Free THEN orphaned ELSE orphaned \cup {u}
  /\ part' = [part EXCEPT ![op[u].m] = Missing]
  /\ Go(u, "ended")
  /\ unshown' = (unshown \/ moved[u] # Missing)
  /\ UNCHANGED <<wim, cat, regen, lock, scripts, moved, crossed, raced>>
-----------------------------------------------------------------------------
(***************************************************************************)
(* upload_iso with windows_mode "master_store": written in place           *)
(***************************************************************************)
OpenInPlace(u, m) ==
  /\ Begin(u, "direct", m, "in place")
  /\ wim' = [wim EXCEPT ![m] = Opened(wim[m], u)]
  /\ UNCHANGED <<part, cat, row, regen, lock, scripts, moved, raced, orphaned, unshown>>

WrittenInPlace(u) ==
  /\ At(u, "in place")
  /\ wim' = Closed(wim, u)
  /\ Go(u, "reading")
  /\ UNCHANGED <<part, cat, row, regen, lock, scripts, history>>

\* Nothing removes what a broken upload has written, and no row tells of it.
BrokenInPlace(u) ==
  /\ At(u, "in place")
  /\ Go(u, "ended")
  /\ unshown' = TRUE
  /\ UNCHANGED <<files, cat, row, regen, lock, scripts, moved, crossed, raced, orphaned>>
-----------------------------------------------------------------------------
(***************************************************************************)
(* delete_master and the request for new scripts                           *)
(***************************************************************************)
\* rmtree takes the part file too.
Delete(d, m) ==
  /\ Begin(d, "delete", m, "reading")
  /\ wim' = [wim EXCEPT ![m] = Missing] /\ part' = [part EXCEPT ![m] = Missing]
  /\ UNCHANGED <<cat, row, regen, lock, scripts, moved, raced, orphaned, unshown>>

\* regenerate_winpe_scripts_route refuses when there is no master.
Ask(a) ==
  /\ At(a, "idle") /\ OnDisk # {} /\ Free
  /\ op' = [op EXCEPT ![a] = [IdleOp EXCEPT !.pc = "regenerating", !.kind = "ask"]]
  /\ patched' = FALSE
  /\ UNCHANGED <<files, cat, row, regen, lock, shown, history>>
-----------------------------------------------------------------------------
(***************************************************************************)
(* The catalogue: _load_catalog, the change, _save_catalog                 *)
(***************************************************************************)
\* A file that holds no JSON is an empty catalogue.
Loaded == IF cat = Torn THEN Empty ELSE cat

Changed_Alone(o, seen) ==   \* faulty
  [Empty EXCEPT ![op[o].m] = IF op[o].kind = "delete" THEN NoEntry ELSE o]
Changed(o, seen) ==
  [seen EXCEPT ![op[o].m] = IF op[o].kind = "delete" THEN NoEntry ELSE o]

Writers == {o \in Ops : op[o].pc \in {"truncating", "writing catalogue"}}

ReadCatalogue(o) ==
  /\ At(o, "reading")
  /\ op' = [op EXCEPT ![o].pc = "truncating", ![o].seen = Changed(o, Loaded)]
  /\ raced' = (raced \/ Writers # {})
  /\ UNCHANGED <<files, cat, row, regen, lock, scripts, moved, crossed, orphaned, unshown>>

TruncateCatalogue(o) ==
  /\ At(o, "truncating")
  /\ cat' = Torn /\ Go(o, "writing catalogue")
  /\ UNCHANGED <<files, row, regen, lock, scripts, history>>

\* What another wrote since then may show behind the end of a shorter text.
WriteCatalogue(o) ==
  /\ At(o, "writing catalogue")
  /\ \/ cat' = op[o].seen
     \/ cat # Torn /\ cat' = Torn
  /\ op' = [op EXCEPT ![o].pc = IF op[o].kind = "delete" THEN "regenerating" ELSE "committing",
                      ![o].seen = Empty]
  /\ UNCHANGED <<files, row, regen, lock, scripts, history>>

\* A full disk: the file stays truncated and the operation fails.
WriteCatalogueFails(o) ==
  /\ At(o, "writing catalogue")
  /\ cat' = Torn /\ raced' = TRUE /\ unshown' = TRUE
  /\ op' = [op EXCEPT ![o].pc = IF op[o].kind = "part" THEN "failing" ELSE "ended", ![o].seen = Empty]
  /\ UNCHANGED <<files, row, regen, lock, scripts, moved, crossed, orphaned>>
-----------------------------------------------------------------------------
(***************************************************************************)
(* Commit of the end and the regeneration                                  *)
(***************************************************************************)
CommitDone(u) ==
  /\ At(u, "committing") /\ Free
  /\ row' = [row EXCEPT ![u] = "done"]
  /\ patched' = IF op[u].kind = "part" THEN FALSE ELSE patched
  /\ Go(u, "regenerating")
  /\ UNCHANGED <<files, cat, regen, lock, shown, history>>

\* The lock is held for more than 30 seconds.
CommitFails(u) ==
  /\ At(u, "committing") /\ ~Free
  /\ Go(u, IF op[u].kind = "part" THEN "failing" ELSE "ended")
  /\ unshown' = TRUE
  /\ UNCHANGED <<files, cat, row, regen, lock, scripts, moved, crossed, raced, orphaned>>

QueueRegen_Uploads(o) ==   \* faulty: a deletion regenerates nothing
  /\ At(o, "regenerating") /\ Go(o, "ended")
  /\ regen' = IF op[o].kind = "delete" THEN regen ELSE [regen EXCEPT ![o].pc = "queued"]
  /\ UNCHANGED <<files, cat, row, lock, scripts, history>>
QueueRegen(o) ==
  /\ At(o, "regenerating") /\ Go(o, "ended")
  /\ regen' = [regen EXCEPT ![o].pc = "queued"]
  /\ UNCHANGED <<files, cat, row, lock, scripts, history>>

\* An exception of delay() is swallowed.
QueueRegenFails(o) ==
  /\ At(o, "regenerating") /\ Go(o, "ended")
  /\ unshown' = TRUE
  /\ UNCHANGED <<files, cat, row, regen, lock, scripts, moved, crossed, raced, orphaned>>
-----------------------------------------------------------------------------
(***************************************************************************)
(* _regenerate_winpe_scripts_impl                                          *)
(***************************************************************************)
Step(o, p) == regen' = [regen EXCEPT ![o].pc = p]

\* list_global_masters: the files there are, with what the catalogue says of them;
\* -1 stands for the default label and index.
Listing ==
  [m \in Masters |-> IF wim[m] = Missing THEN NoEntry
                     ELSE IF Loaded[m] = NoEntry THEN -1 ELSE Loaded[m]]

\* Without a master it raises, and the scripts stay as they are.
RegenStarts(o) ==
  /\ regen[o].pc = "queued" /\ HasSlot
  /\ Step(o, IF OnDisk = {} THEN "ended" ELSE "listing")
  /\ unshown' = (unshown \/ Running # {} \/ OnDisk = {})
  /\ UNCHANGED <<files, cat, row, op, lock, scripts, moved, crossed, raced, orphaned>>

\* Alone, with nothing else at work, it makes up for all that went before.
RegenLists(o) ==
  /\ regen[o].pc = "listing"
  /\ regen' = [regen EXCEPT ![o] = [pc |-> "writing", seen |-> Listing]]
  /\ unshown' = (unshown /\ \E x \in Ops : Live(x) \/ (x # o /\ x \in Running))
  /\ UNCHANGED <<files, cat, row, op, lock, scripts, moved, crossed, raced, orphaned>>

RegenWrites(o) ==
  /\ regen[o].pc = "writing"
  /\ shown' = regen[o].seen
  /\ regen' = [regen EXCEPT ![o] = [pc |-> "patching", seen |-> Empty]]
  /\ UNCHANGED <<files, cat, row, op, lock, patched, history>>

\* wimupdate puts startnet.cmd into boot.wim, then the commit.
RegenCommits(o) ==
  /\ regen[o].pc = "patching" /\ Free
  /\ patched' = TRUE
  /\ Step(o, "ended")
  /\ UNCHANGED <<files, cat, row, op, lock, shown, history>>

\* Any exception rolls back; the next version is tried.
RegenFails(o) ==
  /\ regen[o].pc \in {"listing", "writing", "patching"}
  /\ regen' = [regen EXCEPT ![o] = [pc |-> "ended", seen |-> Empty]]
  /\ unshown' = (unshown \/ regen[o].pc # "patching")
  /\ UNCHANGED <<files, cat, row, op, lock, scripts, moved, crossed, raced, orphaned>>

Over ==
  /\ \A o \in Ops : ~Live(o) /\ regen[o].pc \in {"none", "ended"}
  /\ UNCHANGED vars

Next ==
  \/ \E u \in Uploads, m \in Masters : Receive(u, m) \/ OpenInPlace(u, m)
  \/ \E u \in Uploads :
       \/ Received(u) \/ ReceiveFails(u) \/ Send(u) \/ SendFails(u) \/ Discard(u)
       \/ TaskStarts(u) \/ TaskChecks(u) \/ TaskMoves(u) \/ TaskFails(u)
       \/ WrittenInPlace(u) \/ BrokenInPlace(u) \/ CommitDone(u) \/ CommitFails(u)
  \/ \E d \in Others : Ask(d) \/ \E m \in Masters : Delete(d, m)
  \/ \E o \in Ops :
       \/ ReadCatalogue(o) \/ TruncateCatalogue(o) \/ WriteCatalogue(o) \/ WriteCatalogueFails(o)
       \/ QueueRegen(o) \/ QueueRegenFails(o)
       \/ RegenStarts(o) \/ RegenLists(o) \/ RegenWrites(o) \/ RegenCommits(o) \/ RegenFails(o)
  \/ Over

Spec == Init /\ [][Next]_vars
-----------------------------------------------------------------------------
(***************************************************************************)
(* Properties                                                              *)
(***************************************************************************)

\* An upload that shows "processing" has a task under way, unless the broker refused it or
\* its failure met the lock of another upload (upload_winpe_install_task).
ProcessingHasTask ==
  \A u \in Uploads : row[u] = "processing" => Live(u) \/ u \in orphaned

\* An upload that shows "done" through the part file put its own bytes, whole, in place,
\* unless another operation was at work on the same master.
DoneMovedItsOwn ==
  \A u \in Uploads :
    (row[u] = "done" /\ op[u].kind = "part") => moved[u] = u \/ u \in crossed

\* A client never finds an install.wim that is still being written, except where an
\* upload writes in place or operations on one master crossed.
ServedWhole ==
  \A m \in Masters, u \in Uploads :
    wim[m] = -u => op[u].kind = "direct" \/ u \in crossed

\* While nobody changes the catalogue, a master put in place by an upload that is done has
\* that upload's label and DISM index, unless two changes of the catalogue overlapped (or
\* one failed), or operations crossed on that master.
EntryOfOwnImage ==
  Writers = {} /\ ~raced =>
    \A m \in Masters, u \in Uploads :
      (wim[m] = u /\ row[u] = "done" /\ u \notin crossed) => cat # Torn /\ cat[m] = u

\* When nothing is at work or queued, a version whose scripts count as generated lists the
\* masters there are, each with its entry, unless a regeneration failed, was not queued (an
\* upload that fails after it removed the old file queues none), overlapped another or
\* found no master at all.
QuietScriptsCurrent ==
  (\A o \in Ops : ~Live(o) /\ regen[o].pc \in {"none", "ended"}) /\ patched /\ ~unshown =>
    shown = Listing
=============================================================================
