------------------------------ MODULE BootTree ------------------------------
(***************************************************************************)
(* The boot directories http/boot/<os>/<slug>/ of one OS type and those    *)
(* who change them at the same time: uploads of a new version, extraction  *)
(* tasks, boot files added by hand, scans and deletions.                   *)
(*                                                                         *)
(* A directory is named by the slug of a version's label.  Nothing makes   *)
(* slugs unique, and deletion and the scan also look at the directory      *)
(* named by a version's id, which can be the slug of another label.  So    *)
(* directories are numbers: n >= 1 is the one named by id n, 0 one whose   *)
(* name is no number.                                                      *)
(*                                                                         *)
(* An actor is one request or task; its pc tells which kind.  What an      *)
(* actor does between two awaits, system calls or transactions that others *)
(* can see is one step.                                                    *)
(***************************************************************************)
EXTENDS Integers, FiniteSets

CONSTANTS
  MaxVersion,   \* bound: ids of iso_versions rows are 1..MaxVersion
  Labels,       \* directories that the labels of new versions lead to
  Roles,        \* boot files a version needs, such as kernel and initrd
  Actors        \* bound: requests and tasks, each of them once

Ids   == 1..MaxVersion
Dirs  == Labels \cup Ids

NoDir   == -1
Missing == 0     \* content of a file that is not there; v is version v's file
Half    == -1    \* a file being written, or left truncated

ASSUME BootTreeAssumption ==
  /\ MaxVersion \in Nat /\ Labels \subseteq Nat
  /\ Roles # {} /\ {"iso", "none"} \cap Roles = {} /\ "free" \notin Actors

VARIABLES
  rdir,     \* the directory of each version's label, NoDir without a row
  status,   \* iso_versions.status
  entry,    \* boot_entries: role -> directory of the recorded path
  hasIso,   \* versions whose iso_path is set
  iso,      \* ids whose directory under iso_root holds an ISO
  files,    \* directory -> role -> content
  act,      \* the actors
  lock,     \* the upload that holds SQLite's write lock, or "free"
  hurt,     \* history: directories whose files may be missing or damaged for good
  left,     \* history: directories where an actor left files it will not remove
  isoTaken, \* history: ids whose ISO was discarded by an earlier upload of that id, or
            \* removed by a deletion or a task that then could not write the row
  outlived  \* history: ids whose row was changed by an actor older than the row, or replaced
            \* one that was while somebody still aimed at it

rowVars  == <<rdir, status, entry, hasIso>>
history  == <<hurt, left, isoTaken, outlived>>
vars     == <<rdir, status, entry, hasIso, iso, files, act, lock, hurt, left, isoTaken, outlived>>

Exists(v)    == rdir[v] # NoDir
Free         == lock = "free"
Empty        == [r \in Roles |-> Missing]
EntryOf(d)   == [r \in Roles |-> d]

\* An actor; the last three are a scan's: the entries it has in memory, the directories
\* it has yet to visit, and whether the OS type boots as Windows.
Idle  == [pc |-> "idle", ver |-> 0, dir |-> NoDir, saved |-> {}, role |-> "none",
          ready |-> {}, index |-> [v \in Ids |-> NoDir],
          memory |-> <<>>, todo |-> {}, windows |-> FALSE]
Ended == [Idle EXCEPT !.pc = "ended"]

JobPlaces == {"tool", "unpacked", "found", "purged", "failing"}

InUse(d)     == {v \in Ids : Exists(v) /\ \E r \in Roles : entry[v][r] = d}
Become(a, p) == act' = [act EXCEPT ![a].pc = p]
End(a)       == act' = [act EXCEPT ![a] = Ended]
Marked(v, s) == IF Exists(v) THEN [status EXCEPT ![v] = s] ELSE status
Put(d, r, c) == files' = [files EXCEPT ![d][r] = c]
\* The end of a write to a file opened before: one unlinked meanwhile stays away.
Close(d, r, c) == Put(d, r, IF files[d][r] = Missing THEN Missing ELSE c)

\* What an actor keeps of the label's directory of its version.
Own(v) == [Idle.index EXCEPT ![v] = rdir[v]]

\* Actors that work in a directory.
In(d) == {a \in Actors : act[a].dir = d \/ (act[a].pc = "deleting" /\ act[a].ver = d)}
Deletions(d) == {a \in In(d) : act[a].pc = "deleting"}

\* The paths a scan is about to record: those that are not as it has read them.
HasRead(a, v)    == v \in DOMAIN act[a].memory
Records(a, v, r) == HasRead(a, v) /\ act[a].memory[v].paths[r] # act[a].memory[v].read[r]
Seen(d) == {a \in Actors : \E v \in Ids, r \in Roles :
                             Records(a, v, r) /\ act[a].memory[v].paths[r] = d}

\* At first nobody is at work, and the disk has what the rows say: any rows may have
\* been left by what happened before.
Init ==
  /\ rdir \in [Ids -> Labels \cup {NoDir}]
  /\ status \in [Ids -> {"absent", "uploaded", "ready"}]
  /\ \A v \in Ids : Exists(v) <=> status[v] # "absent"
  /\ hasIso = {v \in Ids : Exists(v)} /\ iso = hasIso
  /\ LET user(d) == {v \in Ids : rdir[v] = d /\ status[v] = "ready"}
     IN /\ entry = [v \in Ids |-> EntryOf(IF v \in user(rdir[v]) THEN rdir[v] ELSE NoDir)]
        /\ files \in [Dirs -> [Roles -> Ids \cup {Missing}]]
        /\ \A d \in Dirs, r \in Roles :
             IF user(d) = {} THEN files[d][r] = Missing ELSE files[d][r] \in user(d)
  /\ act = [a \in Actors |-> Idle]
  /\ lock = "free"
  /\ hurt = {} /\ left = {} /\ isoTaken = {} /\ outlived = {}
-----------------------------------------------------------------------------
(***************************************************************************)
(* upload_iso                                                              *)
(***************************************************************************)
\* SQLite's next id.  The row of an upload under way is not committed, so the
\* id is given again when that upload is rolled back.
NextId_Count == 1 + Cardinality({v \in Ids : Exists(v)})   \* faulty
NextId == 1 + Cardinality({v \in Ids : \E w \in Ids : w >= v /\ Exists(w)})

\* db.flush takes the id and the write lock; the ISO file is written first.
UploadBegins(a, d, withIso) ==
  /\ act[a].pc = "idle" /\ Free /\ NextId \in Ids
  /\ act' = [act EXCEPT ![a] = [Idle EXCEPT !.pc = "writing", !.ver = NextId, !.dir = d,
                                            !.role = IF withIso THEN "iso" ELSE "none",
                                            !.index = Own(NextId)]]
  /\ lock' = a
  /\ UNCHANGED <<rowVars, iso, files, history>>

UploadWritesIso(a) ==
  /\ act[a].pc = "writing" /\ act[a].role = "iso"
  /\ iso' = iso \cup {act[a].ver}
  /\ act' = [act EXCEPT ![a].role = "none", ![a].saved = {"iso"}]
  /\ UNCHANGED <<rowVars, files, lock, history>>

\* save_boot_file: opened for writing, then noted as written once complete.
UploadOpens(a, r) ==
  /\ act[a].pc = "writing" /\ act[a].role = "none" /\ r \notin act[a].saved
  /\ Put(act[a].dir, r, Half)
  /\ act' = [act EXCEPT ![a].role = r]
  /\ UNCHANGED <<rowVars, iso, lock, history>>

UploadSaves(a) ==
  /\ act[a].pc = "writing" /\ act[a].role \in Roles
  /\ Close(act[a].dir, act[a].role, act[a].ver)
  /\ act' = [act EXCEPT ![a].role = "none", ![a].saved = @ \cup {act[a].role}]
  /\ UNCHANGED <<rowVars, iso, lock, history>>

UploadCommits(a) ==
  LET v == act[a].ver
      boot == act[a].saved \cap Roles
  IN /\ act[a].pc = "writing" /\ act[a].role = "none"
     /\ rdir' = [rdir EXCEPT ![v] = act[a].dir]
     /\ status' = [status EXCEPT ![v] = IF boot # {} THEN "ready" ELSE "uploaded"]
     /\ entry' = [entry EXCEPT ![v] = [r \in Roles |-> IF r \in boot THEN act[a].dir ELSE NoDir]]
     /\ hasIso' = IF "iso" \in act[a].saved THEN hasIso \cup {v} ELSE hasIso \ {v}
     /\ lock' = "free"
     /\ outlived' = IF \E b \in Actors \ {a} : act[b].ver = v THEN outlived ELSE outlived \ {v}
     /\ left' = IF Deletions(act[a].dir) # {} THEN left \cup {act[a].dir} ELSE left
     /\ End(a)
     /\ UNCHANGED <<iso, files, hurt, isoTaken>>

\* Disk full, file too large, client gone: the row is rolled back, and another
\* process may begin before the files are discarded.
UploadFails(a) ==
  /\ act[a].pc = "writing"
  /\ Become(a, "discarding")
  /\ lock' = "free"
  /\ UNCHANGED <<rowVars, iso, files, history>>

\* _discard_partial_iso_upload: the ISO directory of the id, and by path the boot
\* files noted as written; a file that was still open stays.
DiscardedFiles(a) == act[a].saved \cap Roles

UploadDiscards(a) ==
  LET v == act[a].ver
      d == act[a].dir
      wroteIso == act[a].role = "iso" \/ "iso" \in act[a].saved
      wrote    == act[a].saved \cap Roles
      half     == act[a].role \in Roles
  IN /\ act[a].pc = "discarding"
     /\ iso' = IF wroteIso THEN iso \ {v} ELSE iso
     /\ files' = [files EXCEPT ![d] = [r \in Roles |-> IF r \in DiscardedFiles(a) THEN Missing
                                                       ELSE @[r]]]
     /\ hurt' = IF half \/ (wrote # {} /\ (InUse(d) # {} \/ In(d) # {a} \/ Seen(d) # {}))
               THEN hurt \cup {d} ELSE hurt
     /\ left' = IF half THEN left \cup {d} ELSE left
     /\ isoTaken' = IF wroteIso /\ act[a].index[v] = NoDir /\ (v \in hasIso \/ \E b \in Actors \ {a} : act[b].ver = v)
                    THEN isoTaken \cup {v} ELSE isoTaken
     /\ End(a)
     /\ UNCHANGED <<rowVars, lock, outlived>>
-----------------------------------------------------------------------------
(***************************************************************************)
(* extract_iso_task (IsoJobs has the rows of its job)                      *)
(***************************************************************************)
\* The extract route, and the message it sends.
ExtractQueued(a, v) ==
  /\ act[a].pc = "idle" /\ Free
  /\ Exists(v) /\ v \in hasIso /\ v \in iso
  /\ status' = [status EXCEPT ![v] = "extracting"]
  /\ act' = [act EXCEPT ![a] = [Idle EXCEPT !.pc = "queued", !.ver = v]]
  /\ UNCHANGED <<rdir, entry, hasIso, iso, files, lock, history>>

\* Without the row the task ends; without the ISO extract_iso raises.
TaskStarts(a) ==
  LET v == act[a].ver
  IN /\ act[a].pc = "queued" /\ Free
     /\ status' = Marked(v, "extracting")
     /\ IF ~Exists(v) THEN End(a)
        ELSE act' = [act EXCEPT ![a].pc = IF v \in iso THEN "tool" ELSE "failing",
                                ![a].dir = rdir[v]]
     /\ UNCHANGED <<rdir, entry, hasIso, iso, files, lock, history>>

\* extract_iso_archive: the tool writes over what is there.
ToolWrites(a, r) ==
  LET d == act[a].dir
  IN /\ act[a].pc = "tool"
     /\ \E c \in {Half, act[a].ver} : files[d][r] # c /\ Put(d, r, c)
     /\ UNCHANGED <<rowVars, iso, act, lock, history>>

\* An exit code of 1 counts as success (for xorriso 5 and 32 too), whatever has
\* been left out or cut short.
ToolSucceeds(a) ==
  LET d == act[a].dir
  IN /\ act[a].pc = "tool"
     /\ Become(a, "unpacked")
     /\ hurt' = IF \E r \in Roles : files[d][r] = Half THEN hurt \cup {d} ELSE hurt
     /\ UNCHANGED <<rowVars, iso, files, lock, left, isoTaken, outlived>>

\* _wipe_dest_for_retry: the tool has failed, and the other one begins.
ToolRetries(a) ==
  LET d == act[a].dir
  IN /\ act[a].pc = "tool"
     /\ files' = [files EXCEPT ![d] = Empty]
     /\ UNCHANGED <<rowVars, iso, act, lock, history>>

\* The finders (module Extraction), all files required.
Found_Any(d) == TRUE   \* faulty
Found(d) == \A r \in Roles : files[d][r] # Missing

TaskFinds(a) ==
  /\ act[a].pc = "unpacked"
  /\ Become(a, IF Found(act[a].dir) THEN "found" ELSE "failing")
  /\ UNCHANGED <<rowVars, iso, files, lock, history>>

\* With delete_iso_after_next_extract the ISO goes first and the row follows with the
\* commit; it stays when the row, as read before, names a file of another name.
TaskPurges(a) ==
  LET v == act[a].ver
  IN /\ act[a].pc = "found" /\ v \in iso
     /\ iso' = iso \ {v}
     /\ isoTaken' = IF \E b \in Actors : act[b].pc = "writing" /\ act[b].ver = v
                    THEN isoTaken \cup {v} ELSE isoTaken
     /\ Become(a, "purged")
     /\ UNCHANGED <<rowVars, files, lock, hurt, left, outlived>>

\* A row that is gone makes the commit fail; one that came back under the same id
\* takes the result of the old version.
TaskCommits(a) ==
  LET v == act[a].ver
      d == act[a].dir
  IN /\ act[a].pc \in {"found", "purged"} /\ Free /\ Exists(v)
     /\ entry' = [entry EXCEPT ![v] = EntryOf(d)]
     /\ status' = [status EXCEPT ![v] = "ready"]
     /\ hasIso' = IF act[a].pc = "purged" THEN hasIso \ {v} ELSE hasIso
     /\ hurt' = IF In(d) = {a} /\ rdir[v] = d /\ \A r \in Roles : files[d][r] \notin {Missing, Half}
               THEN hurt \ {d} ELSE hurt
     /\ outlived' = IF rdir[v] # d THEN outlived \cup {v} ELSE outlived
     /\ left' = IF rdir[v] # d \/ Deletions(d) # {} THEN left \cup {d} ELSE left
     /\ End(a)
     /\ UNCHANGED <<rdir, iso, files, lock, isoTaken>>

\* The row is gone, or the write lock is held for more than 30 s.
TaskCommitFails(a) ==
  LET v == act[a].ver
  IN /\ act[a].pc \in {"found", "purged"} /\ (~Free \/ ~Exists(v))
     /\ isoTaken' = IF act[a].pc = "purged" /\ Exists(v) THEN isoTaken \cup {v} ELSE isoTaken
     /\ Become(a, "failing")
     /\ UNCHANGED <<rowVars, iso, files, lock, hurt, left, outlived>>

\* The exception handler, for the tool or for a step after it; its own commit can fail,
\* silently.
TaskFails(a) ==
  LET v == act[a].ver
      d == act[a].dir
  IN /\ act[a].pc \in {"tool", "failing"}
     /\ status' = IF Free THEN Marked(v, "error") ELSE status
     /\ hurt' = hurt \cup {d}
     /\ left' = left \cup {d}
     /\ End(a)
     /\ UNCHANGED <<rdir, entry, hasIso, iso, files, lock, isoTaken, outlived>>
-----------------------------------------------------------------------------
(***************************************************************************)
(* upload_boot_file and replace_boot_wim: the form is complete, the file   *)
(* is copied into place, then the entry and the status are committed.      *)
(***************************************************************************)
HandOpens(a, v, r) ==
  /\ act[a].pc = "idle" /\ Exists(v)
  /\ Put(rdir[v], r, Half)
  /\ act' = [act EXCEPT ![a] = [Idle EXCEPT !.pc = "hand", !.ver = v, !.dir = rdir[v], !.role = r,
                                            !.ready = {w \in {v} : status[w] = "ready"},
                                            !.index = Own(v)]]
  /\ UNCHANGED <<rowVars, iso, lock, history>>

\* replace_boot_wim: over the recorded file where that is on disk, else over any of
\* that name in the version's directory; the status stays as it is.
Replaced(v, r) == IF entry[v][r] # NoDir /\ files[entry[v][r]][r] # Missing THEN entry[v][r]
                  ELSE rdir[v]

ReplaceOpens(a, v, r) ==
  LET d == Replaced(v, r)
  IN /\ act[a].pc = "idle" /\ Exists(v)
     /\ Put(d, r, Half)
     /\ act' = [act EXCEPT ![a] = [Idle EXCEPT !.pc = "hand", !.ver = v, !.dir = d, !.role = r,
                                               !.ready = {v}, !.index = Own(v)]]
     /\ UNCHANGED <<rowVars, iso, lock, history>>

HandWrites(a) ==
  /\ act[a].pc = "hand"
  /\ Close(act[a].dir, act[a].role, act[a].ver)
  /\ Become(a, "written")
  /\ UNCHANGED <<rowVars, iso, lock, history>>

\* The status is only written when it was not ready when the request read it.
HandCommits(a) ==
  LET v == act[a].ver
      d == act[a].dir
  IN /\ act[a].pc = "written" /\ Free /\ Exists(v)
     /\ entry' = [entry EXCEPT ![v][act[a].role] = d]
     /\ status' = IF v \in act[a].ready THEN status ELSE [status EXCEPT ![v] = "ready"]
     /\ outlived' = IF rdir[v] # act[a].index[v] THEN outlived \cup {v} ELSE outlived
     /\ left' = IF rdir[v] # act[a].index[v] \/ Deletions(d) # {} THEN left \cup {d} ELSE left
     /\ End(a)
     /\ UNCHANGED <<rdir, hasIso, iso, files, lock, hurt, isoTaken>>

HandFails(a) ==
  /\ act[a].pc = "written" /\ (~Free \/ ~Exists(act[a].ver))
  /\ left' = left \cup {act[a].dir}
  /\ End(a)
  /\ UNCHANGED <<rowVars, iso, files, lock, hurt, isoTaken, outlived>>
-----------------------------------------------------------------------------
(***************************************************************************)
(* delete_iso: the ISO, then the two boot directories (cleanup_boot_files),*)
(* and the row at last.                                                    *)
(***************************************************************************)
Cleaned_IdOnly(v) == {v}   \* faulty
Cleaned(v) == {rdir[v], v} \cap Dirs

DeleteFiles(a, v) ==
  /\ act[a].pc = "idle" /\ Exists(v)
  /\ iso' = iso \ {v}
  /\ files' = [d \in Dirs |-> IF d \in Cleaned(v) THEN Empty ELSE files[d]]
  /\ hurt' = hurt \cup {d \in Cleaned(v) : ~(InUse(d) \subseteq {v}) \/ In(d) # {} \/ Seen(d) # {}}
  /\ act' = [act EXCEPT ![a] = [Idle EXCEPT !.pc = "deleting", !.ver = v, !.dir = rdir[v]]]
  /\ UNCHANGED <<rowVars, lock, left, isoTaken, outlived>>

DeleteRow(a) ==
  LET v == act[a].ver
  IN /\ act[a].pc = "deleting" /\ Free /\ Exists(v)
     /\ rdir' = [rdir EXCEPT ![v] = NoDir]
     /\ status' = [status EXCEPT ![v] = "absent"]
     /\ entry' = [entry EXCEPT ![v] = EntryOf(NoDir)]
     /\ hasIso' = hasIso \ {v}
     /\ left' = IF rdir[v] # act[a].dir THEN left \cup {rdir[v]} ELSE left
     /\ End(a)
     /\ UNCHANGED <<iso, files, lock, hurt, isoTaken, outlived>>

\* An exception on the way, or no lock, or another request has deleted the row.
DeleteFails(a) ==
  LET v == act[a].ver
  IN /\ act[a].pc = "deleting"
     /\ hurt' = hurt \cup {act[a].dir, v}
     /\ isoTaken' = IF Exists(v) THEN isoTaken \cup {v} ELSE isoTaken
     /\ End(a)
     /\ UNCHANGED <<rowVars, iso, files, lock, left, outlived>>
-----------------------------------------------------------------------------
(***************************************************************************)
(* scan_and_register: the versions are read, the directories visited one   *)
(* by one, and one commit for all.  Another actor may come between two     *)
(* visits, and before the commit.                                          *)
(***************************************************************************)
\* The version a directory is taken for: the last one read whose slug or id it is,
\* an id going before the slug of an older version.
ScanOwner_Last(index, d) == {v \in Ids : index[v] # NoDir /\ \A w \in Ids : index[w] # NoDir => w <= v}   \* faulty
ScanOwner(index, d) ==
  LET known == {v \in Ids : index[v] # NoDir /\ d \in {index[v], v}}
  IN {v \in known : \A w \in known : w <= v}

\* No directory exists but those that labels lead to, and one that is nobody's is
\* skipped; the boot type is what the admin has set.
ScanReads(a) ==
  /\ act[a].pc = "idle" /\ \E v \in Ids : Exists(v)
  /\ \E b \in BOOLEAN :
       act' = [act EXCEPT ![a] = [Idle EXCEPT !.pc = "scanning", !.index = rdir, !.windows = b,
                                              !.ready = {v \in Ids : status[v] = "ready"},
                                              !.todo = {d \in Labels : ScanOwner(rdir, d) # {}}]]
  /\ UNCHANGED <<rowVars, iso, files, lock, history>>

\* The entry is read at the first visit to a directory of its version.
Known(a, v) == IF HasRead(a, v) THEN act[a].memory[v]
               ELSE [read |-> entry[v], paths |-> entry[v], changed |-> FALSE]

\* What is found in d replaces any path on Windows, and else fills the empty ones.
PathsWith(a, v, d) ==
  [r \in Roles |-> IF files[d][r] # Missing /\ (act[a].windows \/ Known(a, v).paths[r] = NoDir)
                   THEN d ELSE Known(a, v).paths[r]]

Updated(a, v, d) == [read |-> Known(a, v).read, paths |-> PathsWith(a, v, d),
                     changed |-> Known(a, v).changed \/ PathsWith(a, v, d) # Known(a, v).paths]

Remembered(a, v, d) ==
  [w \in DOMAIN act[a].memory \cup {v} |-> IF w = v THEN Updated(a, v, d) ELSE act[a].memory[w]]

\* upload_iso gives every version its boot_entries row: the one the scan would add for
\* a version without is refused, for the version itself is gone then.  The boot type is
\* forgotten with the last visit.
ScanVisits(a, d) ==
  /\ act[a].pc = "scanning"
  /\ d \in act[a].todo /\ \A e \in act[a].todo : d <= e
  /\ \E v \in ScanOwner(act[a].index, d) :
       /\ Exists(v) \/ HasRead(a, v)
       /\ act' = [act EXCEPT ![a].todo = @ \ {d}, ![a].memory = Remembered(a, v, d),
                             ![a].windows = @ /\ act[a].todo # {d}]
  /\ UNCHANGED <<rowVars, iso, files, lock, history>>

\* The rows the commit writes, each of which must still be there.
Readied(a) == {v \in Ids : HasRead(a, v) /\ act[a].memory[v].changed} \ act[a].ready
Written(a) == {v \in Ids : \E r \in Roles : Records(a, v, r)} \cup Readied(a)

ScanCommits(a) ==
  /\ act[a].pc = "scanning" /\ act[a].todo = {} /\ Free
  /\ \A v \in Written(a) : Exists(v)
  /\ entry' = [v \in Ids |-> [r \in Roles |-> IF Records(a, v, r) THEN act[a].memory[v].paths[r]
                                             ELSE entry[v][r]]]
  /\ status' = [v \in Ids |-> IF v \in Readied(a) THEN "ready" ELSE status[v]]
  /\ outlived' = outlived \cup {v \in Written(a) : rdir[v] # act[a].index[v]}
  /\ End(a)
  /\ UNCHANGED <<rdir, hasIso, iso, files, lock, hurt, left, isoTaken>>

\* A directory, a row or the lock that cannot be had: nothing is written.
ScanFails(a) ==
  /\ act[a].pc = "scanning"
  /\ End(a)
  /\ UNCHANGED <<rowVars, iso, files, lock, history>>
-----------------------------------------------------------------------------
\* A web process or the task's process dies: SQLite rolls back, files stay.  A scan or a
\* deletion that dies has failed (ScanFails, DeleteFails).
Crash(a) ==
  LET d == act[a].dir
  IN /\ act[a].pc \notin {"idle", "ended", "queued", "deleting", "scanning"}
     /\ lock' = IF lock = a THEN "free" ELSE lock
     /\ hurt' = hurt \cup ({d} \cap Dirs)
     /\ left' = left \cup ({d} \cap Dirs)
     /\ isoTaken' = IF act[a].pc = "purged" /\ Exists(act[a].ver)
                    THEN isoTaken \cup {act[a].ver} ELSE isoTaken
     /\ End(a)
     /\ UNCHANGED <<rowVars, iso, files, outlived>>

Next ==
  \E a \in Actors :
    \/ \E d \in Labels, b \in BOOLEAN : UploadBegins(a, d, b)
    \/ UploadWritesIso(a)
    \/ \E r \in Roles : UploadOpens(a, r) \/ ToolWrites(a, r)
    \/ UploadSaves(a) \/ UploadCommits(a) \/ UploadFails(a) \/ UploadDiscards(a)
    \/ \E v \in Ids : ExtractQueued(a, v) \/ DeleteFiles(a, v)
    \/ TaskStarts(a) \/ ToolSucceeds(a) \/ ToolRetries(a)
    \/ TaskFinds(a) \/ TaskPurges(a) \/ TaskCommits(a) \/ TaskCommitFails(a) \/ TaskFails(a)
    \/ \E v \in Ids, r \in Roles : HandOpens(a, v, r) \/ ReplaceOpens(a, v, r)
    \/ HandWrites(a) \/ HandCommits(a) \/ HandFails(a)
    \/ DeleteRow(a) \/ DeleteFails(a)
    \/ \E d \in Dirs : ScanVisits(a, d)
    \/ ScanReads(a) \/ ScanCommits(a) \/ ScanFails(a)
    \/ Crash(a)

Spec == Init /\ [][Next]_vars
-----------------------------------------------------------------------------
Places == {"idle", "ended", "writing", "discarding", "queued", "hand", "written", "deleting",
           "scanning"} \cup JobPlaces

\* Every file that the entry of a ready version names is on disk and complete, unless
\* somebody is at work in its directory, or files were lost there in one of the
\* known ways.
ReadyHasFiles ==
  \A v \in Ids : status[v] = "ready" =>
    \A r \in Roles : LET d == entry[v][r]
      IN d # NoDir /\ files[d][r] \in {Missing, Half} =>
           In(d) # {} \/ d \in hurt

\* When nobody is at work in a directory, its files belong to a version that exists,
\* or were left by an actor that failed, died or outlived its version.
NoStrayFiles ==
  \A d \in Dirs : files[d] # Empty /\ In(d) = {} =>
    d \in left \/ \E v \in Ids : Exists(v) /\ d \in {rdir[v], v}

\* A version whose row names an ISO has it, unless it is being deleted or purged after
\* its extraction, or an upload that failed discarded it, or a deletion or a purge could
\* not write the row in the end.
IsoOnDisk ==
  \A v \in hasIso : v \in iso \/ v \in isoTaken
    \/ \E a \in Actors : act[a].pc \in {"deleting", "purged"} /\ act[a].ver = v

\* The files of an entry are in the version's own directory or the one named by its
\* id, unless an actor that began before the row was made has written to it (or to the
\* one before, of whose paths somebody still held one).
EntryInOwnDir ==
  \A v \in Ids : Exists(v) /\ v \notin outlived =>
    \A r \in Roles : entry[v][r] \in {NoDir, rdir[v], v}

\* app/routers/isos.py:339: "Efface dossier ISO et fichiers boot écrits pendant un
\* upload incomplet": what a failed upload discards is what that upload wrote, never
\* the ISO of a version that exists.
DiscardsOwnIso ==
  [][\A a \in Actors : act[a].pc = "discarding" /\ act'[a].pc = "ended" =>
       \A v \in hasIso : v \in iso => v \in iso']_vars
=============================================================================
