---------------------------- MODULE DriverStore ----------------------------
(***************************************************************************)
(* Drivers: boot/drivers/<slug>/ and drivers.json, which gives each label  *)
(* of a machine its folder.  An upload is received under a name made of    *)
(* its row's id, then a Celery task unpacks it, rebuilds the catalogue     *)
(* from the folders and forces the label.  Whoever reads a catalogue that  *)
(* is not there, or is no JSON, rebuilds it too.                           *)
(***************************************************************************)
EXTENDS Integers, FiniteSets

CONSTANTS
  Slugs,          \* folders, numbered in the order of their names
  Labels,
  DefaultLabel,   \* slug -> label made from the name of the folder
  Machines,       \* labels and slugs one may enter as new: [label, slug]
  DriverUploads,  \* bound: the uploads, positive numbers
  ByHand,         \* folders somebody may have copied to the share
  Viewers,        \* bound: readers of the catalogue, other numbers
  Unreadable

ASSUME DriverAssumption ==
  /\ Slugs \subseteq Nat \ {0} /\ IsFiniteSet(Slugs) /\ \A s \in Slugs : s <= Cardinality(Slugs)
  /\ "none" \notin Labels /\ Unreadable \notin [Labels -> Slugs \cup {0}]
  /\ DefaultLabel \in [Slugs -> Labels] /\ Machines \subseteq [label : Labels, slug : Slugs]
  /\ DriverUploads \subseteq Nat \ {0} /\ IsFiniteSet(DriverUploads)
  /\ Viewers \cap DriverUploads = {}

VARIABLES
  folder,   \* slug -> "absent", "empty" or "drivers" (it holds an .inf)
  json,     \* drivers.json: label -> slug, 0 none; Unreadable: no JSON, or no file
  dpart,    \* id -> _staging/<id>.zip.part
  dop,      \* uploads and readers
  drow,     \* Upload.status
  dlock,    \* the upload that holds the write lock, or 0
  draced,   \* history: two changes of the catalogue overlapped, or one failed
  hit       \* history: uploads whose file a failed upload removed

dvars == <<folder, json, dpart, dop, drow, dlock, draced, hit>>

Actors == DriverUploads \cup Viewers
NoLabels == [l \in Labels |-> 0]
IdleActor == [pc |-> "idle", label |-> "none", slug |-> 0, id |-> 0, then |-> "none", seen |-> NoLabels]
Ids == 1..Cardinality(DriverUploads)

DriverInit ==
  /\ \E there \in SUBSET ByHand : folder = [s \in Slugs |-> IF s \in there THEN "drivers" ELSE "absent"]
  /\ json = Unreadable
  /\ dpart = [i \in Ids |-> 0]
  /\ dop = [a \in Actors |-> IdleActor]
  /\ drow = [u \in DriverUploads |-> "none"]
  /\ dlock = 0 /\ draced = FALSE /\ hit = {}

DAt(a, p) == dop[a].pc = p
DGo(a, p) == dop' = [dop EXCEPT ![a].pc = p]
Readable == json # Unreadable /\ json # NoLabels
Present == {s \in Slugs : folder[s] # "absent"}
-----------------------------------------------------------------------------
(***************************************************************************)
(* The catalogue                                                           *)
(***************************************************************************)
\* rebuild_catalog: each folder keeps its label or takes the default; of two folders
\* with one label the last one stays; entries whose folder exists are kept.
Rebuilt_Default ==   \* faulty: the labels that were given are dropped
  [l \in Labels |-> LET s == {x \in Present : DefaultLabel[x] = l}
                    IN IF s = {} THEN 0 ELSE CHOOSE x \in s : \A y \in s : x >= y]
Rebuilt ==
  LET old == IF Readable THEN json ELSE NoLabels
      Given(s) == {l \in Labels : old[l] = s}
      LabelOf(s) == IF Given(s) = {} THEN DefaultLabel[s] ELSE CHOOSE l \in Given(s) : TRUE
      Of(l) == {s \in Present : LabelOf(s) = l}
  IN [l \in Labels |-> IF Of(l) # {} THEN CHOOSE s \in Of(l) : \A t \in Of(l) : s >= t
                       ELSE IF old[l] \in Present THEN old[l] ELSE 0]

\* upsert_catalog_label: the folder has this label and no other.
Upserted(cat, label, slug) ==
  [l \in Labels |-> IF l = label THEN slug ELSE IF cat[l] = slug THEN 0 ELSE cat[l]]

InWindow == {a \in Actors : dop[a].pc \in {"truncating", "writing"}}

ReadAndScan(a) ==
  /\ DAt(a, "rebuilding")
  /\ dop' = [dop EXCEPT ![a].pc = "truncating", ![a].seen = Rebuilt]
  /\ draced' = (draced \/ InWindow # {})
  /\ UNCHANGED <<folder, json, dpart, drow, dlock, hit>>

TruncateJson(a) ==
  /\ DAt(a, "truncating") /\ DGo(a, "writing")
  /\ json' = Unreadable
  /\ UNCHANGED <<folder, dpart, drow, dlock, draced, hit>>

WriteJson(a) ==
  /\ DAt(a, "writing")
  /\ json' = dop[a].seen
  /\ dop' = IF dop[a].then = "upsert"
            THEN [dop EXCEPT ![a].pc = "truncating", ![a].then = "commit",
                             ![a].seen = Upserted(dop[a].seen, dop[a].label, dop[a].slug)]
            ELSE [dop EXCEPT ![a].pc = CASE dop[a].then = "load" -> "loading"
                                         [] dop[a].then = "commit" -> "committing"
                                         [] OTHER -> "ended",
                             ![a].seen = NoLabels]
  /\ UNCHANGED <<folder, dpart, drow, dlock, draced, hit>>

WriteJsonFails(a) ==
  /\ DAt(a, "writing")
  /\ dop' = [dop EXCEPT ![a].pc = IF a \in DriverUploads THEN "failing" ELSE "ended",
                        ![a].seen = NoLabels]
  /\ draced' = TRUE
  /\ UNCHANGED <<folder, json, dpart, drow, dlock, hit>>

\* load_catalog in upsert_catalog_label: another rebuild when the file cannot be read.
LoadForUpsert(u) ==
  /\ DAt(u, "loading")
  /\ dop' = IF Readable
            THEN [dop EXCEPT ![u].pc = "truncating", ![u].then = "commit",
                             ![u].seen = Upserted(json, dop[u].label, dop[u].slug)]
            ELSE [dop EXCEPT ![u].pc = "rebuilding", ![u].then = "upsert"]
  /\ draced' = (draced \/ InWindow # {})
  /\ UNCHANGED <<folder, json, dpart, drow, dlock, hit>>

\* catalog_for_template, for a page or its catalogue.
View(v) ==
  /\ DAt(v, "idle") /\ ~Readable
  /\ dop' = [dop EXCEPT ![v].pc = "rebuilding", ![v].then = "end"]
  /\ UNCHANGED <<folder, json, dpart, drow, dlock, draced, hit>>
-----------------------------------------------------------------------------
(***************************************************************************)
(* upload_winpe_drivers                                                    *)
(***************************************************************************)
\* An existing label, or a new one whose folder is made at once.
Resolve(label, slug) ==
  \/ Readable /\ json[label] = slug
  \/ [label |-> label, slug |-> slug] \in Machines

\* SQLite gives the id after the last one committed.
NextId == 1 + Cardinality({u \in DriverUploads : drow[u] # "none"})

BeginCopy_Unlocked(u, label, slug) ==   \* faulty: the row is not flushed first
  /\ DAt(u, "idle") /\ Resolve(label, slug)
  /\ folder' = IF folder[slug] = "absent" THEN [folder EXCEPT ![slug] = "empty"] ELSE folder
  /\ dop' = [dop EXCEPT ![u] = [IdleActor EXCEPT !.pc = "copying", !.label = label,
                                                 !.slug = slug, !.id = NextId]]
  /\ dpart' = [dpart EXCEPT ![NextId] = -u]
  /\ UNCHANGED <<json, drow, dlock, draced, hit>>
BeginCopy(u, label, slug) ==
  /\ DAt(u, "idle") /\ dlock = 0 /\ Resolve(label, slug)
  /\ folder' = IF folder[slug] = "absent" THEN [folder EXCEPT ![slug] = "empty"] ELSE folder
  /\ dop' = [dop EXCEPT ![u] = [IdleActor EXCEPT !.pc = "copying", !.label = label,
                                                 !.slug = slug, !.id = NextId]]
  /\ dlock' = u
  /\ dpart' = [dpart EXCEPT ![NextId] = -u]
  /\ UNCHANGED <<json, drow, draced, hit>>

Copied(u) ==
  /\ DAt(u, "copying") /\ DGo(u, "sending")
  /\ dpart' = [i \in Ids |-> IF dpart[i] = -u THEN u ELSE dpart[i]]
  /\ drow' = [drow EXCEPT ![u] = "processing"]
  /\ dlock' = 0
  /\ UNCHANGED <<folder, json, draced, hit>>

\* Too big, empty, or the disk is full: rollback, which frees the id.
CopyFails(u) ==
  /\ DAt(u, "copying") /\ DGo(u, "discarding")
  /\ dlock' = 0
  /\ UNCHANGED <<folder, json, dpart, drow, draced, hit>>

SendZip(u) ==
  /\ DAt(u, "sending")
  /\ DGo(u, "queued") \/ DGo(u, "discarding")
  /\ UNCHANGED <<folder, json, dpart, drow, dlock, draced, hit>>

\* The part file goes by its name, which another upload may bear by now.
DiscardZip(u) ==
  /\ DAt(u, "discarding") /\ dop' = [dop EXCEPT ![u] = [IdleActor EXCEPT !.pc = "ended"]]
  /\ dpart' = [dpart EXCEPT ![dop[u].id] = 0]
  /\ hit' = hit \cup {v \in DriverUploads \ {u} : dpart[dop[u].id] \in {v, -v}}
  /\ UNCHANGED <<folder, json, drow, dlock, draced>>
-----------------------------------------------------------------------------
(***************************************************************************)
(* upload_winpe_drivers_zip_task                                           *)
(***************************************************************************)
ZipTaskStarts(u) ==
  /\ DAt(u, "queued")
  /\ IF dlock = 0 THEN DGo(u, "unpacking") ELSE DGo(u, "failing")
  /\ UNCHANGED <<folder, json, dpart, drow, dlock, draced, hit>>

\* safe_extract_zip_archive merges with what is there, and counts the .inf of the whole
\* folder; no archive, a bad one or too large a member ends it, with what was unpacked.
Unpack(u) ==
  LET s == dop[u].slug
  IN /\ DAt(u, "unpacking")
     /\ \/ DGo(u, "failing") /\ UNCHANGED folder
        \/ /\ dpart[dop[u].id] # 0
           /\ folder' = [folder EXCEPT ![s] = "drivers"]
           /\ \/ DGo(u, "failing")
              \/ dop' = [dop EXCEPT ![u].pc = "rebuilding", ![u].then = "load"]
     /\ UNCHANGED <<json, dpart, drow, dlock, draced, hit>>

\* The size is that of the part file, which must still be there.
ZipTaskCommits(u) ==
  /\ DAt(u, "committing")
  /\ IF dlock = 0 /\ dpart[dop[u].id] # 0
     THEN DGo(u, "cleaning") /\ drow' = [drow EXCEPT ![u] = "done"]
     ELSE DGo(u, "failing") /\ UNCHANGED drow
  /\ UNCHANGED <<folder, json, dpart, dlock, draced, hit>>

ZipTaskFails(u) ==
  /\ DAt(u, "failing") /\ DGo(u, "cleaning")
  /\ drow' = IF dlock = 0 THEN [drow EXCEPT ![u] = "error"] ELSE drow
  /\ UNCHANGED <<folder, json, dpart, dlock, draced, hit>>

ZipTaskCleans(u) ==
  /\ DAt(u, "cleaning") /\ DGo(u, "ended")
  /\ dpart' = [dpart EXCEPT ![dop[u].id] = 0]
  /\ UNCHANGED <<folder, json, drow, dlock, draced, hit>>

DriverNext ==
  \/ \E u \in DriverUploads :
       \/ \E l \in Labels, s \in Slugs : BeginCopy(u, l, s)
       \/ Copied(u) \/ CopyFails(u) \/ SendZip(u) \/ DiscardZip(u)
       \/ ZipTaskStarts(u) \/ Unpack(u) \/ LoadForUpsert(u)
       \/ ZipTaskCommits(u) \/ ZipTaskFails(u) \/ ZipTaskCleans(u)
  \/ \E v \in Viewers : View(v)
  \/ \E a \in Actors : ReadAndScan(a) \/ TruncateJson(a) \/ WriteJson(a) \/ WriteJsonFails(a)
-----------------------------------------------------------------------------
(***************************************************************************)
(* Properties                                                              *)
(***************************************************************************)

\* Between its commit and its task an archive is there, whole and its own, unless the end
\* of a failed upload that had the same id removed it (upload_winpe_drivers).
ArchiveAwaitsItsTask ==
  \A u \in DriverUploads :
    dop[u].pc \in {"sending", "queued", "unpacking"} => dpart[dop[u].id] = u \/ u \in hit

\* While nobody changes drivers.json, the label of an upload that is done names the folder
\* its drivers are in, unless two changes overlapped (or one failed), another upload took
\* the label or the folder, or a folder bears that label by default.
DoneIsListed ==
  InWindow = {} /\ ~draced =>
    \A u \in DriverUploads :
      LET l == dop[u].label
          s == dop[u].slug
      IN drow[u] = "done" =>
           \/ json # Unreadable /\ json[l] = s
           \/ \E v \in DriverUploads \ {u} : dop[v].label = l \/ dop[v].slug = s
           \/ \E t \in Present \ {s} : DefaultLabel[t] = l
=============================================================================
