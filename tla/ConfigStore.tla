---------------------------- MODULE ConfigStore ----------------------------
(***************************************************************************)
(* The automatic configurations of one version (routers/configs.py,        *)
(* services/config_scanner.py, services/autoconfig_publish.py,             *)
(* services/esxi_autoconfig.py): their rows, their files under configs/,   *)
(* the one that is active and the seed of it under boot/, which another    *)
(* extraction of the version writes too (services/iso_extractor.py,        *)
(* tasks/jobs.py), and under ESXi the regeneration of the menus            *)
(* (services/menu_generator.py).                                           *)
(*                                                                         *)
(* The requests run in two web processes, extractions and regenerations in *)
(* Celery; each is a request here.  Inside a process nothing else runs     *)
(* meanwhile; between processes every file operation and every commit is a *)
(* step.  A create holds SQLite's write lock from its flush to its commit; *)
(* an edit or a delete takes it only to commit.                            *)
(*                                                                         *)
(* Four families of operating systems behave differently: Ubuntu writes a  *)
(* directory of two files and copies them under boot/; Proxmox always      *)
(* writes answer.toml, copies it and queues an injection (ProxmoxInject);  *)
(* ESXi always writes ks.cfg and names it in the boot configuration; a     *)
(* custom type names the file after the label of the configuration.        *)
(*                                                                         *)
(* A content is the number of the push that carried it.                    *)
(***************************************************************************)
EXTENDS Naturals, FiniteSets, FiniteSetsExt, Functions, SequencesExt

CONSTANTS
    Webs,           \* the processes, of the web or of Celery
    MaxId,          \* ids of rows are 1..MaxId
    MaxPushes,      \* bound: pushes; activations of Proxmox count too
    MaxRequests     \* bound: requests; both for each family

ASSUME ConfigAssumption ==
    /\ IsFiniteSet(Webs)
    /\ MaxId \in Nat \ {0}
    /\ {MaxPushes, MaxRequests} \subseteq [{"ubuntu", "proxmox", "esxi", "custom"} -> Nat]

VARIABLES
    os,         \* the family of the version's operating system
    rows,       \* id -> [path, text], the committed rows
    files,      \* path -> [main, meta], the files under configs/
    active,     \* active_autoconfig_id of the version, or 0
    seed,       \* boot/: [main, meta, ks, body]
    taken,      \* what an extraction took from boot/ and nobody put back
    lock,       \* the holder of SQLite's write lock, or the empty set
    req,        \* the request of each process
    pushes,     \* pushes so far
    spent,      \* requests so far
    crossed     \* two requests that disturb each other ran at once

cvars == <<os, rows, files, active, seed, taken, lock, req, pushes, spent, crossed>>
disk  == <<files, seed, taken>>
base  == <<rows, active, lock>>

Systems == {"ubuntu", "proxmox", "esxi", "custom"}
Ids     == 1..MaxId
ByHand  == MaxPushes[os] + 1     \* the content of a file no push wrote
Texts   == 1..ByHand

(* A path: a base name and the id appended to it, 0 when none is.          *)
NoPath     == <<"", 0>>
Labels     == {"a", "b"}
ForcedName == CASE os = "proxmox" -> <<"answer.toml", 0>>
                [] os = "esxi"    -> <<"ks.cfg", 0>>
                [] OTHER          -> NoPath
Bundles    == {<<"config", n>> : n \in 1..MaxId + 1}
Paths      == Labels \X (0..MaxId) \cup Bundles
                  \cup {<<"answer.toml", 0>>, <<"ks.cfg", 0>>, <<"other.cfg", 0>>}

(* Nothing, or a file an administrator put there by hand.                  *)
InitFiles == {[p \in {} |-> NoPath]} \cup
             {[p \in {q} |-> [main |-> ByHand, meta |-> ByHand]] :
                 q \in CASE os = "ubuntu" -> {<<"config", 2>>}
                         [] os = "esxi"   -> {<<"other.cfg", 0>>}
                         [] OTHER         -> {}}

NoSeed  == [main |-> 0, meta |-> 0, ks |-> NoPath, body |-> TRUE]
NoReq   == [at |-> "idle", kind |-> "none", id |-> 0, path |-> NoPath, text |-> 0,
            was |-> FALSE, body |-> TRUE, known |-> {}]
Steps   == {"idle", "flush", "write", "meta", "mirror", "commit", "publish", "pubmain",
            "pubmeta", "setactive", "answer", "upload", "send", "record", "unlink",
            "drop", "unseed", "bootread", "truncate", "rewrite", "unset", "import",
            "unpack", "restore"}
Kinds   == {"none", "create", "edit", "delete", "activate", "clear", "scan", "extract", "refresh"}

(* The seed of Ubuntu; the ks= argument of ESXi, or its boot configuration *)
(* altogether.                                                             *)
Losses  == {"nothing", "seed", "ks", "cfg"}

ConfigInit ==
    /\ os \in Systems
    /\ files \in InitFiles
    /\ rows = [i \in {} |-> 0] /\ active = 0 /\ seed = NoSeed /\ taken = "nothing"
    /\ lock = {} /\ req = [w \in Webs |-> NoReq]
    /\ pushes = 0 /\ spent = 0 /\ crossed = FALSE

At(w, s)   == req[w].at = s
Go(w, s)   == req' = [req EXCEPT ![w].at = s]
End(w)     == req' = [req EXCEPT ![w] = NoReq]
Unlocked   == lock = {}
CanWrite(w) == lock \subseteq {w}
QuietWeb   == \A w \in Webs : At(w, "idle")

----------------------------------------------------------------------------
(* Requests begin.                                                         *)

(* Pairs of requests that overlap without harm: two edits, or an edit and  *)
(* a create or a scan of Ubuntu, whose bundles never change name, and any  *)
(* of them and an extraction; two creates of a custom type, which SQLite's *)
(* lock puts in order; under Proxmox all but a delete.                     *)
Benign(j, k) ==
    \/ /\ os = "ubuntu" /\ {j, k} \subseteq {"edit", "create", "scan", "extract"}
       /\ {"edit", "extract"} \cap {j, k} # {} /\ {j, k} # {"extract"}
    \/ os = "custom" /\ j = "create" /\ k = "create"
    \/ os = "proxmox" /\ "delete" \notin {j, k}

Begin(w, r) ==
    /\ At(w, "idle") /\ spent < MaxRequests[os]
    /\ spent' = spent + 1
    /\ req' = [req EXCEPT ![w] = r]
    /\ crossed' = (crossed \/ \E v \in Webs \ {w} : ~At(v, "idle") /\ ~Benign(req[v].kind, r.kind))
    /\ UNCHANGED <<os, disk, base>>

(* next_ubuntu_cloud_slug: the number of rows plus one.                    *)
NextSlug == <<"config", Cardinality(DOMAIN rows) + 1>>
Taken(p) == \E i \in DOMAIN rows : rows[i].path = p

(* config_create.  A bundle whose slug a row has is refused.               *)
BeginCreate(w, p) ==
    /\ pushes < MaxPushes[os]
    /\ os = "ubuntu" => ~Taken(p)
    /\ pushes' = pushes + 1
    /\ Begin(w, [NoReq EXCEPT !.at = "flush", !.kind = "create", !.path = p, !.text = pushes + 1])

(* config_update.                                                          *)
BeginEdit(w, i, p) ==
    /\ pushes < MaxPushes[os] /\ i \in DOMAIN rows
    /\ pushes' = pushes + 1
    /\ Begin(w, [NoReq EXCEPT !.at = "write", !.kind = "edit", !.id = i, !.text = pushes + 1,
                              !.path = IF os = "ubuntu" THEN rows[i].path ELSE p])

(* config_delete reads whether the row is the active one before all else.  *)
BeginDelete(w, i) ==
    /\ i \in DOMAIN rows
    /\ Begin(w, [NoReq EXCEPT !.at = "unlink", !.kind = "delete", !.id = i,
                              !.path = rows[i].path, !.was = (active = i)])
    /\ UNCHANGED pushes

(* iso_activate_config, iso_clear_active_config, config_scan.              *)
BeginActivate(w, i) ==
    /\ i \in DOMAIN rows /\ os # "custom"
    /\ os = "proxmox" => pushes < MaxPushes[os]
    /\ pushes' = pushes + (IF os = "proxmox" THEN 1 ELSE 0)
    /\ Begin(w, [NoReq EXCEPT !.kind = "activate", !.id = i, !.path = rows[i].path,
                              !.at = CASE os = "ubuntu"  -> "publish"
                                       [] os = "proxmox" -> "setactive"
                                       [] OTHER          -> "bootread"])

BeginClear(w) ==
    /\ os # "custom"
    /\ Begin(w, [NoReq EXCEPT !.kind = "clear", !.at = IF os = "esxi" THEN "bootread" ELSE "unset"])
    /\ UNCHANGED pushes

BeginScan(w) ==
    /\ Begin(w, [NoReq EXCEPT !.kind = "scan", !.at = "import",
                              !.known = {rows[i].path : i \in DOMAIN rows}])
    /\ UNCHANGED pushes

(* extract_iso_task of a version that was extracted before.  The first     *)
(* tool unpacks over what is there.                                        *)
BeginExtract(w) ==
    /\ os \in {"ubuntu", "esxi"}
    /\ Begin(w, [NoReq EXCEPT !.kind = "extract", !.at = "unpack"])
    /\ UNCHANGED pushes

(* regenerate_all rewrites the prefix in every ESXi boot configuration.    *)
BeginRefresh(w) ==
    /\ os = "esxi"
    /\ Begin(w, [NoReq EXCEPT !.kind = "refresh", !.at = "bootread"])
    /\ UNCHANGED pushes

Begins(w) ==
    \/ \E p \in (CASE os = "custom" -> Labels \X {0}
                   [] os = "ubuntu" -> {NextSlug, <<"config", 2>>}
                   [] OTHER         -> {ForcedName}) :
           BeginCreate(w, p) \/ \E i \in DOMAIN rows : BeginEdit(w, i, p)
    \/ \E i \in DOMAIN rows : BeginDelete(w, i) \/ BeginActivate(w, i)
    \/ BeginClear(w) \/ BeginScan(w) \/ BeginExtract(w) \/ BeginRefresh(w)

----------------------------------------------------------------------------
(* Create and edit.                                                        *)

(* SQLite gives the largest id plus one.                                   *)
NewId == Max(DOMAIN rows \cup {0}) + 1

Flush(w) ==
    /\ At(w, "flush") /\ Unlocked /\ NewId \in Ids
    /\ lock' = {w}
    /\ req' = [req EXCEPT ![w].at = "write", ![w].id = NewId]
    /\ UNCHANGED <<os, disk, rows, active, pushes, spent, crossed>>

(* The id is appended to a label whose file exists and belongs to another  *)
(* row.  A forced name is taken as it is.                                  *)
PathFor_Plain(p, i) == p   \* faulty: no id is appended

PathFor(p, i) ==
    IF os = "custom" /\ p \in DOMAIN files /\ \E j \in DOMAIN rows \ {i} : rows[j].path = p
    THEN <<p[1], i>> ELSE p

(* 0 stands for a file of a bundle that is not there.                      *)
Put(p, field, n) ==
    LET old == IF p \in DOMAIN files THEN files[p] ELSE [main |-> 0, meta |-> 0]
    IN  files' = [q \in DOMAIN files \cup {p} |->
                     IF q = p THEN [old EXCEPT ![field] = n] ELSE files[q]]

WriteMain(w) ==
    LET p == PathFor(req[w].path, req[w].id) IN
    /\ At(w, "write")
    /\ Put(p, "main", req[w].text)
    /\ req' = [req EXCEPT ![w].path = p,
                          ![w].at = CASE os = "ubuntu"  -> "meta"
                                      [] os = "proxmox" -> "mirror"
                                      [] OTHER          -> "commit"]
    /\ UNCHANGED <<os, base, seed, taken, pushes, spent, crossed>>

WriteMeta(w) ==
    /\ At(w, "meta") /\ Put(req[w].path, "meta", req[w].text) /\ Go(w, "commit")
    /\ UNCHANGED <<os, base, seed, taken, pushes, spent, crossed>>

(* Proxmox: the file is also written under boot/, whatever is active.      *)
Mirror(w) ==
    /\ At(w, "mirror") /\ seed' = [seed EXCEPT !.main = req[w].text] /\ Go(w, "commit")
    /\ UNCHANGED <<os, base, files, taken, pushes, spent, crossed>>

CommitPush_NotRepublished(w) ==   \* faulty: an edit leaves the seed alone
    /\ At(w, "commit") /\ CanWrite(w)
    /\ lock' = {}
    /\ rows' = [j \in DOMAIN rows \cup {req[w].id} |->
                   IF j = req[w].id THEN [path |-> req[w].path, text |-> req[w].text] ELSE rows[j]]
    /\ IF os = "proxmox" THEN Go(w, "setactive") ELSE End(w)
    /\ UNCHANGED <<os, disk, active, pushes, spent, crossed>>

(* The row of an edit may have been deleted meanwhile: the request fails.  *)
CommitPush(w) ==
    LET i    == req[w].id
        gone == req[w].kind = "edit" /\ i \notin DOMAIN rows
    IN
    /\ At(w, "commit") /\ CanWrite(w)
    /\ lock' = {}
    /\ rows' = IF gone THEN rows
               ELSE [j \in DOMAIN rows \cup {i} |->
                        IF j = i THEN [path |-> req[w].path, text |-> req[w].text] ELSE rows[j]]
    /\ IF gone THEN End(w)
       ELSE CASE os = "proxmox"                -> Go(w, "setactive")
              [] os = "ubuntu" /\ active = i   -> Go(w, "publish")
              [] OTHER                         -> End(w)
    /\ UNCHANGED <<os, disk, active, pushes, spent, crossed>>

----------------------------------------------------------------------------
(* Ubuntu: publish_ubuntu_cloud_config clears the seed, then copies the    *)
(* two files.  A bundle that is not there ends it; after an edit the       *)
(* failure is only logged.                                                 *)

Whole(p) == p \in DOMAIN files /\ files[p].main # 0 /\ (os = "ubuntu" => files[p].meta # 0)

Publish(w) ==
    /\ At(w, "publish")
    /\ IF Whole(req[w].path)
       THEN seed' = NoSeed /\ Go(w, "pubmain")
       ELSE UNCHANGED seed /\ End(w)
    /\ UNCHANGED <<os, base, files, taken, pushes, spent, crossed>>

CopyMain(w) ==
    /\ At(w, "pubmain")
    /\ IF req[w].path \in DOMAIN files
       THEN seed' = [seed EXCEPT !.main = files[req[w].path].main] /\ Go(w, "pubmeta")
       ELSE UNCHANGED seed /\ End(w)
    /\ UNCHANGED <<os, base, files, taken, pushes, spent, crossed>>

CopyMeta(w) ==
    /\ At(w, "pubmeta")
    /\ IF req[w].path \in DOMAIN files
       THEN /\ seed' = [seed EXCEPT !.meta = files[req[w].path].meta]
            /\ taken' = IF seed.main = 0 THEN taken ELSE "nothing"
            /\ IF req[w].kind = "activate" THEN Go(w, "setactive") ELSE End(w)
       ELSE UNCHANGED <<seed, taken>> /\ End(w)
    /\ UNCHANGED <<os, base, files, pushes, spent, crossed>>

(* The active id is a foreign key: a row deleted meanwhile refuses it.     *)
SetActive(w) ==
    /\ At(w, "setactive") /\ Unlocked
    /\ IF req[w].id \in DOMAIN rows
       THEN /\ active' = req[w].id
            /\ IF os = "proxmox" THEN Go(w, "answer") ELSE End(w)
       ELSE UNCHANGED active /\ End(w)
    /\ UNCHANGED <<os, disk, rows, lock, pushes, spent, crossed>>

(* Proxmox: publish_proxmox_answer_from_autoconfig copies what the file of *)
(* the row holds now, or the content of the row when there is no file.     *)
Answer(w) ==
    LET i == req[w].id IN
    /\ At(w, "answer")
    /\ IF i \in DOMAIN rows
       THEN /\ seed' = [seed EXCEPT !.main = IF rows[i].path \in DOMAIN files
                                             THEN files[rows[i].path].main ELSE rows[i].text]
            /\ Go(w, "upload")
       ELSE UNCHANGED seed /\ End(w)
    /\ UNCHANGED <<os, base, files, taken, pushes, spent, crossed>>

----------------------------------------------------------------------------
(* Delete and clear.                                                       *)

Unlink(w) ==
    /\ At(w, "unlink")
    /\ files' = [p \in DOMAIN files \ {req[w].path} |-> files[p]]
    /\ Go(w, "drop")
    /\ UNCHANGED <<os, base, seed, taken, pushes, spent, crossed>>

Drop_NoForeignKey(w) ==   \* faulty: only what the request read before counts
    /\ At(w, "drop") /\ Unlocked
    /\ rows' = [j \in DOMAIN rows \ {req[w].id} |-> rows[j]]
    /\ active' = IF req[w].was THEN 0 ELSE active
    /\ End(w)
    /\ UNCHANGED <<os, disk, lock, pushes, spent, crossed>>

(* A row that became active after the request read it cannot be deleted:   *)
(* the foreign key refuses it, and its file is gone all the same.          *)
Drop(w) ==
    LET i == req[w].id IN
    /\ At(w, "drop") /\ Unlocked
    /\ IF active = i /\ ~req[w].was
       THEN UNCHANGED <<rows, active>> /\ End(w)
       ELSE /\ rows' = [j \in DOMAIN rows \ {i} |-> rows[j]]
            /\ active' = IF req[w].was THEN 0 ELSE active
            /\ IF ~req[w].was \/ os = "custom" THEN End(w)
               ELSE Go(w, IF os = "esxi" THEN "bootread" ELSE "unseed")
    /\ UNCHANGED <<os, disk, lock, pushes, spent, crossed>>

Unseed(w) ==
    /\ At(w, "unseed") /\ seed' = NoSeed /\ taken' = "nothing" /\ End(w)
    /\ UNCHANGED <<os, base, files, pushes, spent, crossed>>

Unset(w) ==
    /\ At(w, "unset") /\ Unlocked /\ active' = 0
    /\ IF os = "esxi" THEN End(w) ELSE Go(w, "unseed")
    /\ UNCHANGED <<os, disk, rows, lock, pushes, spent, crossed>>

----------------------------------------------------------------------------
(* Another extraction.  The next tool wipes the directory; a tool, the     *)
(* search for the boot files or the commit may fail, or the worker may be  *)
(* killed.                                                                 *)

Wipe ==
    \/ os = "ubuntu" /\ seed' = NoSeed /\ taken' = IF seed = NoSeed THEN taken ELSE "seed"
    \/ os = "esxi" /\ seed' = [NoSeed EXCEPT !.body = FALSE] /\ taken' = "cfg"

Unpack(w) ==
    /\ At(w, "unpack")
    /\ UNCHANGED <<seed, taken>> \/ Wipe
    /\ End(w) \/ Go(w, IF os = "esxi" THEN "truncate" ELSE "restore")
    /\ UNCHANGED <<os, base, files, pushes, spent, crossed>>

(* extract_iso_task has committed: it publishes the active configuration   *)
(* of Ubuntu again.                                                        *)
Restore(w) ==
    /\ At(w, "restore") /\ Unlocked
    /\ IF active = 0 THEN End(w)
       ELSE req' = [req EXCEPT ![w].at = "publish", ![w].id = active, ![w].path = rows[active].path]
    /\ UNCHANGED <<os, base, disk, pushes, spent, crossed>>

----------------------------------------------------------------------------
(* ESXi: the boot configuration is read, emptied and written back with     *)
(* the ks= argument replaced.  An extraction writes a new one, without the *)
(* argument; a regeneration keeps it, and replaces the file in one step.   *)

Renames(w) == req[w].kind \in {"activate", "clear", "delete"}

(* Without the file an activation and a regeneration end, and a clear goes *)
(* on.                                                                     *)
BootRead(w) ==
    /\ At(w, "bootread")
    /\ IF taken = "cfg"
       THEN IF req[w].kind \in {"clear", "delete"} THEN Go(w, "unset") ELSE End(w)
       ELSE req' = [req EXCEPT ![w].at   = IF Renames(w) THEN "truncate" ELSE "rewrite",
                               ![w].path = IF Renames(w) THEN @ ELSE seed.ks,
                               ![w].body = seed.body]
    /\ UNCHANGED <<os, base, disk, pushes, spent, crossed>>

BootTruncate(w) ==
    /\ At(w, "truncate")
    /\ seed' = [seed EXCEPT !.body = FALSE, !.ks = NoPath] /\ Go(w, "rewrite")
    /\ taken' = IF taken = "cfg" \/ (req[w].kind = "extract" /\ seed.ks # NoPath) THEN "ks" ELSE taken
    /\ UNCHANGED <<os, base, files, pushes, spent, crossed>>

BootRewrite(w) ==
    /\ At(w, "rewrite")
    /\ seed' = [seed EXCEPT !.body = req[w].body,
                            !.ks = IF req[w].kind \in {"activate", "refresh"} THEN req[w].path ELSE NoPath]
    /\ IF Renames(w)
       THEN taken' = "nothing" /\ Go(w, IF req[w].kind = "activate" THEN "setactive" ELSE "unset")
       ELSE taken' = (IF taken = "cfg" THEN "ks" ELSE taken) /\ End(w)
    /\ UNCHANGED <<os, base, files, pushes, spent, crossed>>

----------------------------------------------------------------------------
(* scan_and_import: every file that was no row's when the scan began       *)
(* becomes a row.                                                          *)
Import(w) ==
    LET found == {p \in DOMAIN files : Whole(p) /\ p \notin req[w].known}
        order == SetToSeq(found)
        ids   == NewId..NewId + Cardinality(found) - 1
    IN
    /\ At(w, "import") /\ Unlocked /\ ids \subseteq Ids
    /\ rows' = [i \in DOMAIN rows \cup ids |->
                   IF i \in ids
                   THEN [path |-> order[i - NewId + 1], text |-> files[order[i - NewId + 1]].main]
                   ELSE rows[i]]
    /\ End(w)
    /\ UNCHANGED <<os, disk, active, lock, pushes, spent, crossed>>

WebStep(w) ==
    \/ Begins(w)
    \/ Flush(w) \/ WriteMain(w) \/ WriteMeta(w) \/ Mirror(w) \/ CommitPush(w)
    \/ Publish(w) \/ CopyMain(w) \/ CopyMeta(w) \/ SetActive(w) \/ Answer(w)
    \/ Unlink(w) \/ Drop(w) \/ Unseed(w) \/ Unset(w)
    \/ Unpack(w) \/ Restore(w)
    \/ BootRead(w) \/ BootTruncate(w) \/ BootRewrite(w) \/ Import(w)

----------------------------------------------------------------------------
StoreTypeOK ==
    /\ os \in Systems /\ crossed \in BOOLEAN
    /\ DOMAIN rows \subseteq Ids /\ DOMAIN files \subseteq Paths
    /\ \A i \in DOMAIN rows : rows[i] \in [path : Paths, text : {0} \cup Texts]
    /\ \A p \in DOMAIN files : files[p] \in [main : {0} \cup Texts, meta : {0} \cup Texts]
    /\ active \in {0} \cup DOMAIN rows
    /\ seed \in [main : {0} \cup Texts, meta : {0} \cup Texts, ks : Paths \cup {NoPath}, body : BOOLEAN]
    /\ taken \in Losses
    /\ lock \subseteq Webs /\ Cardinality(lock) <= 1
    /\ \A w \in Webs : req[w].at \in Steps /\ req[w].kind \in Kinds
    /\ pushes \in 0..MaxPushes[os] /\ spent \in 0..MaxRequests[os]

(* What a machine that boots is given is the active configuration.  Once   *)
(* every request has ended, and unless two that disturb each other ran at  *)
(* once: under Ubuntu the seed is the bundle of the active configuration,  *)
(* and there is none without one; under ESXi the boot configuration holds  *)
(* the kernel and the modules, and names a file exactly when a             *)
(* configuration is active.  Two edits of one bundle may overlap, and an   *)
(* edit and an extraction.  Only an extraction takes the seed away from an *)
(* active configuration: a failed one that of Ubuntu, any one the ks= of   *)
(* ESXi, a failed one the whole file; and then nothing published since.    *)
SeedOfActive ==
    QuietWeb /\ ~crossed =>
        /\ os = "ubuntu" =>
               IF active = 0 THEN seed = NoSeed
               ELSE taken # "seed" => [main |-> seed.main, meta |-> seed.meta] = files[rows[active].path]
        /\ os = "esxi" /\ taken # "cfg" =>
               /\ seed.body /\ (seed.ks # NoPath => active # 0)
               /\ active # 0 => seed.ks # NoPath \/ taken = "ks"

(* A configuration of a custom type has its file to itself: two rows share *)
(* one only when the id had been appended to its name, and then only after *)
(* a scan took the abandoned file for a new configuration; or when two     *)
(* requests other than creates overlapped.  What the row says is what its  *)
(* file holds.                                                             *)
CustomFileIsOwn ==
    os = "custom" /\ QuietWeb /\ ~crossed =>
        \A i \in DOMAIN rows :
            rows[i].path[2] = 0 =>
                /\ \A j \in DOMAIN rows \ {i} : rows[j].path # rows[i].path
                /\ rows[i].path \in DOMAIN files
                /\ files[rows[i].path].main = rows[i].text
=============================================================================
