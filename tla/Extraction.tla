----------------------------- MODULE Extraction -----------------------------
(***************************************************************************)
(* The boot directory and the boot entry of one version, through the       *)
(* extractions of its image, scans of the directory, and changes of the    *)
(* plan of its OS type.  One step is the whole work of one task or request *)
(* (BootTree interleaves them).                                            *)
(***************************************************************************)
EXTENDS ExtractPlan

CONSTANTS
  OsTypes,   \* configurations of the OS type: [slug, boot, full, specs]
  Images(_), \* the images an OS type may be given: [name, files]
  MaxSteps   \* bound: steps of a behaviour

\* What the database and the images are.  The boot type of a built-in OS type is the
\* one it was seeded with, no form changes it; a type that is not built in has a
\* plan or takes the whole image.  No boot.cfg of VMware names the files that the
\* manager adds, and no image or plan for Proxmox has the one that it makes itself.
\* A src is one file of an image, under one name.
OurNames == {Name(<<"mboot">>, ".efi"), Name(<<"ipxe", "boot">>, ".cfg"),
             Name(<<"ipxe", "boot", "manual">>, ".cfg")}

OsTypeOK(o) ==
  /\ o.boot \in {"linux", "windows", "tools", "esxi"}
  /\ o.slug \in DOMAIN DistroRules =>
        o.boot = IF o.slug \in {"windows", "esxi"} THEN o.slug ELSE "linux"
  /\ o.boot = "esxi" /\ ~UsesPlan(o) => o.slug = "esxi"
  /\ IsSequence(Unified(o.specs))
  /\ o.slug = "proxmox" => \A i \in DOMAIN Unified(o.specs) : ~IsNetboot(Unified(o.specs)[i].name)

ImageOK(o, img) ==
  /\ IsFiniteSet(img.files) /\ \A f \in img.files : IsFile(f)
  /\ o.slug = "proxmox" => \A f \in img.files : ~IsNetboot(f)
  /\ \A f \in img.files : IsBootCfg(f) =>
        IsSequence(RefsIn(f)) /\ \A ref \in ToSet(RefsIn(f)) : NameOf(ref) \notin OurNames

OneName(g, h) == g.src = h.src => NameOf(g) = NameOf(h)

ASSUME ExtractionAssumption ==
  /\ MaxSteps \in Nat
  /\ \A o \in OsTypes :
        /\ OsTypeOK(o)
        /\ \A img \in Images(o) : ImageOK(o, img)
        /\ \A img, other \in Images(o) : \A g \in img.files, h \in other.files : OneName(g, h)

VARIABLES
  os,       \* the OS type
  image,    \* the image last extracted
  dest,     \* the files of the boot directory
  entry,    \* the boot entry: field -> path
  status,   \* iso_versions.status
  step,     \* what the last step did
  steps     \* bound

vars == <<os, image, dest, entry, status, step, steps>>

NoImage == [name |-> "none", files |-> {}]
-----------------------------------------------------------------------------
(***************************************************************************)
(* extract_iso                                                             *)
(***************************************************************************)
\* extract_iso_archive: a first tool extracts over what the directory holds;
\* after one that failed the directory is emptied for the next.
Bases(old) == {old, {}}

\* The rules built into extract_iso: only the boot files of the image are copied,
\* or all of it is extracted and searched where it is.
BuiltinOutcomes(o, base, img) ==
  LET rule == RuleOf(o.slug)
      full == Overlay(base, img.files)
      searched(es) == {[dest |-> full, entry |-> e] : e \in es}
      copied(e) == IF e = Failed THEN {}
                   ELSE {[f EXCEPT !.dir = <<>>] :
                           f \in {g \in img.files : PathOf(g) \in {e[k] : k \in DOMAIN e}}}
      rooted(e) == IF e = Failed THEN Failed ELSE [k \in DOMAIN e |-> [e[k] EXCEPT !.dir = <<>>]]
  IN CASE rule.type = "esxi"    -> EsxiOutcomes(full)
       [] rule.type = "windows" -> searched(FindWindows(full))
       [] rule.type = "ubuntu"  -> searched(FindUbuntu(full, rule))
       [] rule.type = "debian"  -> searched(FindDebian(full, rule))
       [] rule.type = "proxmox" -> UNION {Publish(o, r, <<img.name, "iso">>) :
                                            r \in searched(FindProxmox(full, rule))}
       [] rule.type = "linux"   -> {[dest |-> Overlay(base, copied(e)), entry |-> rooted(e)] :
                                      e \in FindLinux(img.files, rule)}
       [] OTHER                 -> searched(FindEl(full, rule))

\* A temporary directory takes the whole image when only some files are wanted.
InPlace(o) == o.full \/ (~UsesPlan(o) /\ RuleOf(o.slug).type # "linux")

DelegatesToBuiltin(o) ==
  /\ Unified(o.specs) = <<>> /\ o.boot # "esxi"
  /\ o.full /\ o.slug \in BuiltinFullSlugs

ExtractIso(o, old, img) ==
  UNION {IF UsesPlan(o) /\ ~DelegatesToBuiltin(o)
         THEN UNION {Publish(o, r, <<img.name, "iso">>) : r \in PlanOutcomes(o, base, img)}
         ELSE BuiltinOutcomes(o, base, img) : base \in IF InPlace(o) THEN Bases(old) ELSE {old}}
-----------------------------------------------------------------------------
\* find_file_under_version with _rank_windows_path; the order of path strings that
\* decides at last is fixed.
ScanRankBefore(f, g) ==
  \/ DirPreference(f) < DirPreference(g)
  \/ DirPreference(f) = DirPreference(g) /\ Len(f.dir) < Len(g.dir)

ScanPick(fs) == CHOOSE f \in BestRanked(fs, ScanRankBefore) : TRUE

\* rel_under_version keeps the case of the disk.
RelUnderVersion_Lower(f) == Lower(PathOf(f))   \* faulty
RelUnderVersion(f) == PathOf(f)

\* sync_windows_boot_entry_from_disk
WindowsOnDisk(tree) ==
  [bcd |-> Bcd(tree), boot_sdi |-> BootSdi(tree), boot_wim |-> BootWim(tree), bootmgr |-> Bootmgr(tree)]

SyncWindows(e, tree) ==
  LET found == WindowsOnDisk(tree)
      there == {k \in DOMAIN found : found[k] # {}}
  IN Filling([k \in there |-> RelUnderVersion(ScanPick(found[k]))], e)

\* What the scanner takes for a kernel, an initrd or a modloop at the root of the
\* directory: it registers the first of each where the entry has none.
ScanField(f) ==
  CASE NameOf(f) \in {Plain("modloop"), Name(<<"modloop", "lts">>, "")} -> "modloop"
    [] /\ f.stem[1] \in {"vmlinuz", "vmlinux", "linux26", "linux", "kernel"}
       /\ f.ext = "" \/ Len(f.stem) > 1 -> "kernel"
    [] f.stem[1] \in {"initrd", "initrd0", "initramfs"} -> "initrd"
    [] OTHER -> "none"

ScanLinux(e, tree) ==
  LET roots(k) == {f \in tree : f.dir = <<>> /\ ScanField(f) = k}
      new      == {k \in {"kernel", "initrd", "modloop"} : k \notin DOMAIN e /\ roots(k) # {}}
  IN Filling(e, [k \in new |-> PathOf(CHOOSE f \in roots(k) : TRUE)])

Scanned(e, tree) == IF os.boot = "windows" THEN SyncWindows(e, tree) ELSE ScanLinux(e, tree)
-----------------------------------------------------------------------------
Init ==
  /\ os \in OsTypes
  /\ image = NoImage /\ dest = {} /\ entry = NoEntry
  /\ status = "uploaded" /\ step = "none" /\ steps = 0

Count == steps < MaxSteps /\ steps' = steps + 1

\* The task after extract_iso: every path field of the entry is replaced, and the
\* Windows ones are read from the disk again.
Recorded_AsExtracted(e, tree) == e   \* faulty
Recorded(e, tree) == IF os.boot = "windows" THEN SyncWindows(e, tree) ELSE e

Extract(img) ==
  /\ Count
  /\ \E o \in ExtractIso(os, dest, img) :
       /\ o.entry # Failed
       /\ dest' = o.dest
       /\ entry' = Recorded(o.entry, o.dest)
  /\ image' = img
  /\ status' = "ready"
  /\ step' = "extracted"
  /\ UNCHANGED os

\* The exception leaves the entry as it was, and on disk whatever there is.
ExtractFails(img) ==
  /\ Count
  /\ \E o \in ExtractIso(os, dest, img) :
       /\ o.entry = Failed
       /\ dest' = o.dest
  /\ image' = img
  /\ status' = "error"
  /\ step' = "failed"
  /\ UNCHANGED <<os, entry>>

\* No tool unpacks the image: what the last one wrote after the last wipe stays.
NoToolWorks(img) ==
  /\ Count
  /\ InPlace(os)
  /\ \E part \in {{}} \cup {{f} : f \in img.files} : dest' = part
  /\ image' = img
  /\ status' = "error"
  /\ step' = "failed"
  /\ UNCHANGED <<os, entry>>

\* scan_and_register, for this directory.
ScanDir ==
  /\ Count
  /\ entry' = Scanned(entry, dest)
  /\ status' = IF entry' # entry THEN "ready" ELSE status
  /\ step' = IF entry' # entry THEN "scanned" ELSE step
  /\ UNCHANGED <<os, image, dest>>

Next ==
  \/ \E img \in Images(os) : Extract(img) \/ ExtractFails(img) \/ NoToolWorks(img)
  \/ ScanDir

Spec == Init /\ [][Next]_vars
-----------------------------------------------------------------------------
FileAt(tree, p)    == {f \in tree : PathOf(f) = p}
EntryPaths         == {entry[k] : k \in DOMAIN entry \ {"modules"}}
BootFields(o)      == CASE o.boot = "windows" -> WindowsFields
                        [] o.boot = "esxi"    -> {"kernel", "boot_cfg", "modules"}
                        [] OTHER              -> {"kernel", "initrd"}
Bootable           == BootFields(os) \subseteq DOMAIN entry
PreloadPaths       == IF "modules" \in DOMAIN entry THEN ToSet(entry.modules) ELSE {}

\* Every path an extraction has recorded is a file of the boot directory, in the
\* case the disk has: nginx serves it.
RecordedIsOnDisk ==
  step = "extracted" => \A p \in EntryPaths \cup PreloadPaths : FileAt(dest, p) # {}

\* An extraction that succeeds leaves what a menu entry needs, except where the code
\* lets it: the rules that take a kernel or an initrd alone, and a plan.
BootableUnlessLenient ==
  step = "extracted" /\ ~Bootable =>
    \/ UsesPlan(os) /\ ~DelegatesToBuiltin(os)
    \/ RuleOf(os.slug).type \in {"ubuntu", "linux"}

\* The preload list of ESXi ends with the modules of one boot.cfg in its order: one
\* of those nearest to the root of the directory, and the image's own where it has
\* one at its root in capitals, as on the disks of VMware.  Each is the file that
\* line names as long as there is one file of that name only, in the image or left
\* by an earlier one.  (_esxi_boot_cfg_http_payload)
EndsWithModules(list, refs) ==
  LET mods == SubSeq(list, Len(list) - Len(refs) + 1, Len(list))
      srcs == {f.src : f \in image.files}
      named(ref) == {f \in image.files : NameOf(f) = NameOf(ref)}
      left(ref)  == {f \in dest : NameOf(f) = NameOf(ref) /\ f.src \notin srcs}
  IN \A i \in DOMAIN refs :
       /\ NameOf(mods[i]) = NameOf(refs[i])
       /\ Cardinality(named(refs[i])) = 1 /\ left(refs[i]) = {} =>
            \A f \in FileAt(dest, mods[i]) : f.src \in {g.src : g \in named(refs[i])}

OwnCfgs(files) == {f \in files : IsBootCfg(f) /\ f.dir = <<>> /\ InCapitals(f)}

EsxiModulesInOrder ==
  step = "extracted" /\ os.boot = "esxi" =>
    \E c \in BootCfgs(dest) :
      /\ EndsWithModules(entry.modules, RefsIn(c))
      /\ OwnCfgs(image.files) # {} => c.src \in {f.src : f \in OwnCfgs(image.files)}

\* A scan of a directory that an extraction has just filled does not move a path the
\* extraction recorded.
ScanKeepsExtraction ==
  [][step = "extracted" /\ step' = "scanned" =>
       \A k \in DOMAIN entry : entry'[k] = entry[k]]_vars
=============================================================================
