---------------------------- MODULE ExtractPlan ----------------------------
(***************************************************************************)
(* Extraction driven by the OS type (os_type_extract_plan.py): a list of   *)
(* file names an administrator has entered, or the whole image.            *)
(*                                                                         *)
(* os is [slug, boot, full, specs].  A spec is [kind, name, max]: "name"   *)
(* stands for a file name, "glob" for a pattern (here: names that begin    *)
(* alike), "void" for a pattern that leaves no base name, such as "/".     *)
(***************************************************************************)
EXTENDS EsxiBoot

UsesPlan(os) == os.full \/ os.specs # <<>>

\* _BUILTIN_FULL_ISO_SLUGS: an empty plan for these means the built-in rules.
BuiltinFullSlugs == {"windows", "ubuntu", "debian", "rocky", "fedora", "proxmox"}

\* _normalize_specs drops what leaves no name; the form's terms keep it.
Unified(specs)   == SelectSeq(specs, LAMBDA spec : spec.kind # "void")
SlotTerms(specs) == specs

\* Hits are sorted by path and cut at max: which ones stay depends on names that
\* are not modelled, so any choice is possible.
SpecHits(tree, spec) ==
  LET all == {f \in tree : IF spec.kind = "glob" THEN IsPrefix(spec.name.stem, f.stem)
                           ELSE NameOf(f) = spec.name}
  IN kSubset(IF spec.max < Cardinality(all) THEN spec.max ELSE Cardinality(all), all)

\* A single file named by the plan goes to the root of the boot directory,
\* several keep their place, as do those of a pattern.
Copied(spec, hits) ==
  IF spec.kind = "name" /\ Cardinality(hits) = 1
  THEN {[f EXCEPT !.dir = <<>>] : f \in hits} ELSE hits

\* What the plan takes of a tree, and what each spec reports: in a full extraction
\* all of the boot directory, leftovers included, and nothing for a pattern.
Report(os, tree) ==
  LET unified == Unified(os.specs)
      choices == Picks([i \in DOMAIN unified |-> SpecHits(tree, unified[i])])
      reported(c, i) == IF unified[i].kind = "glob" THEN {}
                        ELSE IF os.full THEN c[i] ELSE Copied(unified[i], c[i])
  IN {[files  |-> IF os.full THEN tree
                  ELSE UNION {Copied(unified[i], c[i]) : i \in DOMAIN unified},
       report |-> [i \in DOMAIN unified |-> reported(c, i)]] : c \in choices}

\* _assign_ordered_linux_slots_from_plan: the first spec is the kernel, the
\* second the initrd (for Proxmox not when it is one more kernel), then modloop
\* for Alpine; the rest are extra files the entry also lists.
ExtraKernels == {"linux26", "vmlinuz", "bzimage"}

Slot(os, i, f) ==
  LET terms      == SlotTerms(os.specs)
      moreKernel == os.slug = "proxmox" /\ f.ext = "" /\ Len(f.stem) = 1 /\ f.stem[1] \in ExtraKernels
      modloop    == \/ f.stem[1] = "modloop"
                    \/ terms[i].kind # "void" /\ terms[i].name.stem[1] = "modloop"
  IN CASE i = 1 -> "kernel"
       [] i = 2 /\ moreKernel -> "kernel2"
       [] i = 2 /\ ~moreKernel -> "initrd"
       [] i > 2 -> IF os.slug = "alpine" /\ modloop THEN "modloop" ELSE "extra"

Slots(os, report) ==
  LET reporting == {i \in DOMAIN report : report[i] # {}}
      chosen    == {c \in [reporting -> UNION {report[i] : i \in reporting}] :
                      \A i \in reporting : c[i] \in report[i]}
      filling(c, s) == {i \in reporting : Slot(os, i, c[i]) = s}
      kernelOf(c)   == IF filling(c, "kernel") # {} THEN filling(c, "kernel")
                       ELSE filling(c, "kernel2")
      firstOf(S)    == {i \in S : \A k \in S : i <= k}
      slot(c, s)    == {c[i] : i \in firstOf(filling(c, s))}
  IN UNION {Entries([kernel  |-> {c[i] : i \in firstOf(kernelOf(c))},
                     initrd  |-> slot(c, "initrd"),
                     modloop |-> slot(c, "modloop")]) : c \in chosen}

\* A field that e lacks takes any of the paths.
Filled(e, k, ps) ==
  IF k \in DOMAIN e \/ ps = {} THEN {e} ELSE {Filling(e, [j \in {k} |-> p]) : p \in ps}

\* _fallback_kernel_initrd_in_dest: what the plan has not found is looked for in
\* the boot directory by the generic names, Proxmox by its own.
Fallback(os, tree, e) ==
  LET proxmox == FindProxmox(tree, DistroRules.proxmox)
      kernels == IF os.slug = "proxmox"
                 THEN {p.kernel : p \in proxmox \ {Failed}}
                 ELSE {PathOf(f) : f \in FindInDest(tree, GenericRule.kernel, "kernel", CasperDirs)}
      names   == IF os.slug = "proxmox" THEN DistroRules.proxmox.initrd ELSE GenericRule.initrd
      initrds == {PathOf(f) : f \in FindInDest(tree, names, "initrd", CasperDirs)}
  IN UNION {Filled(d, "initrd", initrds) : d \in Filled(e, "kernel", kernels)}

\* publish_proxmox_netboot_iso: a copy of the image for the second initrd, and the
\* answer-file image made from the previous one goes.  Images of the old layout
\* are moved below netboot first.  A copy that fails is only logged.
NetbootNames   == {<<"proxmox", "netboot">>, <<"proxmox", "netboot", "autoinstall">>}
IsNetboot(f)   == f.stem \in NetbootNames /\ f.ext = ".iso"
NetbootIso(src) == [dir |-> <<"netboot">>, stem |-> <<"proxmox", "netboot">>, ext |-> ".iso",
                    upper |-> FALSE, size |-> 1, src |-> src]

MigrateLegacy(dest) ==
  LET legacy == {f \in dest : IsNetboot(f) /\ f.dir = <<>>}
      moved  == {[f EXCEPT !.dir = <<"netboot">>] : f \in legacy}
  IN Overlay(moved, dest \ legacy)

PublishNetboot(dest, src) ==
  LET migrated == MigrateLegacy(dest)
  IN {migrated, Overlay({f \in migrated : ~(IsNetboot(f) /\ f.dir = <<"netboot">>)},
                        {NetbootIso(src)})}

Publish(os, o, src) ==
  IF os.slug = "proxmox" /\ o.entry # Failed
  THEN {[o EXCEPT !.dest = d] : d \in PublishNetboot(o.dest, src)} ELSE {o}

\* try_extract_with_plan, from the tree found on disk: outcomes [dest, entry].
\* Linux-like types never fail for want of files, nor does Windows.
PlanOutcomes(os, old, image) ==
  LET planned == Report(os, IF os.full THEN Overlay(old, image.files) ELSE image.files)
      linux(r) ==
        LET dest == Overlay(old, r.files)
        IN {[dest |-> dest, entry |-> e] :
              e \in UNION {Fallback(os, dest, s) : s \in Slots(os, r.report)}}
      windows(r) ==
        LET dest == Overlay(old, r.files)
        IN {[dest |-> dest, entry |-> IF e = Failed THEN NoEntry ELSE e] : e \in FindWindows(dest)}
      esxi(r) ==
        LET dest == Overlay(old, r.files)
        IN IF os.full THEN EsxiOutcomes(dest) ELSE {[dest |-> dest, entry |-> Failed]}
  IN IF Unified(os.specs) = <<>> /\ ~(os.full /\ os.boot = "esxi") THEN {[dest |-> old, entry |-> Failed]}
     ELSE UNION {CASE os.boot \in {"linux", "tools"} -> linux(r)
                   [] os.boot = "windows"            -> windows(r)
                   [] os.boot = "esxi"               -> esxi(r) : r \in planned}
=============================================================================
