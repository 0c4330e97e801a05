---------------------------- MODULE BootFinders ----------------------------
(***************************************************************************)
(* How iso_extractor.py recognises boot files in the tree of an ISO image: *)
(* the rules per distribution, the two searches, and the finders built on  *)
(* them.                                                                   *)
(*                                                                         *)
(* A file is a record: dir, the sequence of its directories in lower case; *)
(* stem, its name in lower case split at "-"; ext, its last suffix; upper, *)
(* whether the disk has any of that in upper case; size; and src, the file *)
(* of the image its bytes come from.                                       *)
(* Directory listings come in any order, so a search that keeps the        *)
(* largest of its candidates returns the SET of files it may end up with;  *)
(* the empty set is None.                                                  *)
(***************************************************************************)
EXTENDS Integers, Sequences, FiniteSets, SequencesExt

Name(stem, ext) == [stem |-> stem, ext |-> ext]
Plain(base)     == Name(<<base>>, "")
NameOf(f)       == Name(f.stem, f.ext)
PathOf(f)       == [dir |-> f.dir, stem |-> f.stem, ext |-> f.ext, upper |-> f.upper]
Parts(f)        == ToSet(f.dir)
IsSequence(s)   == s \in Seq(ToSet(s))
IsFile(f)       == /\ f = [dir |-> f.dir, stem |-> f.stem, ext |-> f.ext, upper |-> f.upper,
                           size |-> f.size, src |-> f.src]
                   /\ IsSequence(f.dir) /\ IsSequence(f.stem) /\ f.stem # <<>>
InCapitals(f)   == f.upper = TRUE
ParentIn(f, ds) == f.dir # <<>> /\ Last(f.dir) \in ds

\* INITRD_EXTENSIONS; "other" stands for any suffix outside the list, such as
\* the ".0-amd64" of initrd-6.1.0-amd64.
InitrdExtensions == {"", ".gz", ".lz", ".img"}

LinuxRule(kernel, initrd, modloop) ==
  [type |-> "linux", kernel |-> kernel, initrd |-> initrd, modloop |-> modloop]

AnacondaInitrd == <<Name(<<"initrd">>, ".img"), Name(<<"initrd0">>, ".img"), Plain("initrd")>>

GenericRule ==
  LinuxRule(<<Plain("vmlinuz"), Plain("linux26"), Plain("bzimage")>>,
            <<Name(<<"initrd">>, ".gz"), Name(<<"initrd">>, ".img"), Plain("initrd")>>, <<>>)

DistroRules ==
  [windows |-> [type |-> "windows", kernel |-> <<>>, initrd |-> <<>>],
   debian  |-> [type |-> "debian", kernel |-> <<Plain("vmlinuz")>>,
                initrd |-> <<Name(<<"initrd">>, ".gz"), Plain("initrd")>>],
   ubuntu  |-> [type |-> "ubuntu", kernel |-> <<Plain("vmlinuz")>>,
                initrd |-> <<Plain("initrd"), Name(<<"initrd">>, ".gz")>>],
   rocky   |-> [type |-> "rocky", kernel |-> <<Plain("vmlinuz")>>, initrd |-> AnacondaInitrd],
   fedora  |-> [type |-> "fedora", kernel |-> <<Plain("vmlinuz"), Plain("linux")>>,
                initrd |-> AnacondaInitrd],
   proxmox |-> [type |-> "proxmox", kernel |-> <<Plain("linux26")>>,
                initrd |-> <<Name(<<"initrd">>, ".img")>>],
   alpine  |-> LinuxRule(<<Name(<<"vmlinuz", "lts">>, ""), Plain("vmlinuz")>>,
                         <<Name(<<"initramfs", "lts">>, ""), Plain("initramfs")>>,
                         <<Name(<<"modloop", "lts">>, ""), Plain("modloop")>>),
   esxi    |-> [type |-> "esxi", kernel |-> <<>>, initrd |-> <<>>]]

RuleOf(slug) == IF slug \in DOMAIN DistroRules THEN DistroRules[slug] ELSE GenericRule
-----------------------------------------------------------------------------
\* A name is matched exactly or, for kernels and initrds, as the start of a
\* versioned name (vmlinuz-6.1.0).
Matches(f, n, mode) ==
  LET versioned == IsStrictPrefix(n.stem, f.stem)
  IN CASE mode = "kernel" -> NameOf(f) = n \/ (n.ext = "" /\ versioned)
       [] mode = "initrd" -> (NameOf(f) = n \/ versioned) /\ f.ext \in InitrdExtensions
       [] OTHER           -> NameOf(f) = n

Largest(fs) == {f \in fs : \A g \in fs : g.size <= f.size}

\* _find_by_priority: the first name that has candidates decides.
Candidates(tree, names, mode) ==
  LET hits(i) == {f \in tree : Matches(f, names[i], mode)}
      first   == {i \in DOMAIN names : hits(i) # {} /\ \A k \in 1..(i - 1) : hits(k) = {}}
  IN UNION {hits(i) : i \in first}

FindByPriority(tree, names, mode) == Largest(Candidates(tree, names, mode))

\* _find_in_dest: the same, candidates in a known directory first.
CasperDirs == {"casper", "isolinux", "install", "boot"}

FindInDest(tree, names, mode, preferredDirs) ==
  LET pool      == Candidates(tree, names, mode)
      preferred == {f \in pool : ParentIn(f, preferredDirs)}
  IN Largest(IF preferred # {} THEN preferred ELSE pool)
-----------------------------------------------------------------------------
(***************************************************************************)
(* Finders.  An outcome is an entry (field name -> path under the boot     *)
(* directory) or Failed; each finder returns the set of its possible       *)
(* outcomes.                                                               *)
(***************************************************************************)
Failed  == [failed |-> TRUE]
NoEntry == << >>   \* the function with an empty domain

\* The fields of e, and those of more that e lacks.
Filling(e, more) == [k \in DOMAIN e \cup DOMAIN more |-> IF k \in DOMAIN e THEN e[k] ELSE more[k]]

\* All ways to fill each field with one of its candidates, leaving out those
\* that have none.
Entries(found) ==
  LET fields == {k \in DOMAIN found : found[k] # {}}
  IN {e \in [fields -> {PathOf(f) : f \in UNION {found[k] : k \in fields}}] :
        \A k \in fields : e[k] \in {PathOf(f) : f \in found[k]}}

Has(e, fields) == e # Failed /\ fields \subseteq DOMAIN e

FailUnless(es, Ok(_)) == {IF Ok(e) THEN e ELSE Failed : e \in es}

KernelInitrd(k, i) == [kernel |-> k, initrd |-> i]
BothOf(es)  == FailUnless(es, LAMBDA e : Has(e, {"kernel", "initrd"}))
OneOf(es)   == FailUnless(es, LAMBDA e : DOMAIN e # {})

\* _find_ubuntu_in_dest: one of the two is enough.
FindUbuntu(tree, rule) ==
  OneOf(Entries(KernelInitrd(FindInDest(tree, rule.kernel, "kernel", CasperDirs),
                             FindInDest(tree, rule.initrd, "initrd", CasperDirs))))

FindDebian(tree, rule) ==
  LET dirs == {"install.amd", "install", "isolinux", "boot", "pxelinux"}
  IN BothOf(Entries(KernelInitrd(FindInDest(tree, rule.kernel, "kernel", dirs),
                                 FindInDest(tree, rule.initrd, "initrd", dirs))))

\* _find_el_anaconda_iso_in_dest: Rocky, Alma, CentOS, Fedora.
FindEl_OneIsEnough(tree, rule) ==   \* faulty
  OneOf(Entries(KernelInitrd(FindInDest(tree, rule.kernel, "kernel", CasperDirs),
                             FindInDest(tree, rule.initrd, "initrd", CasperDirs))))
FindEl(tree, rule) ==
  LET dirs == {"pxeboot", "images", "efi", "boot", "isolinux", "loader"}
  IN BothOf(Entries(KernelInitrd(FindInDest(tree, rule.kernel, "kernel", dirs),
                                 FindInDest(tree, rule.initrd, "initrd", dirs))))

\* _find_proxmox_in_dest: vmlinuz only stands in for a missing linux26.  The
\* initrd is recompressed in place, or left as it is: the path stays.
FindProxmox(tree, rule) ==
  LET dirs    == {"boot", "efi", "grub"}
      linux26 == FindInDest(tree, rule.kernel, "kernel", dirs)
      kernel  == IF linux26 # {} THEN linux26
                 ELSE FindInDest(tree, <<Plain("vmlinuz")>>, "kernel", dirs)
  IN BothOf(Entries(KernelInitrd(kernel, FindInDest(tree, rule.initrd, "initrd", dirs))))

\* _find_windows_in_dest: candidates are ranked by the directories on their
\* path, then by size; boot managers with "efi" on their path come first (and
\* then the one with the shortest path string: any of them here).  The path is
\* the absolute one, which has the "boot" of the manager's own boot directory: the
\* preference the code gives to "boot" is the same for all.
DirPreference(f) ==
  0 - (IF "sources" \in Parts(f) THEN 4 ELSE 0)
    - (IF {"efi", "microsoft"} \subseteq Parts(f) THEN 1 ELSE 0)

BestRanked(fs, Before(_, _)) == {f \in fs : \A g \in fs : ~Before(g, f)}

WinRankBefore(f, g) ==
  \/ DirPreference(f) < DirPreference(g)
  \/ DirPreference(f) = DirPreference(g) /\ f.size > g.size

MgrRankBefore(f, g) ==
  LET key(h) == IF "efi" \in Parts(h) THEN 0 ELSE 1
  IN key(f) < key(g)

Bcd(tree)     == {f \in tree : NameOf(f) = Plain("bcd")}
BootSdi(tree) == {f \in tree : NameOf(f) = Name(<<"boot">>, ".sdi")}
BootWim(tree) == {f \in tree : NameOf(f) = Name(<<"boot">>, ".wim")}
Bootmgr(tree) == {f \in tree : NameOf(f) \in {Name(<<"bootmgr">>, ".efi"), Plain("bootmgr")}}

WindowsFields == {"bcd", "boot_sdi", "boot_wim"}

FindWindows(tree) ==
  FailUnless(Entries([bcd      |-> BestRanked(Bcd(tree), WinRankBefore),
                      boot_sdi |-> BestRanked(BootSdi(tree), WinRankBefore),
                      boot_wim |-> BestRanked(BootWim(tree), WinRankBefore),
                      bootmgr  |-> BestRanked(Bootmgr(tree), MgrRankBefore)]),
             LAMBDA e : Has(e, WindowsFields))

\* _find_linux: the files found in the temporary tree are copied to the root of
\* the boot directory under their own names.
AtRoot(p) == [p EXCEPT !.dir = <<>>]

FindLinux(tree, rule) ==
  OneOf(Entries([kernel  |-> FindByPriority(tree, rule.kernel, "kernel"),
                 initrd  |-> FindByPriority(tree, rule.initrd, "initrd"),
                 modloop |-> FindByPriority(tree, rule.modloop, "extra")]))
=============================================================================
