------------------------ MODULE Extraction_proofs ------------------------
(***************************************************************************)
(* Proofs about extractions and scans, for any OS types, any images and    *)
(* any number of steps: what each search may find, what each way to fill   *)
(* the boot directory leaves there, and the invariant that they add up to. *)
(***************************************************************************)
EXTENDS Extraction, FiniteSetTheorems, SequenceTheorems, WellFoundedInduction, TLAPS

-----------------------------------------------------------------------------
(***************************************************************************)
(* Files                                                                   *)
(***************************************************************************)
\* The sequences that names and directories are made of.
LEMMA OneIsSequence ==
  ASSUME NEW x
  PROVE  IsSequence(<<x>>)
<1>1. ToSet(<<x>>) = {x}
  BY DEF ToSet
<1> QED
  BY <1>1 DEF IsSequence

LEMMA TwoIsSequence ==
  ASSUME NEW x, NEW y
  PROVE  IsSequence(<<x, y>>)
<1>1. ToSet(<<x, y>>) = {x, y}
  BY DEF ToSet
<1> QED
  BY <1>1 DEF IsSequence

LEMMA NoneIsSequence == IsSequence(<<>>)
  BY DEF IsSequence

LEMMA FileMade ==
  ASSUME NEW d, IsSequence(d), NEW s, IsSequence(s), s # <<>>, NEW x, NEW u, NEW z, NEW c
  PROVE  IsFile([dir |-> d, stem |-> s, ext |-> x, upper |-> u, size |-> z, src |-> c])
<1> DEFINE f == [dir |-> d, stem |-> s, ext |-> x, upper |-> u, size |-> z, src |-> c]
<1>1. f.dir = d /\ f.stem = s /\ f.ext = x /\ f.upper = u /\ f.size = z /\ f.src = c
  OBVIOUS
<1>2. f = [dir |-> f.dir, stem |-> f.stem, ext |-> f.ext, upper |-> f.upper, size |-> f.size, src |-> f.src]
  OBVIOUS
<1> QED
  BY <1>1, <1>2 DEF IsFile

\* A file whose directory, whose case or whose name changes.
FileWith(f, d, s, x, u) == [dir |-> d, stem |-> s, ext |-> x, upper |-> u, size |-> f.size, src |-> f.src]

LEMMA FileChanged ==
  ASSUME NEW f, IsFile(f)
  PROVE  /\ \A d : [f EXCEPT !.dir = d] = FileWith(f, d, f.stem, f.ext, f.upper)
         /\ [f EXCEPT !.upper = FALSE] = FileWith(f, f.dir, f.stem, f.ext, FALSE)
         /\ \A p : At(p, f) = FileWith(f, p.dir, p.stem, p.ext, f.upper)
<1> DEFINE s == f.stem
<1> DEFINE x == f.ext
<1> DEFINE u == f.upper
<1> DEFINE z == f.size
<1> DEFINE c == f.src
<1> DEFINE o == f.dir
<1>1. f = [dir |-> o, stem |-> s, ext |-> x, upper |-> u, size |-> z, src |-> c]
  BY DEF IsFile
<1> HIDE DEF s, x, u, z, c, o
<1>2. \A d : [f EXCEPT !.dir = d] = [dir |-> d, stem |-> s, ext |-> x, upper |-> u, size |-> z, src |-> c]
  BY <1>1
<1>3. [f EXCEPT !.upper = FALSE] = [dir |-> o, stem |-> s, ext |-> x, upper |-> FALSE, size |-> z, src |-> c]
  <2>1. ASSUME NEW v
        PROVE  [f EXCEPT !.upper = v] = [dir |-> o, stem |-> s, ext |-> x, upper |-> v, size |-> z, src |-> c]
    BY <1>1
  <2> QED
    BY <2>1, Zenon
<1> QED
  BY <1>2, <1>3 DEF s, x, u, z, c, o, FileWith, At

LEMMA FileWithIsFile ==
  ASSUME NEW f, NEW d, IsSequence(d), NEW s, IsSequence(s), s # <<>>, NEW x, NEW u
  PROVE  /\ IsFile(FileWith(f, d, s, x, u))
         /\ PathOf(FileWith(f, d, s, x, u)) = [dir |-> d, stem |-> s, ext |-> x, upper |-> u]
         /\ FileWith(f, d, s, x, u).src = f.src
  BY FileMade DEF FileWith, PathOf

(***************************************************************************)
(* Trees and entries                                                       *)
(***************************************************************************)
HasPath(T, p) == \E f \in T : PathOf(f) = p
GoodTree(T)   == IsFiniteSet(T) /\ \A f \in T : IsFile(f)

\* What an entry names is in the tree.
OnDisk(e, T) ==
  /\ \A k \in DOMAIN e \ {"modules"} : HasPath(T, e[k])
  /\ "modules" \in DOMAIN e => \A p \in ToSet(e.modules) : HasPath(T, p)

\* Writing files into a tree loses no path.
LEMMA OverlayPaths ==
  ASSUME NEW S, NEW T, NEW p, HasPath(S, p) \/ HasPath(T, p)
  PROVE  HasPath(Overlay(S, T), p)
<1>1. CASE HasPath(T, p)
  BY <1>1 DEF HasPath, Overlay
<1>2. CASE ~HasPath(T, p)
  <2>1. PICK f \in S : PathOf(f) = p
    BY <1>2 DEF HasPath
  <2>2. f \in Overlay(S, T)
    BY <1>2, <2>1 DEF HasPath, Overlay
  <2> QED
    BY <2>1, <2>2 DEF HasPath
<1> QED
  BY <1>1, <1>2

LEMMA OverlayGood ==
  ASSUME NEW S, NEW T, GoodTree(S), GoodTree(T)
  PROVE  GoodTree(Overlay(S, T))
<1>1. Overlay(S, T) \subseteq S \cup T
  BY DEF Overlay
<1>2. IsFiniteSet(S \cup T)
  BY FS_Union DEF GoodTree
<1>3. IsFiniteSet(Overlay(S, T))
  BY <1>1, <1>2, FS_Subset
<1> QED
  BY <1>1, <1>3 DEF GoodTree

LEMMA OverlayOnDisk ==
  ASSUME NEW e, NEW S, NEW T, OnDisk(e, S) \/ OnDisk(e, T)
  PROVE  OnDisk(e, Overlay(S, T))
  BY OverlayPaths DEF OnDisk

LEMMA LargerOnDisk ==
  ASSUME NEW e, NEW S, NEW T, OnDisk(e, S), S \subseteq T
  PROVE  OnDisk(e, T)
  BY DEF OnDisk, HasPath

LEMMA FillingOnDisk ==
  ASSUME NEW e, NEW more, NEW T, OnDisk(e, T), OnDisk(more, T)
  PROVE  OnDisk(Filling(e, more), T)
<1> DEFINE g == Filling(e, more)
<1>1. DOMAIN g = DOMAIN e \cup DOMAIN more
  BY DEF Filling
<1>2. \A k \in DOMAIN g : g[k] = IF k \in DOMAIN e THEN e[k] ELSE more[k]
  BY DEF Filling
<1> HIDE DEF g
<1>3. ASSUME NEW k \in DOMAIN g \ {"modules"} PROVE HasPath(T, g[k])
  BY <1>1, <1>2 DEF OnDisk
<1>4. ASSUME "modules" \in DOMAIN g, NEW p \in ToSet(g.modules) PROVE HasPath(T, p)
  <2>1. g.modules = IF "modules" \in DOMAIN e THEN e.modules ELSE more.modules
    BY <1>2, <1>4
  <2> QED
    BY <1>1, <1>4, <2>1 DEF OnDisk
<1>5. OnDisk(g, T)
  BY <1>3, <1>4 DEF OnDisk
<1> QED
  BY <1>5 DEF g

\* One of the ways to fill the fields.
LEMMA EntriesFound ==
  ASSUME NEW found, NEW e \in Entries(found)
  PROVE  /\ DOMAIN e = {k \in DOMAIN found : found[k] # {}}
         /\ \A k \in DOMAIN e : \E f \in found[k] : e[k] = PathOf(f)
  BY DEF Entries

LEMMA EntriesOnDisk ==
  ASSUME NEW found, NEW T, \A k \in DOMAIN found : found[k] \subseteq T, "modules" \notin DOMAIN found,
         NEW e \in Entries(found)
  PROVE  OnDisk(e, T)
<1>1. DOMAIN e = {k \in DOMAIN found : found[k] # {}}
  BY EntriesFound
<1>2. \A k \in DOMAIN e : \E f \in found[k] : e[k] = PathOf(f)
  BY EntriesFound
<1>3. "modules" \notin DOMAIN e
  BY <1>1
<1>4. ASSUME NEW k \in DOMAIN e PROVE HasPath(T, e[k])
  <2>1. k \in DOMAIN found
    BY <1>1
  <2> QED
    BY <1>2, <2>1 DEF HasPath
<1> QED
  BY <1>3, <1>4 DEF OnDisk

\* A search returns files of the tree that match a name.
LEMMA CandidatesMatch ==
  ASSUME NEW T, NEW names, NEW mode, NEW f \in Candidates(T, names, mode)
  PROVE  f \in T /\ \E i \in DOMAIN names : Matches(f, names[i], mode)
  BY DEF Candidates

LEMMA FindInDestMatch ==
  ASSUME NEW T, NEW names, NEW mode, NEW dirs, NEW f \in FindInDest(T, names, mode, dirs)
  PROVE  f \in T /\ \E i \in DOMAIN names : Matches(f, names[i], mode)
<1>1. f \in Candidates(T, names, mode)
  BY DEF FindInDest, Largest
<1> QED
  BY <1>1, CandidatesMatch

LEMMA FindInDestIn ==
  ASSUME NEW T, NEW names, NEW mode, NEW dirs
  PROVE  FindInDest(T, names, mode, dirs) \subseteq T
  BY FindInDestMatch

LEMMA FindByPriorityIn ==
  ASSUME NEW T, NEW names, NEW mode
  PROVE  FindByPriority(T, names, mode) \subseteq T
  BY CandidatesMatch DEF FindByPriority, Largest

\* What a kernel and an initrd found in a tree make.
LEMMA PairOnDisk ==
  ASSUME NEW T, NEW K \in SUBSET T, NEW I \in SUBSET T, NEW e \in Entries(KernelInitrd(K, I))
  PROVE  OnDisk(e, T)
<1> DEFINE found == KernelInitrd(K, I)
<1>1. DOMAIN found = {"kernel", "initrd"} /\ found["kernel"] = K /\ found["initrd"] = I
  BY DEF KernelInitrd
<1>2. e \in Entries(found)
  OBVIOUS
<1> HIDE DEF found
<1> QED
  BY <1>1, <1>2, EntriesOnDisk

LEMMA BothOfHas ==
  ASSUME NEW es, NEW e \in BothOf(es), e # Failed
  PROVE  e \in es /\ {"kernel", "initrd"} \subseteq DOMAIN e
  BY DEF BothOf, FailUnless, Has

LEMMA OneOfHas ==
  ASSUME NEW es, NEW e \in OneOf(es), e # Failed
  PROVE  e \in es
  BY DEF OneOf, FailUnless

-----------------------------------------------------------------------------
(***************************************************************************)
(* The finders                                                             *)
(***************************************************************************)
LEMMA UbuntuFound ==
  ASSUME NEW T, NEW rule, NEW e \in FindUbuntu(T, rule), e # Failed
  PROVE  OnDisk(e, T)
<1>1. PICK K, I : K \subseteq T /\ I \subseteq T /\ e \in Entries(KernelInitrd(K, I))
  BY OneOfHas, FindInDestIn DEF FindUbuntu
<1> QED
  BY <1>1, PairOnDisk

LEMMA DebianFound ==
  ASSUME NEW T, NEW rule, NEW e \in FindDebian(T, rule), e # Failed
  PROVE  OnDisk(e, T) /\ {"kernel", "initrd"} \subseteq DOMAIN e
<1>1. {"kernel", "initrd"} \subseteq DOMAIN e /\ \E K, I : K \subseteq T /\ I \subseteq T /\ e \in Entries(KernelInitrd(K, I))
  BY BothOfHas, FindInDestIn DEF FindDebian
<1> QED
  BY <1>1, PairOnDisk

LEMMA ElFound ==
  ASSUME NEW T, NEW rule, NEW e \in FindEl(T, rule), e # Failed
  PROVE  OnDisk(e, T) /\ {"kernel", "initrd"} \subseteq DOMAIN e
<1>1. {"kernel", "initrd"} \subseteq DOMAIN e /\ \E K, I : K \subseteq T /\ I \subseteq T /\ e \in Entries(KernelInitrd(K, I))
  BY BothOfHas, FindInDestIn DEF FindEl
<1> QED
  BY <1>1, PairOnDisk

LEMMA WindowsFound ==
  ASSUME NEW T, NEW e \in FindWindows(T), e # Failed
  PROVE  OnDisk(e, T) /\ WindowsFields \subseteq DOMAIN e
<1> DEFINE found == [bcd      |-> BestRanked(Bcd(T), WinRankBefore),
                     boot_sdi |-> BestRanked(BootSdi(T), WinRankBefore),
                     boot_wim |-> BestRanked(BootWim(T), WinRankBefore),
                     bootmgr  |-> BestRanked(Bootmgr(T), MgrRankBefore)]
<1>1. e \in Entries(found) /\ WindowsFields \subseteq DOMAIN e
  BY DEF FindWindows, FailUnless, Has
<1>2. DOMAIN found = {"bcd", "boot_sdi", "boot_wim", "bootmgr"}
  OBVIOUS
<1>3. \A k \in DOMAIN found : found[k] \subseteq T
  BY DEF BestRanked, Bcd, BootSdi, BootWim, Bootmgr
<1> HIDE DEF found
<1> QED
  BY <1>1, <1>2, <1>3, EntriesOnDisk

\* Names that the manager gives to the images that it makes are no kernel's and no
\* initrd's.
NetbootPath(p) == p.stem \in NetbootNames /\ p.ext = ".iso"
Fixed(e)       == \A k \in DOMAIN e \ {"modules"} : ~NetbootPath(e[k])

LEMMA PairFixed ==
  ASSUME NEW K, NEW I, \A f \in K \cup I : ~NetbootPath(PathOf(f)), NEW e \in Entries(KernelInitrd(K, I))
  PROVE  Fixed(e) /\ "modules" \notin DOMAIN e
<1> DEFINE found == KernelInitrd(K, I)
<1>1. DOMAIN found = {"kernel", "initrd"} /\ found["kernel"] = K /\ found["initrd"] = I
  BY DEF KernelInitrd
<1>2. e \in Entries(found)
  OBVIOUS
<1> HIDE DEF found
<1>3. DOMAIN e = {k \in DOMAIN found : found[k] # {}}
  BY <1>2, EntriesFound
<1>4. \A k \in DOMAIN e : \E f \in found[k] : e[k] = PathOf(f)
  BY <1>2, EntriesFound
<1> QED
  BY <1>1, <1>3, <1>4 DEF Fixed

LEMMA KernelIsNoImage ==
  ASSUME NEW f, IsFile(f), NEW stem \in {"vmlinuz", "linux26", "bzimage", "linux"}, Matches(f, Plain(stem), "kernel")
  PROVE  ~NetbootPath(PathOf(f))
<1>1. f.stem \in Seq(ToSet(f.stem)) /\ f.stem # <<>>
  BY DEF IsFile, IsSequence
<1>2. f.stem = <<stem>> \/ IsStrictPrefix(<<stem>>, f.stem)
  BY DEF Matches, Plain, Name, NameOf
<1>3. f.stem[1] = stem
  BY <1>1, <1>2 DEF IsStrictPrefix, IsPrefix
<1> QED
  BY <1>3 DEF NetbootPath, NetbootNames, PathOf

LEMMA InitrdIsNoImage ==
  ASSUME NEW f, NEW n, Matches(f, n, "initrd")
  PROVE  ~NetbootPath(PathOf(f))
  BY DEF Matches, NetbootPath, PathOf, InitrdExtensions

LEMMA ProxmoxFound ==
  ASSUME NEW T, GoodTree(T), NEW e \in FindProxmox(T, DistroRules.proxmox), e # Failed
  PROVE  OnDisk(e, T) /\ {"kernel", "initrd"} \subseteq DOMAIN e /\ Fixed(e) /\ "modules" \notin DOMAIN e
<1> DEFINE rule == DistroRules.proxmox
<1> DEFINE dirs == {"boot", "efi", "grub"}
<1> DEFINE K1 == FindInDest(T, rule.kernel, "kernel", dirs)
<1> DEFINE K2 == FindInDest(T, <<Plain("vmlinuz")>>, "kernel", dirs)
<1> DEFINE K == IF K1 # {} THEN K1 ELSE K2
<1> DEFINE I == FindInDest(T, rule.initrd, "initrd", dirs)
<1>1. e \in Entries(KernelInitrd(K, I)) /\ {"kernel", "initrd"} \subseteq DOMAIN e
  BY BothOfHas DEF FindProxmox
<1>2. rule.kernel = <<Plain("linux26")>>
  BY DEF DistroRules
<1>3. ASSUME NEW f \in K PROVE f \in T /\ ~NetbootPath(PathOf(f))
  <2>1. f \in T /\ (Matches(f, Plain("linux26"), "kernel") \/ Matches(f, Plain("vmlinuz"), "kernel"))
    BY <1>2, <1>3, FindInDestMatch
  <2> QED
    BY <2>1, KernelIsNoImage DEF GoodTree
<1>4. ASSUME NEW f \in I PROVE f \in T /\ ~NetbootPath(PathOf(f))
  BY <1>4, FindInDestMatch, InitrdIsNoImage
<1> HIDE DEF K, I, rule
<1>5. K \subseteq T /\ I \subseteq T
  BY <1>3, <1>4
<1> QED
  BY <1>1, <1>3, <1>4, <1>5, PairOnDisk, PairFixed

\* The files found in the image are copied to the root of the boot directory.
LEMMA LinuxFound ==
  ASSUME NEW T, \A f \in T : IsFile(f), NEW rule, NEW e \in FindLinux(T, rule), e # Failed
  PROVE  /\ "modules" \notin DOMAIN e
         /\ \A k \in DOMAIN e : \E f \in T : e[k] = PathOf(f)
<1> DEFINE found == [kernel  |-> FindByPriority(T, rule.kernel, "kernel"),
                     initrd  |-> FindByPriority(T, rule.initrd, "initrd"),
                     modloop |-> FindByPriority(T, rule.modloop, "extra")]
<1>1. e \in Entries(found)
  BY OneOfHas DEF FindLinux
<1>2. DOMAIN found = {"kernel", "initrd", "modloop"} /\ \A k \in DOMAIN found : found[k] \subseteq T
  BY FindByPriorityIn
<1> HIDE DEF found
<1>3. DOMAIN e = {k \in DOMAIN found : found[k] # {}}
  BY <1>1, EntriesFound
<1>4. \A k \in DOMAIN e : \E f \in found[k] : e[k] = PathOf(f)
  BY <1>1, EntriesFound
<1> QED
  BY <1>2, <1>3, <1>4

-----------------------------------------------------------------------------
(***************************************************************************)
(* Publication of the Proxmox image                                        *)
(***************************************************************************)
LEMMA MigrateKeeps ==
  ASSUME NEW T, NEW p, HasPath(T, p), ~NetbootPath(p)
  PROVE  HasPath(MigrateLegacy(T), p)
<1> DEFINE legacy == {f \in T : IsNetboot(f) /\ f.dir = <<>>}
<1> DEFINE moved == {[f EXCEPT !.dir = <<"netboot">>] : f \in legacy}
<1>1. HasPath(T \ legacy, p)
  BY DEF HasPath, IsNetboot, NetbootPath, PathOf
<1>2. MigrateLegacy(T) = Overlay(moved, T \ legacy)
  BY DEF MigrateLegacy
<1> QED
  BY <1>1, <1>2, OverlayPaths

LEMMA MigrateGood ==
  ASSUME NEW T, GoodTree(T)
  PROVE  GoodTree(MigrateLegacy(T))
<1> DEFINE legacy == {f \in T : IsNetboot(f) /\ f.dir = <<>>}
<1> DEFINE moved == {[f EXCEPT !.dir = <<"netboot">>] : f \in legacy}
<1>1. IsFiniteSet(legacy) /\ IsFiniteSet(T \ legacy)
  BY FS_Subset DEF GoodTree
<1>2. IsFiniteSet(moved)
  <2> DEFINE g == [f \in legacy |-> [f EXCEPT !.dir = <<"netboot">>]]
  <2>1. g \in Surjection(legacy, moved)
    BY DEF Surjection
  <2> HIDE DEF g, legacy, moved
  <2> QED
    BY <1>1, <2>1, FS_Surjection
<1>3. ASSUME NEW f \in legacy PROVE IsFile([f EXCEPT !.dir = <<"netboot">>])
  <2>1. IsFile(f)
    BY DEF GoodTree
  <2>2. [f EXCEPT !.dir = <<"netboot">>] = FileWith(f, <<"netboot">>, f.stem, f.ext, f.upper)
    BY <2>1, FileChanged
  <2> QED
    BY <2>1, <2>2, FileWithIsFile, OneIsSequence DEF IsFile
<1>4. MigrateLegacy(T) = Overlay(moved, T \ legacy)
  BY DEF MigrateLegacy
<1>5. GoodTree(moved) /\ GoodTree(T \ legacy)
  BY <1>1, <1>2, <1>3 DEF GoodTree
<1> QED
  BY <1>4, <1>5, OverlayGood

\* publish_proxmox_netboot_iso moves and replaces no file that the entry names.
LEMMA PublishKeeps ==
  ASSUME NEW o, NEW r, NEW src, NEW q \in Publish(o, r, src), GoodTree(r.dest), r = [dest |-> r.dest, entry |-> r.entry],
         r.entry # Failed => OnDisk(r.entry, r.dest),
         o.slug = "proxmox" /\ r.entry # Failed => Fixed(r.entry) /\ "modules" \notin DOMAIN r.entry
  PROVE  GoodTree(q.dest) /\ q.entry = r.entry /\ (q.entry # Failed => OnDisk(q.entry, q.dest))
<1>1. CASE o.slug = "proxmox" /\ r.entry # Failed
  <2> DEFINE m == MigrateLegacy(r.dest)
  <2> DEFINE kept == {f \in m : ~(IsNetboot(f) /\ f.dir = <<"netboot">>)}
  <2>1. q.entry = r.entry /\ q.dest \in {m, Overlay(kept, {NetbootIso(src)})}
    BY <1>1 DEF Publish, PublishNetboot
  <2>2. GoodTree(m)
    BY MigrateGood
  <2> HIDE DEF m
  <2>3. GoodTree(kept) /\ GoodTree({NetbootIso(src)})
    <3>1. IsFiniteSet(kept) /\ IsFiniteSet({NetbootIso(src)})
      BY <2>2, FS_Subset, FS_Singleton DEF GoodTree
    <3>2. IsFile(NetbootIso(src))
      BY FileMade, OneIsSequence, TwoIsSequence DEF NetbootIso
    <3> QED
      BY <2>2, <3>1, <3>2 DEF GoodTree
  <2>4. GoodTree(q.dest)
    BY <2>1, <2>2, <2>3, OverlayGood
  <2>5. ASSUME NEW k \in DOMAIN r.entry PROVE HasPath(q.dest, r.entry[k])
    <3>1. HasPath(r.dest, r.entry[k]) /\ ~NetbootPath(r.entry[k])
      BY <1>1 DEF OnDisk, Fixed
    <3>2. HasPath(m, r.entry[k])
      BY <3>1, MigrateKeeps DEF m
    <3>3. HasPath(kept, r.entry[k])
      BY <3>1, <3>2 DEF HasPath, IsNetboot, NetbootPath, PathOf
    <3> HIDE DEF kept
    <3> QED
      BY <2>1, <3>2, <3>3, OverlayPaths
  <2> QED
    BY <1>1, <2>1, <2>4, <2>5 DEF OnDisk
<1>2. CASE ~(o.slug = "proxmox" /\ r.entry # Failed)
  <2>1. q = r
    BY <1>2 DEF Publish
  <2> QED
    BY <2>1
<1> QED
  BY <1>1, <1>2

-----------------------------------------------------------------------------
(***************************************************************************)
(* ESXi                                                                    *)
(***************************************************************************)
\* A file of T under the same name, from the same file of an image.
From(f, T) == \E g \in T : f.src = g.src /\ NameOf(f) = NameOf(g)

\* One lower-case tree: no file but one of the image, under its own name.
LEMMA MaterializeKeeps ==
  ASSUME NEW T, GoodTree(T)
  PROVE  /\ GoodTree(Materialize(T))
         /\ \A f \in Materialize(T) : f.upper = FALSE /\ From(f, T)
<1> DEFINE kept == {g \in T : ~\E h \in T : PathOf(h) # PathOf(g) /\ Lower(PathOf(h)) = Lower(PathOf(g)) /\ InCapitals(h)}
<1> DEFINE low  == [g \in kept |-> Lower(g)]
<1>1. Materialize(T) = {Lower(g) : g \in kept}
  BY DEF Materialize
<1>2. kept \subseteq T /\ IsFiniteSet(kept)
  BY FS_Subset DEF GoodTree
<1> HIDE DEF kept
<1>3. low \in Surjection(kept, Materialize(T))
  BY <1>1 DEF Surjection
<1>4. IsFiniteSet(Materialize(T))
  <2> HIDE DEF low
  <2> QED
    BY <1>2, <1>3, FS_Surjection
<1>5. ASSUME NEW g \in kept
      PROVE  IsFile(Lower(g)) /\ Lower(g).upper = FALSE /\ From(Lower(g), T)
  <2>1. IsFile(g) /\ g \in T
    BY <1>2 DEF GoodTree
  <2>2. Lower(g) = FileWith(g, g.dir, g.stem, g.ext, FALSE)
    BY <2>1, FileChanged DEF Lower
  <2>3. IsFile(Lower(g))
    <3>1. IsSequence(g.dir) /\ IsSequence(g.stem) /\ g.stem # <<>>
      BY <2>1 DEF IsFile
    <3>2. ASSUME NEW u PROVE IsFile(FileWith(g, g.dir, g.stem, g.ext, u))
      BY <3>1, FileWithIsFile
    <3>3. IsFile(FileWith(g, g.dir, g.stem, g.ext, FALSE))
      BY <3>2, Zenon
    <3> QED
      BY <2>2, <3>3
  <2>4. Lower(g).upper = FALSE /\ Lower(g).src = g.src /\ NameOf(Lower(g)) = NameOf(g)
    BY <2>2 DEF FileWith, NameOf, Name
  <2> QED
    BY <2>1, <2>3, <2>4 DEF From
<1> QED
  BY <1>1, <1>4, <1>5 DEF GoodTree

LEMMA AliasKeeps ==
  ASSUME NEW index, GoodTree(index), NEW tree \in WithCryptoAlias(index)
  PROVE  /\ GoodTree(tree) /\ index \subseteq tree /\ \A f \in tree : From(f, index)
         /\ \A f \in tree : IsBootCfg(f) => f \in index
<1>0. \A f \in index : From(f, index)
  BY DEF From
<1>1. CASE tree = index
  BY <1>0, <1>1
<1>2. ASSUME NEW c \in Crypto(index), tree = index \cup {[c EXCEPT !.dir = <<>>]}
      PROVE  /\ GoodTree(tree) /\ index \subseteq tree /\ \A f \in tree : From(f, index)
             /\ \A f \in tree : IsBootCfg(f) => f \in index
  <2> DEFINE a == [c EXCEPT !.dir = <<>>]
  <2>1. c \in index /\ IsFile(c) /\ NameOf(c) = Name(<<"crypto64">>, ".efi")
    BY DEF GoodTree, Crypto
  <2>2. a = FileWith(c, <<>>, c.stem, c.ext, c.upper)
    BY <2>1, FileChanged
  <2>3. IsFile(a)
    BY <2>1, <2>2, FileWithIsFile, NoneIsSequence DEF IsFile
  <2>4. From(a, index) /\ NameOf(a) = NameOf(c)
    BY <2>1, <2>2 DEF From, FileWith, NameOf, Name
  <2>7. ~IsBootCfg(a)
    BY <2>1, <2>4 DEF IsBootCfg, Name
  <2> HIDE DEF a
  <2>5. IsFiniteSet({a})
    BY FS_Singleton
  <2>6. tree = index \cup {a} /\ IsFiniteSet(tree)
    BY <1>2, <2>5, FS_Union DEF GoodTree, a
  <2> QED
    BY <1>0, <2>3, <2>4, <2>6, <2>7 DEF GoodTree
<1>3. tree = index \/ \E c \in Crypto(index) : tree = index \cup {[c EXCEPT !.dir = <<>>]}
  BY DEF WithCryptoAlias, Shallowest
<1> QED
  BY <1>1, <1>2, <1>3

LEMMA RefNamed ==
  ASSUME NEW f, NEW ref, NEW d, PathOf(f) = [ref EXCEPT !.dir = d]
  PROVE  NameOf(f) = NameOf(ref)
<1> DEFINE p == PathOf(f)
<1>1. DOMAIN p = {"dir", "stem", "ext", "upper"} /\ p.stem = f.stem /\ p.ext = f.ext
  BY DEF PathOf
<1>2. p = [x \in DOMAIN ref |-> IF x = "dir" THEN d ELSE ref[x]]
  OBVIOUS
<1> HIDE DEF p
<1>3. p.stem = ref.stem /\ p.ext = ref.ext
  BY <1>1, <1>2
<1> QED
  BY <1>1, <1>3 DEF NameOf, Name

LEMMA Resolved ==
  ASSUME NEW tree, NEW index \in SUBSET tree, NEW cfgDir, NEW prefix, NEW ref,
         NEW f \in Resolve(tree, index, cfgDir, prefix, ref)
  PROVE  f \in tree /\ NameOf(f) = NameOf(ref)
<1>1. \/ f \in tree /\ \E d : PathOf(f) = [ref EXCEPT !.dir = d]
      \/ f \in index /\ NameOf(f) = NameOf(ref)
  BY DEF Resolve, Shallowest
<1> QED
  BY <1>1, RefNamed

LEMMA SetToSeqLists ==
  ASSUME NEW S, IsFiniteSet(S)
  PROVE  SetToSeq(S) \in Seq(S)
<1>1. \E f \in [1..Cardinality(S) -> S] : IsInjective(f)
  <2>1. ExistsBijection(1..Cardinality(S), S)
    BY FS_CardinalityType
  <2> QED
    BY <2>1 DEF ExistsBijection, Bijection, Injection
<1>2. SetToSeq(S) \in [1..Cardinality(S) -> S]
  BY <1>1 DEF SetToSeq
<1> QED
  BY <1>2, FS_CardinalityType

\* The preload list: crypto64.efi or nothing, the kernel, the modules in order.
PayloadOf(p, tree, refs) ==
  \E s \in Seq(tree), k \in tree, ms \in Seq(tree) :
    /\ p = (s \o <<k>>) \o ms
    /\ Len(ms) = Len(refs) /\ \A i \in 1..Len(refs) : NameOf(ms[i]) = NameOf(refs[i])

\* _esxi_boot_cfg_http_payload keeps VMware's order.
LEMMA PayloadShape ==
  ASSUME NEW tree, NEW index \in SUBSET tree, IsFiniteSet(index), NEW c, IsSequence(RefsIn(c)),
         NEW p \in Payloads(tree, index, c)
  PROVE  PayloadOf(p, tree, RefsIn(c))
<1> DEFINE cfg == CfgText(c.src)
<1> DEFINE refs == ModuleRefs(cfg)
<1>0. IsSequence(refs)
  BY DEF RefsIn
<1> DEFINE at(ref) == Resolve(tree, index, c.dir, Prefix(cfg), ref)
<1> DEFINE lists == Picks([i \in DOMAIN refs |-> at(refs[i])])
<1> DEFINE crypto == Shallowest(Crypto(index))
<1> DEFINE ahead(k, ms) == {x \in crypto : x.src \notin {f.src : f \in {k} \cup ToSet(ms)}}
<1>1. PICK ms \in lists, k \in UNION {at(ref) : ref \in KernelRef(cfg)} : p = Preload(SetToSeq(ahead(k, ms)), k, ms)
  BY DEF Payloads
<1>2. k \in tree
  BY Resolved
<1>3. DOMAIN ms = DOMAIN refs /\ \A i \in DOMAIN refs : ms[i] \in at(refs[i])
  <2>1. ms \in lists
    OBVIOUS
  <2> QED
    BY <2>1 DEF Picks
<1>4. Len(refs) \in Nat /\ DOMAIN refs = 1..Len(refs)
  <2> HIDE DEF refs
  <2>1. refs \in Seq(ToSet(refs))
    BY <1>0 DEF IsSequence
  <2> QED
    BY <2>1
<1>5. \A i \in 1..Len(refs) : ms[i] \in tree /\ NameOf(ms[i]) = NameOf(refs[i])
  BY <1>3, <1>4, Resolved
<1>6. ms \in Seq(tree) /\ Len(ms) = Len(refs)
  <2>1. ms = [i \in DOMAIN ms |-> ms[i]]
    <3>1. ms \in lists
      OBVIOUS
    <3> QED
      BY <3>1 DEF Picks
  <2> HIDE DEF refs, lists
  <2>2. ms \in [1..Len(refs) -> tree]
    BY <1>3, <1>4, <1>5, <2>1
  <2> QED
    BY <1>4, <2>2
<1> DEFINE s == SetToSeq(ahead(k, ms))
<1>7. s \in Seq(tree)
  <2>1. ahead(k, ms) \subseteq index
    BY DEF Shallowest, Crypto
  <2>2. IsFiniteSet(ahead(k, ms))
    BY <2>1, FS_Subset
  <2>3. s \in Seq(ahead(k, ms))
    BY <2>2, SetToSeqLists
  <2> HIDE DEF s, ahead
  <2> QED
    BY <2>1, <2>3, SeqMonotonic
<1> HIDE DEF refs, lists, s
<1>8. p = (s \o <<k>>) \o ms
  BY <1>1 DEF Preload, s
<1>9. PayloadOf(p, tree, refs)
  BY <1>2, <1>5, <1>6, <1>7, <1>8 DEF PayloadOf
<1> QED
  BY <1>9 DEF refs, RefsIn

\* The paths of a preload list.
ModulesOf(p) == [i \in DOMAIN p |-> PathOf(p[i])]

\* A preload list of a tree: paths of its files, those of the modules at the end.
ListOf(m, T, refs) ==
  /\ m \in Seq(ToSet(m)) /\ Len(refs) \in Nat /\ Len(m) >= Len(refs)
  /\ \A q \in ToSet(m) : HasPath(T, q)
  /\ \A i \in 1..Len(refs) : NameOf(m[Len(m) - Len(refs) + i]) = NameOf(refs[i])

LEMMA PayloadIsList ==
  ASSUME NEW T, NEW refs, IsSequence(refs), NEW p, PayloadOf(p, T, refs)
  PROVE  ListOf(ModulesOf(p), T, refs)
<1>1. PICK s \in Seq(T), k \in T, ms \in Seq(T) :
        /\ p = (s \o <<k>>) \o ms
        /\ Len(ms) = Len(refs) /\ \A i \in 1..Len(refs) : NameOf(ms[i]) = NameOf(refs[i])
  BY DEF PayloadOf
<1>2. p \in Seq(T) /\ Len(p) = Len(s) + 1 + Len(ms)
  <2> DEFINE a == s \o <<k>>
  <2>1. a \in Seq(T) /\ Len(a) = Len(s) + 1
    OBVIOUS
  <2> HIDE DEF a
  <2>2. p = a \o ms /\ ms \in Seq(T)
    BY <1>1 DEF a
  <2>3. p \in Seq(T) /\ Len(p) = Len(a) + Len(ms)
    BY <2>1, <2>2, ConcatProperties
  <2> QED
    BY <2>1, <2>3
<1>3. \A i \in 1..Len(ms) : p[Len(p) - Len(ms) + i] = ms[i]
  <2> DEFINE a == s \o <<k>>
  <2>1. a \in Seq(T) /\ Len(a) = Len(s) + 1
    OBVIOUS
  <2> HIDE DEF a
  <2>2. p = a \o ms
    BY <1>1 DEF a
  <2> QED
    BY <1>2, <2>1, <2>2
<1> DEFINE m == ModulesOf(p)
<1>4. /\ Len(m) = Len(p) /\ Len(p) \in Nat /\ DOMAIN m = 1..Len(p)
      /\ \A i \in 1..Len(p) : m[i] = PathOf(p[i]) /\ p[i] \in T
  <2>1. DOMAIN p = 1..Len(p) /\ Len(p) \in Nat
    BY <1>2
  <2>2. DOMAIN m = 1..Len(p) /\ \A i \in 1..Len(p) : m[i] = PathOf(p[i])
    BY <2>1 DEF ModulesOf
  <2>3. m \in Seq({PathOf(f) : f \in T})
    BY <1>2, <2>1 DEF ModulesOf
  <2> HIDE DEF m
  <2> QED
    BY <1>2, <2>1, <2>2, <2>3
<1>5. m = [i \in 1..Len(p) |-> m[i]]
  BY <1>4 DEF ModulesOf
<1> HIDE DEF m
<1>6. m \in Seq(ToSet(m))
  BY <1>4, <1>5 DEF ToSet
<1>7. ASSUME NEW q \in ToSet(m) PROVE HasPath(T, q)
  BY <1>4 DEF ToSet, HasPath
<1>8. Len(refs) \in Nat
  BY DEF IsSequence
<1>9. ASSUME NEW i \in 1..Len(refs)
      PROVE  NameOf(m[Len(m) - Len(refs) + i]) = NameOf(refs[i])
  <2>1. Len(m) - Len(refs) + i \in 1..Len(p)
    BY <1>1, <1>2, <1>4, <1>8
  <2>2. m[Len(m) - Len(refs) + i] = PathOf(ms[i])
    BY <1>1, <1>3, <1>4, <2>1
  <2>3. NameOf(PathOf(ms[i])) = NameOf(ms[i])
    BY DEF NameOf, Name, PathOf
  <2> QED
    BY <1>1, <2>2, <2>3
<1>10. Len(m) >= Len(refs)
  BY <1>1, <1>2, <1>4
<1>11. ListOf(m, T, refs)
  BY <1>6, <1>7, <1>8, <1>9, <1>10 DEF ListOf
<1> QED
  BY <1>11 DEF m

LEMMA ListLarger ==
  ASSUME NEW S, NEW T, NEW m, NEW refs, ListOf(m, S, refs), \A q : HasPath(S, q) => HasPath(T, q)
  PROVE  ListOf(m, T, refs)
  BY DEF ListOf

Ours(f) == NameOf(f) \in OurNames

LEMMA WrittenIsFile ==
  ASSUME NEW d, IsSequence(d), NEW s, IsSequence(s), s # <<>>, NEW x, NEW u,
         NEW p, p = [dir |-> d, stem |-> s, ext |-> x, upper |-> u]
  PROVE  IsFile(Written(p)) /\ PathOf(Written(p)) = p /\ NameOf(Written(p)) = Name(s, x)
<1>1. p.dir = d /\ p.stem = s /\ p.ext = x /\ p.upper = u
  OBVIOUS
<1>2. Written(p) = [dir |-> d, stem |-> s, ext |-> x, upper |-> u, size |-> 1, src |-> <<"generated", "cfg">>]
  BY <1>1 DEF Written
<1>3. IsFile(Written(p))
  BY <1>2, FileMade
<1>4. PathOf(Written(p)) = p /\ NameOf(Written(p)) = Name(s, x)
  BY <1>1, <1>2 DEF PathOf, NameOf
<1> QED
  BY <1>3, <1>4

LEMMA OurConfigs ==
  /\ GoodTree({Written(IpxeBootCfg), Written(IpxeManual)})
  /\ PathOf(Written(IpxeBootCfg)) = IpxeBootCfg
  /\ Ours(Written(IpxeBootCfg)) /\ Ours(Written(IpxeManual))
<1>1. IsSequence(<<"ipxe", "boot", "manual">>)
  <2>1. ToSet(<<"ipxe", "boot", "manual">>) = {"ipxe", "boot", "manual"}
    BY DEF ToSet
  <2> QED
    BY <2>1 DEF IsSequence
<1>2. ASSUME NEW u, NEW p, NEW s, IsSequence(s), s # <<>>, p = [dir |-> <<>>, stem |-> s, ext |-> ".cfg", upper |-> u]
      PROVE  IsFile(Written(p)) /\ PathOf(Written(p)) = p /\ NameOf(Written(p)) = Name(s, ".cfg")
  BY <1>2, WrittenIsFile, NoneIsSequence
<1>3. /\ IsFile(Written(IpxeBootCfg)) /\ PathOf(Written(IpxeBootCfg)) = IpxeBootCfg
      /\ NameOf(Written(IpxeBootCfg)) = Name(<<"ipxe", "boot">>, ".cfg")
  <2>1. IsSequence(<<"ipxe", "boot">>) /\ <<"ipxe", "boot">> # <<>>
    BY TwoIsSequence
  <2> QED
    BY <1>2, <2>1, Zenon DEF IpxeBootCfg
<1>4. /\ IsFile(Written(IpxeManual))
      /\ NameOf(Written(IpxeManual)) = Name(<<"ipxe", "boot", "manual">>, ".cfg")
  <2>1. <<"ipxe", "boot", "manual">> # <<>>
    OBVIOUS
  <2> QED
    BY <1>1, <1>2, <2>1, Zenon DEF IpxeManual
<1>5. IsFiniteSet({Written(IpxeBootCfg), Written(IpxeManual)})
  <2>1. IsFiniteSet({Written(IpxeBootCfg)}) /\ IsFiniteSet({Written(IpxeManual)})
    BY FS_Singleton
  <2>2. {Written(IpxeBootCfg), Written(IpxeManual)} = {Written(IpxeBootCfg)} \cup {Written(IpxeManual)}
    OBVIOUS
  <2> QED
    BY <2>1, <2>2, FS_Union
<1> QED
  BY <1>3, <1>4, <1>5 DEF GoodTree, Ours, OurNames

\* The loader under the name that the menu asks for.
LEMMA OurLoader ==
  ASSUME NEW f, IsFile(f), f.upper = FALSE
  PROVE  IsFile(At(MbootEfi, f)) /\ PathOf(At(MbootEfi, f)) = MbootEfi /\ Ours(At(MbootEfi, f))
<1>1. MbootEfi = [dir |-> <<>>, stem |-> <<"mboot">>, ext |-> ".efi", upper |-> f.upper]
  BY Zenon DEF MbootEfi
<1>2. MbootEfi.dir = <<>> /\ MbootEfi.stem = <<"mboot">> /\ MbootEfi.ext = ".efi"
  BY <1>1
<1>3. At(MbootEfi, f) = FileWith(f, <<>>, <<"mboot">>, ".efi", f.upper)
  BY <1>2 DEF At, FileWith
<1>4. IsFile(At(MbootEfi, f)) /\ PathOf(At(MbootEfi, f)) = MbootEfi
  BY <1>1, <1>3, FileWithIsFile, NoneIsSequence, OneIsSequence
<1>5. NameOf(At(MbootEfi, f)) = Name(<<"mboot">>, ".efi")
  BY <1>3 DEF NameOf, FileWith
<1> QED
  BY <1>4, <1>5 DEF Ours, OurNames

EsxiFields == {"kernel", "boot_cfg", "modules"}

\* The list ends with the modules of a boot.cfg that the directory has.
GoodEsxi(e, T) ==
  /\ DOMAIN e = EsxiFields
  /\ HasPath(T, e.kernel) /\ HasPath(T, e.boot_cfg)
  /\ \E c \in BootCfgs(T) : ListOf(e.modules, T, RefsIn(c))

LEMMA EsxiOnDisk ==
  ASSUME NEW e, NEW T, GoodEsxi(e, T)
  PROVE  OnDisk(e, T)
  BY DEF GoodEsxi, EsxiFields, OnDisk, ListOf

\* Each boot.cfg names a sequence of modules.
CfgsOK(S) == \A f \in S : IsBootCfg(f) => IsSequence(RefsIn(f))

LEMMA CfgsFrom ==
  ASSUME NEW S, NEW T, CfgsOK(T), \A f \in S : From(f, T)
  PROVE  CfgsOK(S)
  BY DEF CfgsOK, From, IsBootCfg, RefsIn

\* None of our own files is a boot.cfg.
LEMMA OursIsNoCfg ==
  ASSUME NEW f, Ours(f)
  PROVE  ~IsBootCfg(f)
<1>1. /\ Name(<<"boot">>, ".cfg") # Name(<<"mboot">>, ".efi")
      /\ Name(<<"boot">>, ".cfg") # Name(<<"ipxe", "boot">>, ".cfg")
      /\ Name(<<"boot">>, ".cfg") # Name(<<"ipxe", "boot", "manual">>, ".cfg")
  <2>1. Len(<<"boot">>) = 1 /\ Len(<<"ipxe", "boot">>) = 2 /\ Len(<<"ipxe", "boot", "manual">>) = 3
    OBVIOUS
  <2>2. ".cfg" # ".efi"
    OBVIOUS
  <2>3. \A a, b, x, y : Name(a, x) = Name(b, y) => a = b /\ x = y
    BY DEF Name
  <2> QED
    BY <2>1, <2>2, <2>3
<1> QED
  BY <1>1, Zenon DEF Ours, OurNames, IsBootCfg

\* What the manager writes over a tree leaves its boot.cfg.
LEMMA CfgsOver ==
  ASSUME NEW T, NEW new, \A f \in new : Ours(f)
  PROVE  BootCfgs(Overlay(T, new)) = BootCfgs(T)
<1>1. \A f \in new : ~IsBootCfg(f)
  BY OursIsNoCfg
<1>2. \A f \in T : IsBootCfg(f) => PathOf(f) \notin {PathOf(g) : g \in new}
  BY <1>1 DEF IsBootCfg, PathOf, NameOf, Name
<1>3. {f \in Overlay(T, new) : IsBootCfg(f)} = {f \in T : IsBootCfg(f)}
  BY <1>1, <1>2 DEF Overlay
<1> QED
  BY <1>3 DEF BootCfgs

\* A boot directory of ESXi: what the image has, in lower case, and our files.
EsxiTree(D, T) == GoodTree(D) /\ \A f \in D : From(f, T) \/ Ours(f)

\* _extract_esxi_from_full_dest: every outcome that is not a failure is on disk, in
\* VMware's order.
LEMMA EsxiOutcome ==
  ASSUME NEW T, GoodTree(T), CfgsOK(T), NEW r \in EsxiOutcomes(T)
  PROVE  /\ r = [dest |-> r.dest, entry |-> r.entry]
         /\ EsxiTree(r.dest, T) /\ BootCfgs(r.dest) = BootCfgs(Materialize(T))
         /\ r.entry # Failed => GoodEsxi(r.entry, r.dest)
<1> DEFINE index == Materialize(T)
<1>1. GoodTree(index) /\ CfgsOK(index) /\ \A f \in index : f.upper = FALSE /\ From(f, T)
  BY MaterializeKeeps, CfgsFrom
<1>2. PICK tree \in WithCryptoAlias(index) : r \in EsxiOutcomesIn(tree, index)
  BY DEF EsxiOutcomes
<1>3. EsxiTree(tree, T) /\ index \subseteq tree /\ BootCfgs(tree) = BootCfgs(index)
  <2>1. /\ GoodTree(tree) /\ index \subseteq tree /\ \A f \in tree : From(f, index)
        /\ \A f \in tree : IsBootCfg(f) => f \in index
    BY <1>1, AliasKeeps
  <2>2. \A f \in tree : From(f, T)
    BY <1>1, <2>1 DEF From
  <2>3. {f \in tree : IsBootCfg(f)} = {f \in index : IsBootCfg(f)}
    BY <2>1
  <2> QED
    BY <2>1, <2>2, <2>3 DEF EsxiTree, BootCfgs
<1> DEFINE with == WithCfgs(tree)
<1>4. /\ EsxiTree(with, T) /\ HasPath(with, IpxeBootCfg) /\ \A q : HasPath(tree, q) => HasPath(with, q)
      /\ BootCfgs(with) = BootCfgs(index)
  <2> DEFINE written == {Written(IpxeBootCfg), Written(IpxeManual)}
  <2>1. GoodTree(written) /\ HasPath(written, IpxeBootCfg) /\ \A f \in written : Ours(f)
    BY OurConfigs DEF HasPath
  <2> HIDE DEF written
  <2>2. with = Overlay(tree, written)
    BY DEF written, WithCfgs
  <2>3. GoodTree(with) /\ \A q : HasPath(tree, q) \/ HasPath(written, q) => HasPath(with, q)
    BY <1>3, <2>1, <2>2, OverlayGood, OverlayPaths DEF EsxiTree
  <2>4. with \subseteq tree \cup written /\ BootCfgs(with) = BootCfgs(index)
    BY <1>3, <2>1, <2>2, CfgsOver DEF Overlay
  <2> HIDE DEF with
  <2> QED
    BY <1>3, <2>1, <2>3, <2>4 DEF EsxiTree
<1>5. ASSUME NEW f \in Loaders(index), NEW p \in EsxiPayloads(tree, index)
      PROVE  /\ EsxiTree(WithLoader(tree, f), T) /\ BootCfgs(WithLoader(tree, f)) = BootCfgs(index)
             /\ GoodEsxi(EsxiEntry(p), WithLoader(tree, f))
  <2> DEFINE m == At(MbootEfi, f)
  <2>1. IsFile(m) /\ PathOf(m) = MbootEfi /\ Ours(m)
    <3>1. f \in index
      BY DEF Loaders, Shallowest
    <3> QED
      BY <1>1, <3>1, OurLoader DEF GoodTree
  <2>2. GoodTree({m}) /\ HasPath({m}, MbootEfi)
    BY <2>1, FS_Singleton DEF GoodTree, HasPath
  <2>3. PICK c \in BootCfgs(index) : ListOf(ModulesOf(p), tree, RefsIn(c))
    <3>1. PICK c \in BootCfgs(index) : p \in Payloads(tree, index, c)
      BY DEF EsxiPayloads
    <3>2. IsFiniteSet(index) /\ index \in SUBSET tree
      BY <1>1, <1>3 DEF GoodTree
    <3>4. IsSequence(RefsIn(c))
      BY <1>1 DEF CfgsOK, BootCfgs, Shallowest
    <3> HIDE DEF index
    <3>3. PayloadOf(p, tree, RefsIn(c))
      BY <3>1, <3>2, <3>4, PayloadShape
    <3> QED
      BY <3>3, <3>4, PayloadIsList
  <2> HIDE DEF m, with
  <2> DEFINE d == Overlay(with, {m})
  <2>4. /\ EsxiTree(d, T) /\ HasPath(d, MbootEfi) /\ \A q : HasPath(with, q) => HasPath(d, q)
        /\ BootCfgs(d) = BootCfgs(index)
    <3>1. d \subseteq with \cup {m}
      BY DEF Overlay
    <3>2. GoodTree(d)
      BY <1>4, <2>2, OverlayGood DEF EsxiTree
    <3>3. \A q : HasPath(with, q) \/ HasPath({m}, q) => HasPath(d, q)
      BY OverlayPaths
    <3>4. BootCfgs(d) = BootCfgs(index)
      BY <1>4, <2>1, CfgsOver
    <3> QED
      BY <1>4, <2>1, <2>2, <3>1, <3>2, <3>3, <3>4 DEF EsxiTree
  <2> HIDE DEF d
  <2>5. ListOf(ModulesOf(p), d, RefsIn(c))
    BY <1>4, <2>3, <2>4, ListLarger
  <2> DEFINE e == EsxiEntry(p)
  <2>6. DOMAIN e = EsxiFields /\ e.kernel = MbootEfi /\ e.boot_cfg = IpxeBootCfg /\ e.modules = ModulesOf(p)
    BY DEF EsxiEntry, EsxiFields, ModulesOf
  <2> HIDE DEF e
  <2>7. GoodEsxi(e, d)
    BY <1>4, <2>3, <2>4, <2>5, <2>6 DEF GoodEsxi
  <2>8. WithLoader(tree, f) = d
    BY DEF WithLoader, d, m, with
  <2> QED
    BY <2>4, <2>7, <2>8 DEF e
<1> DEFINE payloads == EsxiPayloads(tree, index)
<1>6. CASE payloads = {}
  <2>1. r = [dest |-> tree, entry |-> Failed]
    BY <1>2, <1>6 DEF EsxiOutcomesIn
  <2> QED
    BY <1>3, <2>1
<1>7. CASE payloads # {} /\ Loaders(index) = {}
  <2>1. r = [dest |-> with, entry |-> Failed]
    BY <1>2, <1>7 DEF EsxiOutcomesIn
  <2> QED
    BY <1>4, <2>1
<1>8. CASE payloads # {} /\ Loaders(index) # {}
  <2> HIDE DEF payloads, index
  <2>1. r \in {[dest |-> WithLoader(tree, f), entry |-> EsxiEntry(p)] : f \in Loaders(index), p \in payloads}
    BY <1>2, <1>8 DEF EsxiOutcomesIn, payloads
  <2>2. PICK f \in Loaders(index), p \in payloads : r = [dest |-> WithLoader(tree, f), entry |-> EsxiEntry(p)]
    BY <2>1
  <2> DEFINE w == WithLoader(tree, f)
  <2> DEFINE e == EsxiEntry(p)
  <2>3. EsxiTree(w, T) /\ BootCfgs(w) = BootCfgs(index) /\ GoodEsxi(e, w)
    BY <1>5 DEF payloads
  <2> HIDE DEF w, e
  <2>4. r = [dest |-> w, entry |-> e]
    BY <2>2 DEF w, e
  <2>5. r.dest = w /\ r.entry = e
    BY <2>4
  <2> QED
    BY <2>3, <2>4, <2>5 DEF index
<1> QED
  BY <1>6, <1>7, <1>8

-----------------------------------------------------------------------------
(***************************************************************************)
(* Plans                                                                   *)
(***************************************************************************)
\* The files of S are those of an image, some of them in another directory.
Taken(S, T) == \A f \in S : IsFile(f) /\ \E g \in T : f.src = g.src /\ NameOf(f) = NameOf(g)

LEMMA TakenFrom ==
  ASSUME NEW S, NEW T
  PROVE  Taken(S, T) <=> \A f \in S : IsFile(f) /\ From(f, T)
  BY DEF Taken, From

LEMMA HitsIn ==
  ASSUME NEW T, NEW spec, NEW S \in SpecHits(T, spec)
  PROVE  S \subseteq T
  BY DEF SpecHits, kSubset

Rooted(S) == {[f EXCEPT !.dir = <<>>] : f \in S}

LEMMA RootedFile ==
  ASSUME NEW f, IsFile(f)
  PROVE  LET g == [f EXCEPT !.dir = <<>>]
         IN IsFile(g) /\ g.src = f.src /\ NameOf(g) = NameOf(f) /\ PathOf(g) = [PathOf(f) EXCEPT !.dir = <<>>]
<1> DEFINE g == [f EXCEPT !.dir = <<>>]
<1>1. g = FileWith(f, <<>>, f.stem, f.ext, f.upper)
  BY FileChanged
<1>2. IsSequence(f.stem) /\ f.stem # <<>>
  BY DEF IsFile
<1> HIDE DEF g
<1>3. IsFile(g) /\ g.src = f.src /\ PathOf(g) = [dir |-> <<>>, stem |-> f.stem, ext |-> f.ext, upper |-> f.upper]
  BY <1>1, <1>2, FileWithIsFile, NoneIsSequence
<1>4. NameOf(g) = NameOf(f)
  BY <1>1 DEF FileWith, NameOf, Name
<1>5. [PathOf(f) EXCEPT !.dir = <<>>] = [dir |-> <<>>, stem |-> f.stem, ext |-> f.ext, upper |-> f.upper]
  BY DEF PathOf
<1>6. IsFile(g) /\ g.src = f.src /\ NameOf(g) = NameOf(f) /\ PathOf(g) = [PathOf(f) EXCEPT !.dir = <<>>]
  BY <1>3, <1>4, <1>5
<1> QED
  BY <1>6 DEF g

LEMMA RootedTaken ==
  ASSUME NEW T, GoodTree(T), NEW S \in SUBSET T
  PROVE  GoodTree(Rooted(S)) /\ Taken(Rooted(S), T)
<1> DEFINE root == [f \in S |-> [f EXCEPT !.dir = <<>>]]
<1>1. root \in Surjection(S, Rooted(S))
  BY DEF Surjection, Rooted
<1>2. IsFiniteSet(Rooted(S))
  <2>1. IsFiniteSet(S)
    BY FS_Subset DEF GoodTree
  <2> HIDE DEF root
  <2> QED
    BY <1>1, <2>1, FS_Surjection
<1>3. ASSUME NEW h \in Rooted(S) PROVE IsFile(h) /\ From(h, T)
  <2>1. PICK f \in S : h = [f EXCEPT !.dir = <<>>]
    BY DEF Rooted
  <2>2. IsFile(f) /\ f \in T
    BY DEF GoodTree
  <2> QED
    BY <2>1, <2>2, RootedFile DEF From
<1> QED
  BY <1>2, <1>3, TakenFrom DEF GoodTree

LEMMA CopiedTaken ==
  ASSUME NEW T, GoodTree(T), NEW spec, NEW S \in SUBSET T
  PROVE  GoodTree(Copied(spec, S)) /\ Taken(Copied(spec, S), T)
<1>1. CASE Copied(spec, S) = S
  BY <1>1, FS_Subset DEF GoodTree, Taken
<1>2. CASE Copied(spec, S) = Rooted(S)
  BY <1>2, RootedTaken
<1> QED
  BY <1>1, <1>2 DEF Copied, Rooted

\* What a plan leaves in the boot directory, and reports.
LEMMA ReportTaken ==
  ASSUME NEW o, NEW T, GoodTree(T), NEW r \in Report(o, T),
         IsSequence(Unified(o.specs))
  PROVE  /\ GoodTree(r.files) /\ Taken(r.files, T)
         /\ \A i \in DOMAIN r.report : r.report[i] \subseteq r.files
<1> DEFINE u == Unified(o.specs)
<1> DEFINE choices == Picks([i \in DOMAIN u |-> SpecHits(T, u[i])])
<1> DEFINE reported(c, i) == IF u[i].kind = "glob" THEN {}
                             ELSE IF o.full THEN c[i] ELSE Copied(u[i], c[i])
<1>1. PICK c \in choices :
        r = [files  |-> IF o.full THEN T ELSE UNION {Copied(u[i], c[i]) : i \in DOMAIN u},
             report |-> [i \in DOMAIN u |-> reported(c, i)]]
  BY DEF Report
<1>2. ASSUME NEW i \in DOMAIN u PROVE c[i] \subseteq T
  <2>1. c[i] \in SpecHits(T, u[i])
    BY DEF Picks
  <2> QED
    BY <2>1, HitsIn
<1> HIDE DEF u, choices
<1>3. r.report = [i \in DOMAIN u |-> reported(c, i)]
  BY <1>1
<1>4. CASE o.full
  <2>1. r.files = T
    BY <1>1, <1>4
  <2>2. Taken(T, T)
    BY DEF Taken, GoodTree
  <2>3. \A i \in DOMAIN u : reported(c, i) \subseteq T
    BY <1>2, <1>4
  <2> QED
    BY <1>3, <2>1, <2>2, <2>3
<1>5. CASE ~o.full
  <2> DEFINE parts == {Copied(u[i], c[i]) : i \in DOMAIN u}
  <2>1. r.files = UNION parts
    BY <1>1, <1>5
  <2>2. \A P \in parts : GoodTree(P) /\ Taken(P, T)
    BY <1>2, CopiedTaken
  <2>3. IsFiniteSet(parts)
    <3> DEFINE h == [i \in DOMAIN u |-> Copied(u[i], c[i])]
    <3>1. h \in Surjection(DOMAIN u, parts)
      BY DEF Surjection
    <3>2. IsFiniteSet(DOMAIN u)
      <4>1. IsSequence(u)
        BY DEF u
      <4>2. DOMAIN u = 1..Len(u) /\ Len(u) \in Nat
        BY <4>1 DEF IsSequence
      <4> QED
        BY <4>2, FS_Interval
    <3> HIDE DEF h, parts
    <3> QED
      BY <3>1, <3>2, FS_Surjection
  <2>4. \A i \in DOMAIN u : reported(c, i) \subseteq UNION parts
    BY <1>5
  <2> HIDE DEF parts
  <2>5. IsFiniteSet(UNION parts)
    BY <2>2, <2>3, FS_UNION DEF GoodTree
  <2>6. GoodTree(UNION parts) /\ Taken(UNION parts, T)
    BY <2>2, <2>5 DEF GoodTree, Taken
  <2> QED
    BY <1>3, <2>1, <2>4, <2>6
<1> QED
  BY <1>4, <1>5

LEMMA FullTakesAll ==
  ASSUME NEW o, NEW T, NEW r \in Report(o, T), o.full
  PROVE  r.files = T
<1> DEFINE u == Unified(o.specs)
<1> DEFINE reported(c, j) == IF u[j].kind = "glob" THEN {}
                             ELSE IF o.full THEN c[j] ELSE Copied(u[j], c[j])
<1>1. \E c : r = [files  |-> IF o.full THEN T ELSE UNION {Copied(u[j], c[j]) : j \in DOMAIN u},
                 report |-> [j \in DOMAIN u |-> reported(c, j)]]
  BY DEF Report
<1> QED
  BY <1>1

\* A full extraction reports files of the names the plan has.
LEMMA ReportNamed ==
  ASSUME NEW o, NEW T, NEW r \in Report(o, T), o.full, NEW i \in DOMAIN r.report, NEW f \in r.report[i]
  PROVE  i \in DOMAIN Unified(o.specs) /\ NameOf(f) = Unified(o.specs)[i].name
<1> DEFINE u == Unified(o.specs)
<1> DEFINE reported(c, j) == IF u[j].kind = "glob" THEN {}
                             ELSE IF o.full THEN c[j] ELSE Copied(u[j], c[j])
<1> DEFINE choices == Picks([j \in DOMAIN u |-> SpecHits(T, u[j])])
<1>0. PICK c \in choices :
        r = [files  |-> IF o.full THEN T ELSE UNION {Copied(u[j], c[j]) : j \in DOMAIN u},
             report |-> [j \in DOMAIN u |-> reported(c, j)]]
  BY DEF Report
<1>1. r.report = [j \in DOMAIN u |-> reported(c, j)]
  BY <1>0
<1>2. i \in DOMAIN u /\ u[i].kind # "glob" /\ f \in c[i]
  BY <1>1
<1>3. c[i] \in SpecHits(T, u[i])
  BY <1>2 DEF Picks
<1>4. f \in {g \in T : IF u[i].kind = "glob" THEN IsPrefix(u[i].name.stem, g.stem)
                        ELSE NameOf(g) = u[i].name}
  BY <1>2, <1>3 DEF SpecHits, kSubset
<1> QED
  BY <1>2, <1>4

\* An entry of the files in a tree, none of them an image of the manager's own.
\* Only the entries of ESXi have modules.
GoodEntry(e, T, own) ==
  OnDisk(e, T) /\ "modules" \notin DOMAIN e /\ (own => Fixed(e))

LEMMA TripleGood ==
  ASSUME NEW T, NEW K \in SUBSET T, NEW I \in SUBSET T, NEW M \in SUBSET T, NEW own,
         own => \A f \in K \cup I \cup M : ~NetbootPath(PathOf(f)),
         NEW e \in Entries([kernel |-> K, initrd |-> I, modloop |-> M])
  PROVE  GoodEntry(e, T, own)
<1> DEFINE found == [kernel |-> K, initrd |-> I, modloop |-> M]
<1>1. DOMAIN found = {"kernel", "initrd", "modloop"} /\ found["kernel"] = K /\ found["initrd"] = I /\ found["modloop"] = M
  OBVIOUS
<1>2. e \in Entries(found)
  OBVIOUS
<1> HIDE DEF found
<1>3. DOMAIN e = {k \in DOMAIN found : found[k] # {}}
  BY <1>2, EntriesFound
<1>4. \A k \in DOMAIN e : \E f \in found[k] : e[k] = PathOf(f)
  BY <1>2, EntriesFound
<1>5. OnDisk(e, T)
  BY <1>1, <1>2, EntriesOnDisk
<1>6. own => Fixed(e)
  BY <1>1, <1>3, <1>4 DEF Fixed
<1>7. "modules" \notin DOMAIN e
  BY <1>1, <1>3
<1> QED
  BY <1>5, <1>6, <1>7 DEF GoodEntry

LEMMA SlotsGood ==
  ASSUME NEW o, NEW report, NEW T, \A i \in DOMAIN report : report[i] \subseteq T,
         o.slug = "proxmox" => \A f \in T : ~IsNetboot(f),
         NEW e \in Slots(o, report)
  PROVE  GoodEntry(e, T, o.slug = "proxmox")
<1> DEFINE reporting == {i \in DOMAIN report : report[i] # {}}
<1> DEFINE chosen == {c \in [reporting -> UNION {report[i] : i \in reporting}] :
                        \A i \in reporting : c[i] \in report[i]}
<1>1. PICK c \in chosen : \E K, I, M :
        /\ K \subseteq {c[i] : i \in reporting} /\ I \subseteq {c[i] : i \in reporting}
        /\ M \subseteq {c[i] : i \in reporting}
        /\ e \in Entries([kernel |-> K, initrd |-> I, modloop |-> M])
  <2> DEFINE filling(c, s) == {i \in reporting : Slot(o, i, c[i]) = s}
  <2> DEFINE kernelOf(c) == IF filling(c, "kernel") # {} THEN filling(c, "kernel") ELSE filling(c, "kernel2")
  <2> DEFINE firstOf(S) == {i \in S : \A k \in S : i <= k}
  <2> DEFINE slot(c, s) == {c[i] : i \in firstOf(filling(c, s))}
  <2>1. PICK c \in chosen : e \in Entries([kernel  |-> {c[i] : i \in firstOf(kernelOf(c))},
                                            initrd  |-> slot(c, "initrd"),
                                            modloop |-> slot(c, "modloop")])
    BY DEF Slots
  <2>2. \A s : slot(c, s) \subseteq {c[i] : i \in reporting}
    OBVIOUS
  <2>3. {c[i] : i \in firstOf(kernelOf(c))} \subseteq {c[i] : i \in reporting}
    OBVIOUS
  <2> HIDE DEF slot, kernelOf, firstOf, filling
  <2> QED
    BY <2>1, <2>2, <2>3
<1>2. {c[i] : i \in reporting} \subseteq T
  OBVIOUS
<1> HIDE DEF chosen, reporting
<1>3. PICK K, I, M : /\ K \subseteq T /\ I \subseteq T /\ M \subseteq T
                     /\ e \in Entries([kernel |-> K, initrd |-> I, modloop |-> M])
  BY <1>1, <1>2
<1>4. o.slug = "proxmox" => \A f \in T : ~NetbootPath(PathOf(f))
  BY DEF IsNetboot, NetbootPath, PathOf
<1> QED
  BY <1>3, <1>4, TripleGood

LEMMA FillingGood ==
  ASSUME NEW e, NEW T, NEW own, GoodEntry(e, T, own),
         NEW more, OnDisk(more, T), "modules" \notin DOMAIN more, Fixed(more)
  PROVE  GoodEntry(Filling(e, more), T, own)
<1> DEFINE g == Filling(e, more)
<1>1. DOMAIN g = DOMAIN e \cup DOMAIN more
  BY DEF Filling
<1>2. \A j \in DOMAIN g : g[j] = IF j \in DOMAIN e THEN e[j] ELSE more[j]
  BY DEF Filling
<1>3. OnDisk(g, T)
  BY FillingOnDisk DEF GoodEntry
<1> HIDE DEF g
<1>4. own => Fixed(g)
  BY <1>1, <1>2 DEF GoodEntry, Fixed
<1>5. GoodEntry(g, T, own)
  BY <1>1, <1>3, <1>4 DEF GoodEntry
<1> QED
  BY <1>5 DEF g

LEMMA FilledGood ==
  ASSUME NEW e, NEW T, NEW own, GoodEntry(e, T, own), NEW k \in {"kernel", "initrd"},
         NEW ps, \A p \in ps : HasPath(T, p) /\ ~NetbootPath(p), NEW d \in Filled(e, k, ps)
  PROVE  GoodEntry(d, T, own)
<1>1. CASE d = e
  BY <1>1
<1>2. ASSUME NEW p \in ps, d = Filling(e, [j \in {k} |-> p]) PROVE GoodEntry(d, T, own)
  <2> DEFINE more == [j \in {k} |-> p]
  <2>1. DOMAIN more = {k} /\ more[k] = p
    OBVIOUS
  <2> HIDE DEF more
  <2>2. OnDisk(more, T) /\ "modules" \notin DOMAIN more /\ Fixed(more)
    BY <2>1 DEF OnDisk, Fixed
  <2>3. GoodEntry(Filling(e, more), T, own)
    BY <2>2, FillingGood
  <2> QED
    BY <1>2, <2>3 DEF more
<1> QED
  BY <1>1, <1>2 DEF Filled

\* _fallback_kernel_initrd_in_dest adds files of the directory only.
LEMMA FallbackGood ==
  ASSUME NEW o, NEW T, GoodTree(T), NEW own, NEW e, GoodEntry(e, T, own), NEW d \in Fallback(o, T, e)
  PROVE  GoodEntry(d, T, own)
<1> DEFINE proxmox == FindProxmox(T, DistroRules.proxmox)
<1> DEFINE kernels == IF o.slug = "proxmox"
                      THEN {p.kernel : p \in proxmox \ {Failed}}
                      ELSE {PathOf(f) : f \in FindInDest(T, GenericRule.kernel, "kernel", CasperDirs)}
<1> DEFINE names == IF o.slug = "proxmox" THEN DistroRules.proxmox.initrd ELSE GenericRule.initrd
<1> DEFINE initrds == {PathOf(f) : f \in FindInDest(T, names, "initrd", CasperDirs)}
<1>1. PICK x \in Filled(e, "kernel", kernels) : d \in Filled(x, "initrd", initrds)
  BY DEF Fallback
<1>2. ASSUME NEW p \in kernels PROVE HasPath(T, p) /\ ~NetbootPath(p)
  <2>1. CASE o.slug = "proxmox"
    <3>1. PICK q \in proxmox : q # Failed /\ p = q.kernel
      BY <1>2, <2>1
    <3>2. OnDisk(q, T) /\ {"kernel", "initrd"} \subseteq DOMAIN q /\ Fixed(q)
      BY <3>1, ProxmoxFound
    <3> QED
      BY <3>1, <3>2 DEF OnDisk, Fixed
  <2>2. CASE o.slug # "proxmox"
    <3>1. PICK f \in FindInDest(T, GenericRule.kernel, "kernel", CasperDirs) : p = PathOf(f)
      BY <1>2, <2>2
    <3>2. GenericRule.kernel = <<Plain("vmlinuz"), Plain("linux26"), Plain("bzimage")>>
      BY DEF GenericRule, LinuxRule
    <3>3. f \in T /\ \E i \in DOMAIN GenericRule.kernel : Matches(f, GenericRule.kernel[i], "kernel")
      BY FindInDestMatch
    <3>4. \E s \in {"vmlinuz", "linux26", "bzimage", "linux"} : Matches(f, Plain(s), "kernel")
      BY <3>2, <3>3
    <3> QED
      BY <3>1, <3>3, <3>4, KernelIsNoImage DEF GoodTree, HasPath
  <2> QED
    BY <2>1, <2>2
<1>3. ASSUME NEW p \in initrds PROVE HasPath(T, p) /\ ~NetbootPath(p)
  <2>1. PICK f \in FindInDest(T, names, "initrd", CasperDirs) : p = PathOf(f)
    BY <1>3
  <2>2. f \in T /\ \E i \in DOMAIN names : Matches(f, names[i], "initrd")
    BY FindInDestMatch
  <2> QED
    BY <2>1, <2>2, InitrdIsNoImage DEF HasPath
<1> HIDE DEF kernels, initrds
<1>4. GoodEntry(x, T, own)
  BY <1>1, <1>2, FilledGood
<1> QED
  BY <1>1, <1>3, <1>4, FilledGood

-----------------------------------------------------------------------------
(***************************************************************************)
(* Outcomes of an extraction                                               *)
(***************************************************************************)
\* An image with its boot.cfg at the root, in capitals, is read by that one.
OwnCfgFirst(T, files) ==
  OwnCfgs(files) # {} => \A c \in BootCfgs(T) : c.src \in {f.src : f \in OwnCfgs(files)}

\* What an outcome of an extraction of img over old must be.
Outcome(r, o, old, img) ==
  /\ r = [dest |-> r.dest, entry |-> r.entry]
  /\ GoodTree(r.dest)
  /\ o.boot = "esxi" => \A f \in r.dest : From(f, old \cup img.files) \/ Ours(f)
  /\ r.entry # Failed =>
        /\ OnDisk(r.entry, r.dest)
        /\ o.boot = "esxi" => GoodEsxi(r.entry, r.dest) /\ OwnCfgFirst(r.dest, img.files)
        /\ o.slug = "proxmox" => Fixed(r.entry) /\ "modules" \notin DOMAIN r.entry

LEMMA ProxmoxIsLinux ==
  ASSUME NEW o, OsTypeOK(o), o.slug = "proxmox"
  PROVE  o.boot = "linux"
  BY DEF OsTypeOK, DistroRules

LEMMA OutcomeOf ==
  ASSUME NEW o, NEW old, NEW img, NEW d, GoodTree(d),
         o.boot = "esxi" => \A f \in d : From(f, old \cup img.files) \/ Ours(f),
         NEW e, e # Failed =>
                  /\ OnDisk(e, d)
                  /\ o.boot = "esxi" => GoodEsxi(e, d) /\ OwnCfgFirst(d, img.files)
                  /\ o.slug = "proxmox" => Fixed(e) /\ "modules" \notin DOMAIN e
  PROVE  Outcome([dest |-> d, entry |-> e], o, old, img)
<1> DEFINE r == [dest |-> d, entry |-> e]
<1>1. r.dest = d /\ r.entry = e /\ r = [dest |-> r.dest, entry |-> r.entry]
  OBVIOUS
<1> HIDE DEF r
<1>2. Outcome(r, o, old, img)
  BY <1>1 DEF Outcome
<1> QED
  BY <1>2 DEF r

LEMMA NoEntryOnDisk ==
  ASSUME NEW T
  PROVE  OnDisk(NoEntry, T)
<1>1. DOMAIN NoEntry = {}
  BY DEF NoEntry
<1> QED
  BY <1>1 DEF OnDisk

\* What is extracted over the tree of an earlier extraction.
LEMMA LaidOver ==
  ASSUME NEW old, GoodTree(old), NEW S, NEW T, GoodTree(S), Taken(S, T)
  PROVE  GoodTree(Overlay(old, S)) /\ \A f \in Overlay(old, S) : From(f, old \cup T)
<1>1. GoodTree(Overlay(old, S))
  BY OverlayGood
<1>2. \A f \in Overlay(old, S) : f \in old \/ f \in S
  BY DEF Overlay
<1> QED
  BY <1>1, <1>2 DEF Taken, From

\* A tree that an image has been laid over.
Laid(T, files) ==
  files \subseteq T /\ \A f \in T : f \in files \/ PathOf(f) \notin {PathOf(g) : g \in files}

LEMMA OwnCfgKept ==
  ASSUME NEW T, GoodTree(T), NEW files, Laid(T, files)
  PROVE  OwnCfgFirst(Materialize(T), files)
<1> SUFFICES ASSUME NEW f \in OwnCfgs(files), NEW c \in BootCfgs(Materialize(T))
             PROVE  c.src \in {g.src : g \in OwnCfgs(files)}
  BY DEF OwnCfgFirst
<1>1. f \in T /\ f \in files /\ IsBootCfg(f) /\ f.dir = <<>> /\ f.upper = TRUE
  BY DEF OwnCfgs, Laid, InCapitals
<1> DEFINE twin(h, g) == PathOf(h) # PathOf(g) /\ Lower(PathOf(h)) = Lower(PathOf(g)) /\ InCapitals(h)
<1>2. Materialize(T) = {Lower(g) : g \in {x \in T : ~\E h \in T : twin(h, x)}}
  BY DEF Materialize
<1>3. \A g : PathOf(g) = [dir |-> g.dir, stem |-> g.stem, ext |-> g.ext, upper |-> g.upper]
  BY DEF PathOf
<1>4. ASSUME NEW g
      PROVE  Lower(PathOf(g)) = [dir |-> g.dir, stem |-> g.stem, ext |-> g.ext, upper |-> FALSE]
  <2> DEFINE p == PathOf(g)
  <2>1. p = [dir |-> g.dir, stem |-> g.stem, ext |-> g.ext, upper |-> g.upper]
    BY DEF PathOf
  <2> HIDE DEF p
  <2>2. ASSUME NEW u
        PROVE  [p EXCEPT !.upper = u] = [dir |-> g.dir, stem |-> g.stem, ext |-> g.ext, upper |-> u]
    BY <2>1
  <2>3. [p EXCEPT !.upper = FALSE] = [dir |-> g.dir, stem |-> g.stem, ext |-> g.ext, upper |-> FALSE]
    BY <2>2, Zenon
  <2> QED
    BY <2>3 DEF Lower, p
<1>5. ~\E h \in T : twin(h, f)
  <2> SUFFICES ASSUME NEW h \in T, twin(h, f) PROVE FALSE
    OBVIOUS
  <2>1. h.upper = TRUE
    BY DEF InCapitals
  <2>2. h.dir = f.dir /\ h.stem = f.stem /\ h.ext = f.ext
    BY <1>4
  <2> QED
    BY <1>1, <1>3, <2>1, <2>2
<1> HIDE DEF twin
<1>6. \A g \in T : LET l == Lower(g) IN l.dir = g.dir /\ l.src = g.src /\ NameOf(l) = NameOf(g)
  <2> SUFFICES ASSUME NEW g \in T
               PROVE  LET l == Lower(g) IN l.dir = g.dir /\ l.src = g.src /\ NameOf(l) = NameOf(g)
    OBVIOUS
  <2>1. IsFile(g)
    BY DEF GoodTree
  <2>2. Lower(g) = FileWith(g, g.dir, g.stem, g.ext, FALSE)
    BY <2>1, FileChanged DEF Lower
  <2> QED
    BY <2>2 DEF FileWith, NameOf, Name
<1>7. Lower(f) \in Materialize(T) /\ IsBootCfg(Lower(f)) /\ Lower(f).dir = <<>>
  BY <1>1, <1>2, <1>5, <1>6 DEF IsBootCfg
<1>8. c \in Materialize(T) /\ IsBootCfg(c) /\ Len(c.dir) <= Len(Lower(f).dir)
  BY <1>7 DEF BootCfgs, Shallowest
<1>9. PICK g \in T : c = Lower(g) /\ ~\E h \in T : twin(h, g)
  BY <1>2, <1>8
<1>10. g.dir = <<>> /\ IsBootCfg(g) /\ c.src = g.src
  <2>1. c.dir = g.dir /\ c.src = g.src /\ NameOf(c) = NameOf(g) /\ IsSequence(g.dir)
    BY <1>6, <1>9 DEF GoodTree, IsFile
  <2>2. Len(c.dir) <= 0
    BY <1>7, <1>8
  <2>3. g.dir = <<>>
    BY <2>1, <2>2 DEF IsSequence
  <2> QED
    BY <1>8, <2>1, <2>3 DEF IsBootCfg
<1>11. g.stem = f.stem /\ g.ext = f.ext
  BY <1>1, <1>10 DEF IsBootCfg, NameOf, Name
<1>12. PathOf(g) = PathOf(f)
  <2>1. ~twin(f, g)
    BY <1>1, <1>9
  <2>2. Lower(PathOf(f)) = Lower(PathOf(g)) /\ InCapitals(f)
    BY <1>1, <1>4, <1>10, <1>11 DEF InCapitals
  <2> QED
    BY <2>1, <2>2 DEF twin
<1>13. g.upper = TRUE
  BY <1>1, <1>3, <1>12
<1>14. g \in files
  BY <1>1, <1>12 DEF Laid
<1> QED
  BY <1>10, <1>13, <1>14 DEF OwnCfgs, InCapitals

\* The outcomes of ESXi on an image laid over the directory.
LEMMA EsxiGood ==
  ASSUME NEW o, NEW img, ImageOK(o, img), o.slug # "proxmox",
         NEW old, CfgsOK(old), NEW T, GoodTree(T), \A f \in T : From(f, old \cup img.files), Laid(T, img.files),
         NEW r \in EsxiOutcomes(T)
  PROVE  Outcome(r, o, old, img)
<1>0. CfgsOK(T)
  <2>1. CfgsOK(old \cup img.files)
    BY DEF CfgsOK, ImageOK
  <2> QED
    BY <2>1, CfgsFrom
<1>1. /\ r = [dest |-> r.dest, entry |-> r.entry] /\ EsxiTree(r.dest, T)
      /\ BootCfgs(r.dest) = BootCfgs(Materialize(T))
      /\ r.entry # Failed => GoodEsxi(r.entry, r.dest)
  BY <1>0, EsxiOutcome
<1>2. \A f \in r.dest : From(f, old \cup img.files) \/ Ours(f)
  BY <1>1 DEF EsxiTree, From
<1>3. OwnCfgFirst(r.dest, img.files)
  BY <1>1, OwnCfgKept DEF OwnCfgFirst
<1> QED
  BY <1>1, <1>2, <1>3, EsxiOnDisk DEF Outcome, EsxiTree

LEMMA OverlayLays ==
  ASSUME NEW old, NEW files
  PROVE  Laid(Overlay(old, files), files)
  BY DEF Overlay, Laid

\* try_extract_with_plan.
LEMMA PlanGood ==
  ASSUME NEW o, OsTypeOK(o), NEW img, ImageOK(o, img), NEW old, GoodTree(old),
         o.boot = "esxi" => CfgsOK(old),
         NEW r \in PlanOutcomes(o, old, img)
  PROVE  Outcome(r, o, old, img)
<1> DEFINE T == IF o.full THEN Overlay(old, img.files) ELSE img.files
<1>0. /\ GoodTree(img.files) /\ GoodTree(T) /\ \A f \in T : From(f, old \cup img.files)
      /\ o.full => T = Overlay(old, img.files)
  <2>1. GoodTree(img.files)
    BY DEF ImageOK, GoodTree
  <2>2. Taken(img.files, img.files)
    BY <2>1 DEF Taken, GoodTree
  <2>3. GoodTree(Overlay(old, img.files)) /\ \A f \in Overlay(old, img.files) : From(f, old \cup img.files)
    BY <2>1, <2>2, LaidOver
  <2> QED
    BY <2>1, <2>3 DEF From
<1> DEFINE linux(p) == {[dest |-> Overlay(old, p.files), entry |-> e] :
                         e \in UNION {Fallback(o, Overlay(old, p.files), s) : s \in Slots(o, p.report)}}
<1> DEFINE windows(p) == {[dest |-> Overlay(old, p.files), entry |-> IF e = Failed THEN NoEntry ELSE e] :
                           e \in FindWindows(Overlay(old, p.files))}
<1> DEFINE esxi(p) == IF o.full THEN EsxiOutcomes(Overlay(old, p.files))
                      ELSE {[dest |-> Overlay(old, p.files), entry |-> Failed]}
<1>1. \/ r = [dest |-> old, entry |-> Failed]
      \/ \E p \in Report(o, T) :
           r \in CASE o.boot \in {"linux", "tools"} -> linux(p)
                   [] o.boot = "windows"            -> windows(p)
                   [] o.boot = "esxi"               -> esxi(p)
  BY DEF PlanOutcomes
<1>2. CASE r = [dest |-> old, entry |-> Failed]
  <2>1. \A f \in old : From(f, old \cup img.files)
    BY DEF From
  <2> QED
    BY <1>2, <2>1, OutcomeOf
<1>3. ASSUME NEW p \in Report(o, T),
             r \in CASE o.boot \in {"linux", "tools"} -> linux(p)
                     [] o.boot = "windows"            -> windows(p)
                     [] o.boot = "esxi"               -> esxi(p)
      PROVE  Outcome(r, o, old, img)
  <2> DEFINE d == Overlay(old, p.files)
  <2>1. /\ GoodTree(p.files) /\ Taken(p.files, T)
        /\ \A i \in DOMAIN p.report : p.report[i] \subseteq p.files
    BY <1>0, ReportTaken DEF OsTypeOK
  <2>2. GoodTree(d) /\ \A f \in d : From(f, old \cup img.files)
    <3>1. GoodTree(d) /\ \A f \in d : From(f, old \cup T)
      BY <2>1, LaidOver
    <3> HIDE DEF T, d
    <3> QED
      BY <1>0, <3>1 DEF From
  <2>3. CASE o.boot \in {"linux", "tools"}
    <3>1. r \in linux(p)
      BY <1>3, <2>3
    <3>2. PICK s \in Slots(o, p.report) : \E e \in Fallback(o, d, s) : r = [dest |-> d, entry |-> e]
      BY <3>1
    <3>7. PICK e \in Fallback(o, d, s) : r = [dest |-> d, entry |-> e]
      BY <3>2
    <3>3. o.slug = "proxmox" => \A i \in DOMAIN p.report : \A f \in p.report[i] : ~IsNetboot(f)
      <4>1. ASSUME o.slug = "proxmox", o.full, NEW i \in DOMAIN p.report, NEW f \in p.report[i]
            PROVE  ~IsNetboot(f)
        <5>1. i \in DOMAIN Unified(o.specs) /\ NameOf(f) = Unified(o.specs)[i].name
          BY <4>1, ReportNamed
        <5> QED
          BY <4>1, <5>1 DEF OsTypeOK, IsNetboot, NameOf, Name
      <4>2. ASSUME o.slug = "proxmox", ~o.full, NEW i \in DOMAIN p.report, NEW f \in p.report[i]
            PROVE  ~IsNetboot(f)
        <5>1. f \in p.files /\ \A g \in img.files : ~IsNetboot(g)
          BY <2>1, <4>2 DEF ImageOK
        <5>2. PICK g \in img.files : NameOf(f) = NameOf(g)
          BY <2>1, <4>2, <5>1 DEF Taken
        <5> QED
          BY <5>1, <5>2 DEF IsNetboot, NameOf, Name
      <4> QED
        BY <4>1, <4>2
    <3> DEFINE plain == {f \in p.files : o.slug = "proxmox" => ~IsNetboot(f)}
    <3>8. /\ \A i \in DOMAIN p.report : p.report[i] \subseteq plain
          /\ o.slug = "proxmox" => \A f \in plain : ~IsNetboot(f)
          /\ plain \subseteq p.files
      BY <2>1, <3>3
    <3> HIDE DEF plain
    <3>9. GoodEntry(s, plain, o.slug = "proxmox")
      BY <3>2, <3>8, SlotsGood
    <3>4. GoodEntry(s, p.files, o.slug = "proxmox")
      BY <3>8, <3>9, LargerOnDisk DEF GoodEntry
    <3>5. GoodEntry(s, d, o.slug = "proxmox")
      BY <3>4, OverlayOnDisk DEF GoodEntry
    <3> HIDE DEF d
    <3>6. GoodEntry(e, d, o.slug = "proxmox")
      BY <2>2, <3>7, <3>5, FallbackGood
    <3> QED
      BY <2>2, <2>3, <3>7, <3>6, OutcomeOf DEF GoodEntry
  <2>4. CASE o.boot = "windows"
    <3>1. r \in windows(p)
      BY <1>3, <2>4
    <3>2. PICK e \in FindWindows(d) : r = [dest |-> d, entry |-> IF e = Failed THEN NoEntry ELSE e]
      BY <3>1
    <3> HIDE DEF d
    <3>3. o.slug # "proxmox"
      BY <2>4, ProxmoxIsLinux
    <3>4. CASE e = Failed
      BY <2>2, <2>4, <3>2, <3>3, <3>4, NoEntryOnDisk, OutcomeOf
    <3>5. CASE e # Failed
      <4>1. OnDisk(e, d)
        BY <3>5, WindowsFound
      <4> QED
        BY <2>2, <2>4, <3>2, <3>3, <3>5, <4>1, OutcomeOf
    <3> QED
      BY <3>4, <3>5
  <2>5. CASE o.boot = "esxi"
    <3>1. r \in esxi(p) /\ o.slug # "proxmox"
      BY <1>3, <2>5, ProxmoxIsLinux
    <3> HIDE DEF d
    <3>2. CASE o.full
      <4>1. r \in EsxiOutcomes(d)
        BY <3>1, <3>2 DEF d
      <4>2. Laid(d, img.files)
        <5>1. p.files = Overlay(old, img.files)
          BY <1>0, <1>3, <3>2, FullTakesAll
        <5> QED
          BY <5>1 DEF d, Overlay, Laid
      <4> QED
        BY <2>2, <2>5, <3>1, <4>1, <4>2, EsxiGood
    <3>3. CASE ~o.full
      <4>1. r = [dest |-> d, entry |-> Failed]
        BY <3>1, <3>3 DEF d
      <4> QED
        BY <2>2, <4>1, OutcomeOf
    <3> QED
      BY <3>2, <3>3
  <2> QED
    BY <2>3, <2>4, <2>5 DEF OsTypeOK
<1> QED
  BY <1>1, <1>2, <1>3

\* The rule of a slug.
LEMMA RuleTypes ==
  ASSUME NEW slug
  PROVE  \/ slug = "windows" /\ RuleOf(slug).type = "windows"
         \/ slug = "esxi" /\ RuleOf(slug).type = "esxi"
         \/ slug = "ubuntu" /\ RuleOf(slug).type = "ubuntu"
         \/ slug = "debian" /\ RuleOf(slug).type = "debian"
         \/ slug = "proxmox" /\ RuleOf(slug).type = "proxmox" /\ RuleOf(slug) = DistroRules.proxmox
         \/ slug \in {"rocky", "fedora"} /\ RuleOf(slug).type = slug
         \/ slug \notin {"windows", "esxi", "proxmox"} /\ RuleOf(slug).type = "linux"
<1>1. DOMAIN DistroRules = {"windows", "debian", "ubuntu", "rocky", "fedora", "proxmox", "alpine", "esxi"}
  BY DEF DistroRules
<1>2. /\ DistroRules["windows"].type = "windows" /\ DistroRules["esxi"].type = "esxi"
      /\ DistroRules["ubuntu"].type = "ubuntu" /\ DistroRules["debian"].type = "debian"
      /\ DistroRules["proxmox"].type = "proxmox" /\ DistroRules["rocky"].type = "rocky"
      /\ DistroRules["fedora"].type = "fedora" /\ DistroRules["alpine"].type = "linux"
  BY DEF DistroRules, LinuxRule
<1>3. GenericRule.type = "linux"
  BY DEF GenericRule, LinuxRule
<1> QED
  BY <1>1, <1>2, <1>3 DEF RuleOf

\* The rules that need everything a menu entry needs, and those that do not.
Lenient(o)   == RuleOf(o.slug).type \in {"ubuntu", "linux"}
Complete(r, o) == r.entry # Failed => BootFields(o) \subseteq DOMAIN r.entry

LEMMA BuiltinRules ==
  ASSUME NEW o, OsTypeOK(o)
  PROVE  /\ RuleOf(o.slug).type = "esxi" => o.boot = "esxi" /\ o.slug = "esxi"
         /\ RuleOf(o.slug).type = "windows" => o.boot = "windows"
         /\ RuleOf(o.slug).type \in {"debian", "proxmox", "rocky", "fedora"} => o.boot = "linux"
         /\ o.slug = "proxmox" => RuleOf(o.slug).type = "proxmox"
         /\ o.boot = "esxi" /\ ~UsesPlan(o) => RuleOf(o.slug).type = "esxi"
<1>1. {"windows", "debian", "ubuntu", "rocky", "fedora", "proxmox", "alpine", "esxi"} = DOMAIN DistroRules
  BY DEF DistroRules
<1> QED
  BY <1>1, RuleTypes DEF OsTypeOK

RootedEntry(e) == [k \in DOMAIN e |-> [e[k] EXCEPT !.dir = <<>>]]

\* The files found in the image, copied to the root of the boot directory.
LEMMA LinuxCopied ==
  ASSUME NEW o, NEW img, ImageOK(o, img), o.boot # "esxi", o.slug # "proxmox",
         NEW old, NEW base, GoodTree(base), NEW rule, NEW e \in FindLinux(img.files, rule), e # Failed,
         NEW found, found = {g \in img.files : PathOf(g) \in {e[k] : k \in DOMAIN e}}
  PROVE  Outcome([dest |-> Overlay(base, Rooted(found)), entry |-> RootedEntry(e)], o, old, img)
<1> DEFINE T == img.files
<1> DEFINE d == Overlay(base, Rooted(found))
<1> DEFINE e2 == RootedEntry(e)
<1>1. GoodTree(T)
  BY DEF ImageOK, GoodTree
<1>2. "modules" \notin DOMAIN e /\ \A k \in DOMAIN e : \E f \in T : e[k] = PathOf(f)
  BY <1>1, LinuxFound DEF GoodTree
<1>3. GoodTree(d)
  BY <1>1, RootedTaken, OverlayGood
<1>4. ASSUME NEW k \in DOMAIN e PROVE HasPath(Rooted(found), [e[k] EXCEPT !.dir = <<>>])
  <2>1. PICK f \in T : e[k] = PathOf(f)
    BY <1>2
  <2>2. f \in found /\ IsFile(f)
    BY <1>1, <2>1 DEF GoodTree
  <2>3. [f EXCEPT !.dir = <<>>] \in Rooted(found)
    BY <2>2 DEF Rooted
  <2> QED
    BY <2>1, <2>2, <2>3, RootedFile DEF HasPath
<1>5. \A k \in DOMAIN e : HasPath(d, [e[k] EXCEPT !.dir = <<>>])
  BY <1>4, OverlayPaths
<1>6. OnDisk(e2, d)
  <2>1. DOMAIN e2 = DOMAIN e /\ \A k \in DOMAIN e2 : e2[k] = [e[k] EXCEPT !.dir = <<>>]
    BY DEF RootedEntry
  <2> HIDE DEF e2, d
  <2> QED
    BY <1>2, <1>5, <2>1 DEF OnDisk
<1> HIDE DEF d, e2
<1>7. Outcome([dest |-> d, entry |-> e2], o, old, img)
  BY <1>3, <1>6, OutcomeOf
<1> QED
  BY <1>7 DEF d, e2

LEMMA PublishGood ==
  ASSUME NEW o, NEW r, NEW old, NEW img, OsTypeOK(o), Outcome(r, o, old, img), NEW src, NEW q \in Publish(o, r, src)
  PROVE  Outcome(q, o, old, img) /\ q.entry = r.entry
<1>1. GoodTree(q.dest) /\ q.entry = r.entry /\ (q.entry # Failed => OnDisk(q.entry, q.dest))
  BY PublishKeeps DEF Outcome
<1>2. CASE o.slug = "proxmox"
  <2>1. o.boot = "linux"
    BY <1>2, ProxmoxIsLinux
  <2>2. q = [dest |-> q.dest, entry |-> q.entry]
    <3>1. q = r \/ \E d : q = [r EXCEPT !.dest = d]
      BY DEF Publish
    <3> QED
      BY <3>1 DEF Outcome
  <2> QED
    BY <1>1, <1>2, <2>1, <2>2 DEF Outcome
<1>3. CASE o.slug # "proxmox"
  <2>1. q = r
    BY <1>3 DEF Publish
  <2> QED
    BY <2>1
<1> QED
  BY <1>2, <1>3

\* The built-in rules of extract_iso.
LEMMA BuiltinGood ==
  ASSUME NEW o, OsTypeOK(o), NEW img, ImageOK(o, img), NEW old, NEW base \in {old, {}}, GoodTree(base),
         o.boot = "esxi" => CfgsOK(old), ~(UsesPlan(o) /\ ~DelegatesToBuiltin(o)), NEW r \in BuiltinOutcomes(o, base, img)
  PROVE  Outcome(r, o, old, img) /\ (Complete(r, o) \/ Lenient(o))
<1> DEFINE rule == RuleOf(o.slug)
<1> DEFINE full == Overlay(base, img.files)
<1> DEFINE searched(es) == {[dest |-> full, entry |-> e] : e \in es}
<1> DEFINE found(e) == {g \in img.files : PathOf(g) \in {e[k] : k \in DOMAIN e}}
<1> DEFINE copied(e) == IF e = Failed THEN {} ELSE {[f EXCEPT !.dir = <<>>] : f \in found(e)}
<1> DEFINE rooted(e) == IF e = Failed THEN Failed ELSE [k \in DOMAIN e |-> [e[k] EXCEPT !.dir = <<>>]]
<1>1. GoodTree(full) /\ (\A f \in full : From(f, old \cup img.files)) /\ Laid(full, img.files)
  <2>1. GoodTree(img.files)
    BY DEF ImageOK, GoodTree
  <2>2. Taken(img.files, img.files)
    BY <2>1 DEF Taken, GoodTree
  <2>3. GoodTree(full) /\ \A f \in full : From(f, base \cup img.files)
    BY <2>1, <2>2, LaidOver
  <2>4. base \cup img.files \subseteq old \cup img.files
    OBVIOUS
  <2> QED
    BY <2>3, <2>4, OverlayLays DEF From
<1>2. r \in CASE rule.type = "esxi"    -> EsxiOutcomes(full)
              [] rule.type = "windows" -> searched(FindWindows(full))
              [] rule.type = "ubuntu"  -> searched(FindUbuntu(full, rule))
              [] rule.type = "debian"  -> searched(FindDebian(full, rule))
              [] rule.type = "proxmox" -> UNION {Publish(o, x, <<img.name, "iso">>) :
                                                   x \in searched(FindProxmox(full, rule))}
              [] rule.type = "linux"   -> {[dest |-> Overlay(base, copied(e)), entry |-> rooted(e)] :
                                             e \in FindLinux(img.files, rule)}
              [] OTHER                 -> searched(FindEl(full, rule))
  BY DEF BuiltinOutcomes
<1> DEFINE T == full
<1> HIDE DEF full
<1>3. CASE rule.type = "esxi"
  <2>1. r \in EsxiOutcomes(full) /\ o.slug = "esxi" /\ o.boot = "esxi"
    BY <1>2, <1>3, BuiltinRules
  <2>2. Outcome(r, o, old, img)
    BY <1>1, <2>1, EsxiGood
  <2>3. Complete(r, o)
    BY <2>1, <2>2 DEF Outcome, Complete, GoodEsxi, EsxiFields, BootFields
  <2> QED
    BY <2>2, <2>3
<1>4. ASSUME NEW e, o.boot # "esxi", o.slug # "proxmox" \/ e = Failed, e # Failed => OnDisk(e, full)
      PROVE  Outcome([dest |-> full, entry |-> e], o, old, img)
  BY <1>1, <1>4, OutcomeOf
<1>5. CASE rule.type = "windows"
  <2>1. o.boot = "windows" /\ o.slug # "proxmox"
    BY <1>5, BuiltinRules
  <2>2. PICK e \in FindWindows(full) : r = [dest |-> full, entry |-> e]
    BY <1>2, <1>5
  <2>3. e # Failed => OnDisk(e, full) /\ WindowsFields \subseteq DOMAIN e
    BY WindowsFound
  <2>4. Complete(r, o)
    BY <2>1, <2>2, <2>3 DEF Complete, BootFields
  <2> QED
    BY <1>4, <2>1, <2>2, <2>3, <2>4
<1>6. CASE rule.type = "ubuntu"
  <2>1. o.boot # "esxi" /\ o.slug # "proxmox"
    BY <1>6, BuiltinRules DEF DelegatesToBuiltin
  <2>2. PICK e \in FindUbuntu(full, rule) : r = [dest |-> full, entry |-> e]
    BY <1>2, <1>6
  <2>3. e # Failed => OnDisk(e, full)
    BY UbuntuFound
  <2> QED
    BY <1>4, <1>6, <2>1, <2>2, <2>3 DEF Lenient
<1>7. ASSUME NEW e, o.boot = "linux", e # Failed => {"kernel", "initrd"} \subseteq DOMAIN e, r.entry = e
      PROVE  Complete(r, o)
  BY <1>7 DEF Complete, BootFields
<1>8. CASE rule.type = "debian"
  <2>1. o.boot = "linux" /\ o.slug # "proxmox"
    BY <1>8, BuiltinRules
  <2>2. PICK e \in FindDebian(full, rule) : r = [dest |-> full, entry |-> e]
    BY <1>2, <1>8
  <2>3. e # Failed => OnDisk(e, full) /\ {"kernel", "initrd"} \subseteq DOMAIN e
    BY DebianFound
  <2> QED
    BY <1>4, <1>7, <2>1, <2>2, <2>3
<1>9. CASE rule.type = "proxmox"
  <2>1. o.boot = "linux" /\ o.slug = "proxmox" /\ rule = DistroRules.proxmox
    BY <1>9, BuiltinRules, RuleTypes
  <2>2. PICK e \in FindProxmox(full, rule) : r \in Publish(o, [dest |-> full, entry |-> e], <<img.name, "iso">>)
    BY <1>2, <1>9
  <2>3. e # Failed => OnDisk(e, full) /\ {"kernel", "initrd"} \subseteq DOMAIN e /\ Fixed(e) /\ "modules" \notin DOMAIN e
    BY <1>1, <2>1, ProxmoxFound
  <2> DEFINE x == [dest |-> full, entry |-> e]
  <2>4. Outcome(x, o, old, img) /\ x.entry = e
    BY <1>1, <2>1, <2>3, OutcomeOf
  <2> HIDE DEF x
  <2>5. Outcome(r, o, old, img) /\ r.entry = e
    BY <2>2, <2>4, PublishGood DEF x
  <2> QED
    BY <1>7, <2>1, <2>3, <2>5
<1>10. CASE rule.type = "linux"
  <2>1. o.boot # "esxi" /\ o.slug # "proxmox"
    BY <1>10, BuiltinRules DEF DelegatesToBuiltin
  <2>2. PICK e \in FindLinux(img.files, rule) : r = [dest |-> Overlay(base, copied(e)), entry |-> rooted(e)]
    BY <1>2, <1>10
  <2>3. CASE e = Failed
    <3>1. Overlay(base, {}) = base
      BY DEF Overlay
    <3>2. r = [dest |-> base, entry |-> Failed]
      BY <2>2, <2>3, <3>1
    <3> QED
      BY <1>10, <2>1, <3>2, OutcomeOf DEF Lenient
  <2>4. CASE e # Failed
    <3>1. r = [dest |-> Overlay(base, Rooted(found(e))), entry |-> RootedEntry(e)]
      BY <2>2, <2>4 DEF Rooted, RootedEntry
    <3> QED
      BY <1>10, <2>1, <2>4, <3>1, LinuxCopied DEF Lenient
  <2> QED
    BY <2>3, <2>4
<1>11. CASE rule.type \in {"rocky", "fedora"}
  <2>1. o.boot = "linux" /\ o.slug # "proxmox"
    BY <1>11, BuiltinRules
  <2>2. PICK e \in FindEl(full, rule) : r = [dest |-> full, entry |-> e]
    BY <1>2, <1>11
  <2>3. e # Failed => OnDisk(e, full) /\ {"kernel", "initrd"} \subseteq DOMAIN e
    BY ElFound
  <2> QED
    BY <1>4, <1>7, <2>1, <2>2, <2>3
<1> QED
  BY <1>3, <1>5, <1>6, <1>8, <1>9, <1>10, <1>11, RuleTypes

\* extract_iso: with a plan or without, over the old directory or an empty one.
LEMMA ExtractGood ==
  ASSUME NEW o, OsTypeOK(o), NEW img, ImageOK(o, img), NEW old, GoodTree(old),
         o.boot = "esxi" => CfgsOK(old), NEW r \in ExtractIso(o, old, img)
  PROVE  /\ Outcome(r, o, old, img)
         /\ Complete(r, o) \/ Lenient(o) \/ (UsesPlan(o) /\ ~DelegatesToBuiltin(o))
<1>1. PICK base \in {old, {}} :
        r \in IF UsesPlan(o) /\ ~DelegatesToBuiltin(o)
              THEN UNION {Publish(o, x, <<img.name, "iso">>) : x \in PlanOutcomes(o, base, img)}
              ELSE BuiltinOutcomes(o, base, img)
  BY DEF ExtractIso, Bases
<1>2. GoodTree(base)
  BY FS_EmptySet DEF GoodTree
<1>3. CASE UsesPlan(o) /\ ~DelegatesToBuiltin(o)
  <2>1. PICK x \in PlanOutcomes(o, base, img) : r \in Publish(o, x, <<img.name, "iso">>)
    BY <1>1, <1>3
  <2>4. o.boot = "esxi" => CfgsOK(base)
    BY DEF CfgsOK
  <2>2. Outcome(x, o, base, img)
    BY <1>2, <2>1, <2>4, PlanGood
  <2>3. Outcome(x, o, old, img)
    <3>1. base \cup img.files \subseteq old \cup img.files
      OBVIOUS
    <3> QED
      BY <2>2, <3>1 DEF Outcome, From
  <2> QED
    BY <1>3, <2>1, <2>3, PublishGood
<1>4. CASE ~(UsesPlan(o) /\ ~DelegatesToBuiltin(o))
  BY <1>1, <1>2, <1>4, BuiltinGood
<1> QED
  BY <1>3, <1>4

-----------------------------------------------------------------------------
(***************************************************************************)
(* The Windows paths read from the disk                                    *)
(***************************************************************************)
\* Each set of naturals has a least element.
LEMMA LeastOf ==
  ASSUME NEW S \in SUBSET Nat, S # {}
  PROVE  \E m \in S : \A n \in S : m <= n
<1> DEFINE R == OpToRel(<, Nat)
<1>1. \E m \in S : \A n \in S : ~(<<n, m>> \in R)
  BY WFMin, NatLessThanWellFounded, Zenon
<1>2. \A m, n \in Nat : n < m => <<n, m>> \in R
  BY Zenon DEF OpToRel
<1> HIDE DEF R
<1>3. PICK m \in S : \A n \in S : ~(<<n, m>> \in R)
  BY <1>1
<1>4. \A n \in S : ~(n < m)
  BY <1>2, <1>3
<1> QED
  BY <1>4

\* A scan finds a best candidate where there is one.
LEMMA ScanPickIn ==
  ASSUME NEW fs, \A f \in fs : IsFile(f), fs # {}
  PROVE  ScanPick(fs) \in fs
<1> DEFINE pref(f) == 5 + DirPreference(f)
<1> DEFINE deep(f) == Len(f.dir)
<1>1. \A f \in fs : pref(f) \in Nat /\ DirPreference(f) \in Int /\ deep(f) \in Nat
  <2> SUFFICES ASSUME NEW f \in fs
               PROVE  pref(f) \in Nat /\ DirPreference(f) \in Int /\ deep(f) \in Nat
    OBVIOUS
  <2>1. deep(f) \in Nat
    BY DEF IsFile, IsSequence
  <2>2. \E x \in {0, 4}, z \in {0, 1} : DirPreference(f) = 0 - x - z
    BY DEF DirPreference
  <2> QED
    BY <2>1, <2>2
<1>2. \A f, g \in fs : ScanRankBefore(g, f) <=> pref(g) < pref(f) \/ (pref(g) = pref(f) /\ deep(g) < deep(f))
  BY <1>1 DEF ScanRankBefore
<1> HIDE DEF pref, deep
<1>3. PICK p \in {pref(f) : f \in fs} : \A q \in {pref(f) : f \in fs} : p <= q
  BY <1>1, LeastOf
<1> DEFINE top == {f \in fs : pref(f) = p}
<1>4. PICK n \in {deep(f) : f \in top} : \A q \in {deep(f) : f \in top} : n <= q
  BY <1>1, LeastOf
<1>5. PICK f \in top : deep(f) = n
  OBVIOUS
<1>6. ASSUME NEW g \in fs PROVE ~ScanRankBefore(g, f)
  <2>1. p <= pref(g) /\ pref(f) = p /\ f \in fs
    BY <1>3
  <2>2. pref(g) = p => n <= deep(g)
    BY <1>4
  <2> QED
    BY <1>1, <1>2, <1>5, <2>1, <2>2
<1>7. f \in BestRanked(fs, ScanRankBefore)
  BY <1>6 DEF BestRanked
<1>8. ScanPick(fs) \in BestRanked(fs, ScanRankBefore)
  BY <1>7 DEF ScanPick
<1> QED
  BY <1>8 DEF BestRanked

SyncedFields(tree) ==
  LET found == WindowsOnDisk(tree)
  IN [k \in {j \in DOMAIN found : found[j] # {}} |-> RelUnderVersion(ScanPick(found[k]))]

LEMMA SyncIsFilling ==
  ASSUME NEW e, NEW T
  PROVE  SyncWindows(e, T) = Filling(SyncedFields(T), e)
  BY DEF SyncWindows, SyncedFields

LEMMA SyncedOnDisk ==
  ASSUME NEW T, GoodTree(T)
  PROVE  OnDisk(SyncedFields(T), T)
<1> DEFINE found == WindowsOnDisk(T)
<1> DEFINE m == SyncedFields(T)
<1>1. DOMAIN found = {"bcd", "boot_sdi", "boot_wim", "bootmgr"} /\ \A k \in DOMAIN found : found[k] \subseteq T
  BY DEF WindowsOnDisk, Bcd, BootSdi, BootWim, Bootmgr
<1>2. /\ DOMAIN m = {j \in DOMAIN found : found[j] # {}}
      /\ \A k \in DOMAIN m : m[k] = PathOf(ScanPick(found[k]))
  BY DEF SyncedFields, RelUnderVersion
<1> HIDE DEF found, m
<1>3. ASSUME NEW k \in DOMAIN m PROVE HasPath(T, m[k])
  <2>1. found[k] # {} /\ found[k] \subseteq T
    BY <1>1, <1>2
  <2>2. ScanPick(found[k]) \in found[k]
    BY <2>1, ScanPickIn DEF GoodTree
  <2> QED
    BY <1>2, <2>1, <2>2 DEF HasPath
<1>4. "modules" \notin DOMAIN m
  BY <1>1, <1>2
<1>5. OnDisk(m, T)
  BY <1>3, <1>4 DEF OnDisk
<1> QED
  BY <1>5 DEF m

\* Reading the paths again from the same directory changes none.
LEMMA SyncTwice ==
  ASSUME NEW e, NEW T
  PROVE  SyncWindows(SyncWindows(e, T), T) = SyncWindows(e, T)
<1> DEFINE m == SyncedFields(T)
<1> DEFINE g == Filling(m, e)
<1> HIDE DEF m
<1>1. g = [k \in DOMAIN m \cup DOMAIN e |-> IF k \in DOMAIN m THEN m[k] ELSE e[k]]
  BY DEF Filling
<1> HIDE DEF g
<1>2. Filling(m, g) = g
  BY <1>1 DEF Filling
<1> QED
  BY <1>2, SyncIsFilling DEF g, m

LEMMA SyncKeepsFields ==
  ASSUME NEW e, NEW T, GoodTree(T), OnDisk(e, T)
  PROVE  OnDisk(SyncWindows(e, T), T) /\ DOMAIN e \subseteq DOMAIN SyncWindows(e, T)
<1>1. OnDisk(Filling(SyncedFields(T), e), T)
  BY SyncedOnDisk, FillingOnDisk
<1>2. DOMAIN e \subseteq DOMAIN Filling(SyncedFields(T), e)
  BY DEF Filling
<1> QED
  BY <1>1, <1>2, SyncIsFilling

\* What the Linux scan adds leaves what an entry has.
LEMMA LinuxScanAdds ==
  ASSUME NEW e, NEW T, NEW k \in DOMAIN e
  PROVE  ScanLinux(e, T)[k] = e[k]
<1>1. PICK more : ScanLinux(e, T) = Filling(e, more)
  BY DEF ScanLinux
<1>2. Filling(e, more)[k] = e[k]
  BY DEF Filling
<1> QED
  BY <1>1, <1>2

-----------------------------------------------------------------------------
(***************************************************************************)
(* The invariant                                                           *)
(***************************************************************************)
\* Whether a menu entry may lack a file.
MayLack(o) == Lenient(o) \/ (UsesPlan(o) /\ ~DelegatesToBuiltin(o))

\* The boot directory of ESXi holds files of images under their own names, and ours.
DirOK ==
  /\ GoodTree(dest)
  /\ os.boot = "esxi" => \A f \in dest : Ours(f) \/ \E img \in Images(os) : From(f, img.files)

\* What an extraction has recorded.
EntryOK ==
  /\ image \in Images(os)
  /\ OnDisk(entry, dest)
  /\ BootFields(os) \subseteq DOMAIN entry \/ MayLack(os)
  /\ os.boot = "esxi" => GoodEsxi(entry, dest) /\ OwnCfgFirst(dest, image.files)
  /\ os.boot = "windows" => SyncWindows(entry, dest) = entry

ExtractionInv == os \in OsTypes /\ DirOK /\ (step = "extracted" => EntryOK)

LEMMA InitInv == Init => ExtractionInv
<1> SUFFICES ASSUME Init PROVE ExtractionInv
  OBVIOUS
<1>1. GoodTree({})
  BY FS_EmptySet DEF GoodTree
<1> QED
  BY <1>1 DEF Init, ExtractionInv, DirOK

\* The image and the OS type of a step.
LEMMA Given ==
  ASSUME NEW o \in OsTypes, NEW img \in Images(o)
  PROVE  OsTypeOK(o) /\ ImageOK(o, img) /\ GoodTree(img.files)
  BY ExtractionAssumption DEF ImageOK, GoodTree

\* The boot.cfg that earlier images left are those of the images.
LEMMA LeftCfgs ==
  ASSUME ExtractionInv
  PROVE  os.boot = "esxi" => CfgsOK(dest)
<1> SUFFICES ASSUME os.boot = "esxi", NEW f \in dest, IsBootCfg(f)
             PROVE  IsSequence(RefsIn(f))
  BY DEF CfgsOK
<1>1. PICK img \in Images(os) : From(f, img.files)
  BY OursIsNoCfg DEF ExtractionInv, DirOK
<1>2. ImageOK(os, img)
  BY <1>1, Given DEF ExtractionInv
<1>3. PICK g \in img.files : f.src = g.src /\ IsBootCfg(g)
  BY <1>1 DEF From, IsBootCfg
<1> QED
  BY <1>2, <1>3 DEF ImageOK, RefsIn

\* The directory that an outcome leaves.
LEMMA OutcomeDir ==
  ASSUME ExtractionInv, NEW img \in Images(os), NEW r \in ExtractIso(os, dest, img)
  PROVE  /\ GoodTree(r.dest)
         /\ os.boot = "esxi" => \A f \in r.dest : Ours(f) \/ \E im \in Images(os) : From(f, im.files)
<1>1. Outcome(r, os, dest, img)
  BY Given, LeftCfgs, ExtractGood DEF ExtractionInv, DirOK
<1>2. ASSUME os.boot = "esxi", NEW f \in r.dest, ~Ours(f)
      PROVE  \E im \in Images(os) : From(f, im.files)
  <2>1. From(f, dest \cup img.files)
    BY <1>1, <1>2 DEF Outcome
  <2>2. CASE From(f, img.files)
    BY <2>2
  <2>3. CASE From(f, dest)
    <3>1. PICK g \in dest : f.src = g.src /\ NameOf(f) = NameOf(g)
      BY <2>3 DEF From
    <3>2. PICK im \in Images(os) : From(g, im.files)
      BY <1>2, <3>1 DEF ExtractionInv, DirOK, Ours
    <3>3. From(f, im.files)
      BY <3>1, <3>2 DEF From
    <3> QED
      BY <3>3
  <2> QED
    BY <2>1, <2>2, <2>3 DEF From
<1> QED
  BY <1>1, <1>2 DEF Outcome

LEMMA ExtractStep ==
  ASSUME ExtractionInv, NEW img \in Images(os), Extract(img)
  PROVE  ExtractionInv'
<1>1. PICK r \in ExtractIso(os, dest, img) : r.entry # Failed /\ dest' = r.dest /\ entry' = Recorded(r.entry, r.dest)
  BY DEF Extract
<1>2. image' = img /\ step' = "extracted" /\ os' = os
  BY DEF Extract
<1>3. Outcome(r, os, dest, img) /\ (Complete(r, os) \/ MayLack(os))
  BY <1>1, Given, LeftCfgs, ExtractGood DEF ExtractionInv, DirOK, MayLack
<1>4. DirOK'
  BY <1>1, <1>2, OutcomeDir DEF DirOK
<1> DEFINE e == Recorded(r.entry, r.dest)
<1>5. /\ OnDisk(e, r.dest) /\ DOMAIN r.entry \subseteq DOMAIN e
      /\ os.boot = "windows" => SyncWindows(e, r.dest) = e
  <2>1. OnDisk(r.entry, r.dest) /\ GoodTree(r.dest)
    BY <1>1, <1>3 DEF Outcome
  <2>2. CASE os.boot = "windows"
    <3>1. e = SyncWindows(r.entry, r.dest)
      BY <2>2 DEF Recorded
    <3> QED
      BY <2>1, <3>1, SyncKeepsFields, SyncTwice
  <2>3. CASE os.boot # "windows"
    <3>1. e = r.entry
      BY <2>3 DEF Recorded
    <3> QED
      BY <2>1, <2>3, <3>1
  <2> QED
    BY <2>2, <2>3
<1>6. BootFields(os) \subseteq DOMAIN e \/ MayLack(os)
  BY <1>1, <1>3, <1>5 DEF Complete
<1>7. os.boot = "esxi" => GoodEsxi(e, r.dest) /\ OwnCfgFirst(r.dest, img.files)
  <2>1. os.boot = "esxi" => e = r.entry
    BY DEF Recorded
  <2> QED
    BY <1>1, <1>3, <2>1 DEF Outcome
<1> HIDE DEF e
<1>8. entry' = e
  BY <1>1 DEF e
<1>9. EntryOK'
  <2>1. image' \in Images(os')
    BY <1>2
  <2>2. OnDisk(entry', dest')
    BY <1>1, <1>5, <1>8
  <2>3. BootFields(os') \subseteq DOMAIN entry' \/ MayLack(os')
    BY <1>2, <1>6, <1>8
  <2>4. os'.boot = "esxi" => GoodEsxi(entry', dest') /\ OwnCfgFirst(dest', image'.files)
    BY <1>1, <1>2, <1>7, <1>8
  <2>5. os'.boot = "windows" => SyncWindows(entry', dest') = entry'
    BY <1>1, <1>2, <1>5, <1>8
  <2> QED
    BY <2>1, <2>2, <2>3, <2>4, <2>5 DEF EntryOK
<1> QED
  BY <1>2, <1>4, <1>9 DEF ExtractionInv

LEMMA FailsStep ==
  ASSUME ExtractionInv, NEW img \in Images(os), ExtractFails(img)
  PROVE  ExtractionInv'
<1>1. PICK r \in ExtractIso(os, dest, img) : dest' = r.dest
  BY DEF ExtractFails
<1>2. step' = "failed" /\ os' = os
  BY DEF ExtractFails
<1>3. DirOK'
  BY <1>1, <1>2, OutcomeDir DEF DirOK
<1> QED
  BY <1>2, <1>3 DEF ExtractionInv

LEMMA NoToolStep ==
  ASSUME ExtractionInv, NEW img \in Images(os), NoToolWorks(img)
  PROVE  ExtractionInv'
<1>1. dest' = {} \/ \E f \in img.files : dest' = {f}
  BY DEF NoToolWorks
<1>2. step' = "failed" /\ os' = os
  BY DEF NoToolWorks
<1>3. GoodTree(dest') /\ dest' \subseteq img.files
  BY <1>1, Given, FS_EmptySet, FS_Singleton DEF GoodTree, ExtractionInv
<1>4. DirOK'
  BY <1>2, <1>3 DEF DirOK, From
<1> QED
  BY <1>2, <1>4 DEF ExtractionInv

LEMMA SameView ==
  ASSUME ExtractionInv, UNCHANGED <<os, dest>>,
         step' = "extracted" => step = "extracted" /\ UNCHANGED <<image, entry>>
  PROVE  ExtractionInv'
<1>1. DirOK'
  BY DEF ExtractionInv, DirOK
<1>2. step' = "extracted" => EntryOK'
  BY DEF ExtractionInv, EntryOK
<1> QED
  BY <1>1, <1>2 DEF ExtractionInv

LEMMA StepInv ==
  ASSUME ExtractionInv, [Next]_vars
  PROVE  ExtractionInv'
<1>1. ASSUME NEW img \in Images(os), Extract(img) \/ ExtractFails(img) \/ NoToolWorks(img)
      PROVE  ExtractionInv'
  BY <1>1, ExtractStep, FailsStep, NoToolStep
<1>2. CASE ScanDir
  BY <1>2, SameView DEF ScanDir
<1>3. CASE UNCHANGED vars
  BY <1>3, SameView DEF vars
<1> QED
  BY <1>1, <1>2, <1>3 DEF Next

\* The inductive invariant: the files of the boot directory, and what the entry of an
\* extraction names (extract_iso_task, over extract_iso and scan_and_register).
THEOREM InvHolds == Spec => []ExtractionInv
<1>1. ExtractionInv /\ [Next]_vars => ExtractionInv'
  BY StepInv
<1> QED
  BY <1>1, InitInv, PTL DEF Spec

-----------------------------------------------------------------------------
\* Every path that an extraction records is a file of the boot directory, for any
\* images, plans and leftovers (extract_iso and what the task stores of it).
THEOREM RecordedOnDisk == Spec => []RecordedIsOnDisk
<1>1. ExtractionInv => RecordedIsOnDisk
  <2> SUFFICES ASSUME ExtractionInv, step = "extracted", NEW p \in EntryPaths \cup PreloadPaths
               PROVE  FileAt(dest, p) # {}
    BY DEF RecordedIsOnDisk
  <2>1. OnDisk(entry, dest)
    BY DEF ExtractionInv, EntryOK
  <2>2. HasPath(dest, p)
    BY <2>1 DEF OnDisk, EntryPaths, PreloadPaths
  <2> QED
    BY <2>2 DEF HasPath, FileAt
<1> QED
  BY <1>1, InvHolds, PTL

\* An extraction that succeeds has found what a menu entry needs, except where a rule
\* or a plan lets it off (the finders of iso_extractor).
THEOREM BootableOrLenient == Spec => []BootableUnlessLenient
<1>1. ExtractionInv => BootableUnlessLenient
  BY DEF ExtractionInv, EntryOK, BootableUnlessLenient, Bootable, MayLack, Lenient
<1> QED
  BY <1>1, InvHolds, PTL

\* The preload list of ESXi ends with the modules of a boot.cfg nearest to the root of
\* the directory, in its order, each the file of that name; the boot.cfg is the image's
\* own where it has one at its root in capitals (_esxi_boot_cfg_http_payload).
THEOREM ModulesInOrder == Spec => []EsxiModulesInOrder
<1>1. ExtractionInv => EsxiModulesInOrder
  <2> SUFFICES ASSUME ExtractionInv, step = "extracted", os.boot = "esxi"
               PROVE  \E c \in BootCfgs(dest) :
                        /\ EndsWithModules(entry.modules, RefsIn(c))
                        /\ OwnCfgs(image.files) # {} => c.src \in {f.src : f \in OwnCfgs(image.files)}
    BY DEF EsxiModulesInOrder
  <2>1. image \in Images(os) /\ os \in OsTypes /\ OwnCfgFirst(dest, image.files) /\ GoodEsxi(entry, dest)
    BY DEF ExtractionInv, EntryOK
  <2>2. PICK c \in BootCfgs(dest) : ListOf(entry.modules, dest, RefsIn(c))
    BY <2>1 DEF GoodEsxi
  <2>3. c \in dest /\ IsBootCfg(c)
    BY DEF BootCfgs, Shallowest
  <2>4. IsSequence(RefsIn(c)) /\ \A ref \in ToSet(RefsIn(c)) : NameOf(ref) \notin OurNames
    <3>1. PICK img \in Images(os) : From(c, img.files)
      BY <2>3, OursIsNoCfg DEF ExtractionInv, DirOK
    <3>2. PICK g \in img.files : c.src = g.src /\ IsBootCfg(g)
      BY <2>3, <3>1 DEF From, IsBootCfg
    <3>3. ImageOK(os, img)
      BY <2>1, <3>1, Given
    <3> QED
      BY <3>2, <3>3 DEF ImageOK, RefsIn
  <2> DEFINE refs == RefsIn(c)
  <2> DEFINE m == entry.modules
  <2> DEFINE mods == SubSeq(m, Len(m) - Len(refs) + 1, Len(m))
  <2> DEFINE srcs == {g.src : g \in image.files}
  <2> DEFINE named(ref) == {f \in image.files : NameOf(f) = NameOf(ref)}
  <2> DEFINE left(ref) == {f \in dest : NameOf(f) = NameOf(ref) /\ f.src \notin srcs}
  <2>5. ASSUME NEW i \in DOMAIN refs
        PROVE  /\ NameOf(mods[i]) = NameOf(refs[i])
               /\ Cardinality(named(refs[i])) = 1 /\ left(refs[i]) = {} =>
                    \A f \in FileAt(dest, mods[i]) : f.src \in {g.src : g \in named(refs[i])}
    <3>1. refs[i] \in ToSet(refs) /\ i \in 1..Len(refs)
      <4> HIDE DEF refs
      <4> QED
        BY <2>4, <2>5 DEF refs, IsSequence, ToSet
    <3>2. NameOf(refs[i]) \notin OurNames
      BY <2>4, <3>1
    <3> HIDE DEF refs, m
    <3>3. mods[i] = m[Len(m) - Len(refs) + i]
      BY <2>2, <3>1 DEF ListOf, refs, m
    <3>4. NameOf(mods[i]) = NameOf(refs[i])
      BY <2>2, <3>1, <3>3 DEF ListOf, refs, m
    <3> HIDE DEF mods
    <3>5. ASSUME left(refs[i]) = {}, NEW f \in FileAt(dest, mods[i])
          PROVE  f.src \in {g.src : g \in named(refs[i])}
      <4>1. f \in dest /\ NameOf(f) = NameOf(refs[i])
        BY <3>4 DEF FileAt, PathOf, NameOf, Name
      <4>2. PICK g \in image.files : f.src = g.src
        BY <3>5, <4>1
      <4>3. PICK im \in Images(os) : From(f, im.files)
        BY <3>2, <4>1 DEF ExtractionInv, DirOK, Ours
      <4>4. PICK h \in im.files : f.src = h.src /\ NameOf(f) = NameOf(h)
        BY <4>3 DEF From
      <4>5. OneName(g, h)
        BY <2>1, <4>2, <4>3, <4>4, ExtractionAssumption, Zenon
      <4>6. NameOf(g) = NameOf(h)
        BY <4>2, <4>4, <4>5 DEF OneName
      <4> QED
        BY <4>1, <4>2, <4>4, <4>6
    <3> QED
      BY <3>4, <3>5
  <2>6. EndsWithModules(m, refs)
    <3> HIDE DEF refs, m
    <3> QED
      BY <2>5 DEF EndsWithModules
  <2> QED
    BY <2>1, <2>2, <2>6 DEF OwnCfgFirst
<1> QED
  BY <1>1, InvHolds, PTL

\* A scan leaves every path of a fresh extraction as it is (scan_and_register).
THEOREM ScanKeeps == Spec => ScanKeepsExtraction
<1>1. ASSUME ExtractionInv, [Next]_vars, step = "extracted", step' = "scanned", NEW k \in DOMAIN entry
      PROVE  entry'[k] = entry[k]
  <2>1. entry' = Scanned(entry, dest)
    BY <1>1 DEF Next, vars, Extract, ExtractFails, NoToolWorks, ScanDir
  <2>2. CASE os.boot = "windows"
    <3>1. entry' = entry
      BY <1>1, <2>1, <2>2 DEF Scanned, ExtractionInv, EntryOK
    <3> QED
      BY <3>1
  <2>3. CASE os.boot # "windows"
    <3>1. entry' = ScanLinux(entry, dest)
      BY <2>1, <2>3 DEF Scanned
    <3> QED
      BY <3>1, LinuxScanAdds
  <2> QED
    BY <2>2, <2>3
<1>2. ExtractionInv /\ [Next]_vars =>
        [step = "extracted" /\ step' = "scanned" => \A k \in DOMAIN entry : entry'[k] = entry[k]]_vars
  BY <1>1
<1> QED
  BY <1>2, InvHolds, PTL DEF Spec, ScanKeepsExtraction
=============================================================================
