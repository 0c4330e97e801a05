------------------------ MODULE FirmwareBuild_proofs ------------------------
(***************************************************************************)
(* Proofs about FirmwareBuild for any number of builds, workers, URLs and  *)
(* changes of the CA.                                                      *)
(***************************************************************************)
EXTENDS FirmwareBuild, TLAPS

(* Where the git of b, in its task or left behind, may still fill the tree.*)
Cloner(b) == At(b, "clone") \/ (At(b, "orphan") /\ build[b].file = "")

PastHttps == {"debug", "stamp", "clean", "embed", "check", "enter", "make", "purge", "copy", "done"}
InTree(b) == build[b].at \in {"patch", "https"} \cup PastHttps \/ (At(b, "orphan") /\ build[b].file # "")

(* A build handles a file only from its first make on.                     *)
FileInHand ==
    \A b \in Builds :
        /\ build[b].at \in {"none", "queued", "clone", "pull"} => build[b].file = ""
        /\ build[b].at \in {"enter", "make", "copy"} => build[b].file \in Files

(* One git clones at a time, and nobody patches or compiles in a tree that *)
(* is not whole.                                                           *)
TreeWhole ==
    /\ \A b \in Builds : Cloner(b) => cloned = "partial"
    /\ \A a, b \in Builds : Cloner(a) /\ Cloner(b) => a = b
    /\ \A b \in Builds : InTree(b) => cloned = "yes"

IsPastHttps(b) == build[b].at \in PastHttps \/ (At(b, "orphan") /\ build[b].file # "")
Patched(h)     == {"define_https", "local_https"} \subseteq h

HttpsStays == \A b \in Builds : IsPastHttps(b) => Patched(headers)

(* The last build that wrote embed.ipxe is still its author.                *)
EmbedIsEmbedders ==
    embedder # NoBuild =>
        /\ embed = build[embedder].url
        /\ build[embedder].at \notin {"none", "queued"}

(* How far b is: the directories it has purged, the files it has compiled  *)
(* and those it has copied.                                                *)
HasPurged(b, d) ==
    \/ build[b].at \in {"copy", "done"}
    \/ At(b, "purge") /\ d = "bin"
    \/ build[b].at \in {"enter", "make"} /\ (d = "bin" \/ build[b].file # "undionly")

HasMade(b, f) ==
    \/ build[b].at \in {"copy", "done"}
    \/ At(b, "purge") /\ f = "undionly"
    \/ build[b].at \in {"enter", "make"} /\ f = "undionly" /\ build[b].file # "undionly"
    \/ build[b].at \in {"enter", "make"} /\ f = "snponly" /\ build[b].file = "ipxe"

HasCopied(b, f) ==
    \/ At(b, "done")
    \/ At(b, "copy") /\ f = "undionly" /\ build[b].file # "undionly"
    \/ At(b, "copy") /\ f = "ipxe" /\ build[b].file = "snponly"

Carries(firmware) == firmware.url = embed /\ firmware.https

PureBin(f) == bin[f] = NoFile \/ Carries(bin[f])
PureDir(d) ==
    /\ embedded[d] \in {0, embed}
    /\ \A o \in Making : Dir(build[o].file) = d => build[o].got = embed

(* What the last embedder has purged, compiled and copied carries its URL, *)
(* and so will whatever another make is about to link there.               *)
Pure ==
    embedder # NoBuild /\ ~crossed =>
        /\ \A d \in Dirs : HasPurged(embedder, d) => PureDir(d)
        /\ \A f \in Files : HasMade(embedder, f) => PureBin(f)
        /\ \A f \in Files : HasCopied(embedder, f) => Carries(tftp[f])

IInv == TypeOK /\ FileInHand /\ TreeWhole /\ HttpsStays /\ EmbedIsEmbedders /\ Pure
----------------------------------------------------------------------------
(* A step of b brings it to place s with file f, and leaves the others.    *)
Moves(b, s, f) ==
    /\ build' \in [Builds -> BuildState]
    /\ \A o \in Builds \ {b} : build'[o] = build[o]
    /\ build'[b].at = s /\ build'[b].file = f

KeepsUrl(b) == build'[b].url = build[b].url
KeepsGot(b) == build'[b].got = build[b].got

LEMMA GoMoves ==
  ASSUME build \in [Builds -> BuildState], NEW b \in Builds, NEW s \in Places, Go(b, s)
  PROVE  Moves(b, s, build[b].file) /\ KeepsUrl(b) /\ KeepsGot(b)
<1>1. build[b] \in BuildState
  OBVIOUS
<1>2. /\ build'[b] = [build[b] EXCEPT !.at = s]
      /\ \A o \in Builds \ {b} : build'[o] = build[o]
      /\ build' \in [Builds -> BuildState]
  <2>1. [build[b] EXCEPT !.at = s] \in BuildState
    BY <1>1 DEF BuildState
  <2> QED
    BY <2>1 DEF Go
<1> QED
  BY <1>1, <1>2 DEF BuildState, Moves, KeepsUrl, KeepsGot

LEMMA GoOnMoves ==
  ASSUME build \in [Builds -> BuildState], NEW b \in Builds, NEW s \in Places,
         NEW m \in SUBSET Completed, GoOn(b, s, m)
  PROVE  Moves(b, s, build[b].file) /\ KeepsUrl(b) /\ KeepsGot(b)
<1>1. build[b] \in BuildState
  OBVIOUS
<1>2. /\ build'[b] = [build[b] EXCEPT !.at = s, !.made = @ \cup m]
      /\ \A o \in Builds \ {b} : build'[o] = build[o]
      /\ build' \in [Builds -> BuildState]
  <2>1. [build[b] EXCEPT !.at = s, !.made = @ \cup m] \in BuildState
    BY <1>1 DEF BuildState
  <2> QED
    BY <2>1 DEF GoOn
<1> QED
  BY <1>1, <1>2 DEF BuildState, Moves, KeepsUrl, KeepsGot

LEMMA QueueMoves ==
  ASSUME build \in [Builds -> BuildState], NEW b \in Builds, NEW s \in Places, NEW u \in Urls,
         build' = [build EXCEPT ![b].at = s, ![b].url = u]
  PROVE  Moves(b, s, build[b].file)
<1>1. build[b] \in BuildState
  OBVIOUS
<1>2. /\ build'[b] = [build[b] EXCEPT !.at = s, !.url = u]
      /\ \A o \in Builds \ {b} : build'[o] = build[o]
      /\ build' \in [Builds -> BuildState]
  <2>1. [build[b] EXCEPT !.at = s, !.url = u] \in BuildState
    BY <1>1 DEF BuildState
  <2> QED
    BY <2>1
<1> QED
  BY <1>1, <1>2 DEF BuildState, Moves

LEMMA TrustMoves ==
  ASSUME build \in [Builds -> BuildState], NEW b \in Builds, NEW s \in Places, NEW t \in BOOLEAN,
         NEW m \in SUBSET Completed,
         build' = [build EXCEPT ![b].at = s, ![b].trust = t, ![b].made = @ \cup m]
  PROVE  Moves(b, s, build[b].file) /\ KeepsUrl(b) /\ KeepsGot(b)
<1>1. build[b] \in BuildState
  OBVIOUS
<1>2. /\ build'[b] = [build[b] EXCEPT !.at = s, !.trust = t, !.made = @ \cup m]
      /\ \A o \in Builds \ {b} : build'[o] = build[o]
      /\ build' \in [Builds -> BuildState]
  <2>1. [build[b] EXCEPT !.at = s, !.trust = t, !.made = @ \cup m] \in BuildState
    BY <1>1 DEF BuildState
  <2> QED
    BY <2>1
<1> QED
  BY <1>1, <1>2 DEF BuildState, Moves, KeepsUrl, KeepsGot

LEMMA ReadMoves ==
  ASSUME build \in [Builds -> BuildState], NEW b \in Builds, NEW s \in Places, NEW g \in Urls \cup {0},
         build' = [build EXCEPT ![b].at = s, ![b].got = g]
  PROVE  Moves(b, s, build[b].file) /\ KeepsUrl(b) /\ build'[b].got = g
<1>1. build[b] \in BuildState
  OBVIOUS
<1>2. /\ build'[b] = [build[b] EXCEPT !.at = s, !.got = g]
      /\ \A o \in Builds \ {b} : build'[o] = build[o]
      /\ build' \in [Builds -> BuildState]
  <2>1. [build[b] EXCEPT !.at = s, !.got = g] \in BuildState
    BY <1>1 DEF BuildState
  <2> QED
    BY <2>1
<1> QED
  BY <1>1, <1>2 DEF BuildState, Moves, KeepsUrl

LEMMA FileMoves ==
  ASSUME build \in [Builds -> BuildState], NEW b \in Builds, NEW f \in Files,
         build' = [build EXCEPT ![b].file = f]
  PROVE  Moves(b, build[b].at, f) /\ KeepsUrl(b) /\ KeepsGot(b)
<1>1. build[b] \in BuildState
  OBVIOUS
<1>2. /\ build'[b] = [build[b] EXCEPT !.file = f]
      /\ \A o \in Builds \ {b} : build'[o] = build[o]
      /\ build' \in [Builds -> BuildState]
  <2>1. [build[b] EXCEPT !.file = f] \in BuildState
    BY <1>1 DEF BuildState
  <2> QED
    BY <2>1
<1> QED
  BY <1>1, <1>2 DEF BuildState, Moves, KeepsUrl, KeepsGot

LEMMA PlaceAndFileMove ==
  ASSUME build \in [Builds -> BuildState], NEW b \in Builds, NEW s \in Places, NEW f \in Files \cup {""},
         build' = [build EXCEPT ![b].at = s, ![b].file = f]
  PROVE  Moves(b, s, f) /\ KeepsUrl(b) /\ KeepsGot(b)
<1>1. build[b] \in BuildState
  OBVIOUS
<1>2. /\ build'[b] = [build[b] EXCEPT !.at = s, !.file = f]
      /\ \A o \in Builds \ {b} : build'[o] = build[o]
      /\ build' \in [Builds -> BuildState]
  <2>1. [build[b] EXCEPT !.at = s, !.file = f] \in BuildState
    BY <1>1 DEF BuildState
  <2> QED
    BY <2>1
<1> QED
  BY <1>1, <1>2 DEF BuildState, Moves, KeepsUrl, KeepsGot

LEMMA AllMove ==
  ASSUME build \in [Builds -> BuildState], NEW b \in Builds, NEW s \in Places, NEW f \in Files \cup {""},
         NEW m \in SUBSET Completed,
         build' = [build EXCEPT ![b].at = s, ![b].file = f, ![b].made = @ \cup m]
  PROVE  Moves(b, s, f) /\ KeepsUrl(b) /\ KeepsGot(b)
<1>1. build[b] \in BuildState
  OBVIOUS
<1>2. /\ build'[b] = [build[b] EXCEPT !.at = s, !.file = f, !.made = @ \cup m]
      /\ \A o \in Builds \ {b} : build'[o] = build[o]
  BY DEF BuildState
<1>3. [build[b] EXCEPT !.at = s, !.file = f, !.made = @ \cup m] \in BuildState
  BY <1>1 DEF BuildState
<1> QED
  BY <1>1, <1>2, <1>3 DEF BuildState, Moves, KeepsUrl, KeepsGot
----------------------------------------------------------------------------
(* What each part of the invariant asks of a step of b.                    *)

LEMMA FileKept ==
  ASSUME FileInHand, NEW b \in Builds, NEW s, NEW f, Moves(b, s, f),
         s \in {"none", "queued", "clone", "pull"} => f = "",
         s \in {"enter", "make", "copy"} => f \in Files
  PROVE  FileInHand'
  BY DEF FileInHand, Moves

LEMMA TreeKept ==
  ASSUME TreeWhole, NEW b \in Builds, NEW s, NEW f, Moves(b, s, f), cloned' = cloned,
         s = "clone" \/ (s = "orphan" /\ f = "") => Cloner(b),
         s \in {"patch", "https"} \cup PastHttps \/ (s = "orphan" /\ f # "") => cloned = "yes"
  PROVE  TreeWhole'
<1>1. \A o \in Builds : Cloner(o)' => Cloner(o)
  BY DEF Cloner, At, Moves
<1>2. \A o \in Builds : InTree(o)' => InTree(o) \/ cloned = "yes"
  BY DEF InTree, At, Moves
<1> QED
  BY <1>1, <1>2 DEF TreeWhole

LEMMA HttpsKept ==
  ASSUME HttpsStays, NEW b \in Builds, NEW s, NEW f, Moves(b, s, f),
         Patched(headers) => Patched(headers'),
         s \in PastHttps \/ (s = "orphan" /\ f # "") => IsPastHttps(b) \/ Patched(headers')
  PROVE  HttpsStays'
  BY DEF HttpsStays, IsPastHttps, At, Moves

LEMMA EmbedKept ==
  ASSUME TypeOK, EmbedIsEmbedders, NEW b \in Builds, NEW s, NEW f, Moves(b, s, f),
         UNCHANGED <<embed, embedder>>,
         build[b].at \in {"none", "queued"} \/ (KeepsUrl(b) /\ s \notin {"none", "queued"})
  PROVE  EmbedIsEmbedders'
  BY DEF TypeOK, EmbedIsEmbedders, Moves, KeepsUrl

(* Making, copying: a build that has copied a file has made it, and one    *)
(* that has made it has purged its directory.                              *)
LEMMA Stages ==
  ASSUME FileInHand, NEW b \in Builds, NEW g \in Files
  PROVE  /\ HasMade(b, g) => HasPurged(b, Dir(g))
         /\ HasCopied(b, g) => HasMade(b, g)
  BY DEF HasMade, HasPurged, HasCopied, Dir, At, Files

(* Pure survives a step that spoils nothing that is pure and claims no     *)
(* more than it does.                                                      *)
LEMMA PureStep ==
  ASSUME TypeOK, FileInHand, Pure, NEW b \in Builds, NEW s, NEW f, Moves(b, s, f),
         UNCHANGED <<embed, embedder>>, ~crossed' => ~crossed,
         \A d \in Dirs : PureDir(d) => PureDir(d)',
         \A g \in Files : PureBin(g) /\ PureDir(Dir(g)) => PureBin(g)',
         \A g \in Files : Carries(tftp[g]) /\ PureBin(g) => Carries(tftp[g])',
         \A d \in Dirs : embedder = b /\ ~crossed' /\ HasPurged(b, d)' => HasPurged(b, d) \/ PureDir(d)',
         \A g \in Files : embedder = b /\ ~crossed' /\ HasMade(b, g)' => HasMade(b, g) \/ PureBin(g)',
         \A g \in Files : embedder = b /\ ~crossed' /\ HasCopied(b, g)' => HasCopied(b, g) \/ Carries(tftp[g])'
  PROVE  Pure'
<1> SUFFICES ASSUME embedder # NoBuild, ~crossed'
             PROVE  /\ \A d \in Dirs : HasPurged(embedder, d)' => PureDir(d)'
                    /\ \A g \in Files : HasMade(embedder, g)' => PureBin(g)'
                    /\ \A g \in Files : HasCopied(embedder, g)' => Carries(tftp[g])'
  BY DEF Pure
<1>1. embedder \in Builds /\ ~crossed
  BY DEF TypeOK
<1>2. /\ \A d \in Dirs : HasPurged(embedder, d) => PureDir(d)
      /\ \A g \in Files : HasMade(embedder, g) => PureBin(g)
      /\ \A g \in Files : HasCopied(embedder, g) => Carries(tftp[g])
  BY <1>1 DEF Pure
<1>3. \A g \in Files : Dir(g) \in Dirs
  BY DEF Dir, Dirs
<1>4. /\ \A d \in Dirs : HasPurged(embedder, d)' => HasPurged(embedder, d) \/ PureDir(d)'
      /\ \A g \in Files : HasMade(embedder, g)' => HasMade(embedder, g) \/ PureBin(g)'
      /\ \A g \in Files : HasCopied(embedder, g)' => HasCopied(embedder, g) \/ Carries(tftp[g])'
  <2>1. CASE embedder = b
    BY <2>1 DEF HasPurged, HasMade, HasCopied, At
  <2>2. CASE embedder # b
    <3>1. build'[embedder] = build[embedder]
      BY <1>1, <2>2 DEF Moves
    <3> QED
      BY <3>1 DEF HasPurged, HasMade, HasCopied, At
  <2> QED
    BY <2>1, <2>2
<1>5. \A d \in Dirs : HasPurged(embedder, d)' => PureDir(d)'
  BY <1>2, <1>4
<1>6. \A g \in Files : HasMade(embedder, g)' => PureBin(g)'
  BY <1>1, <1>2, <1>3, <1>4, Stages
<1>7. \A g \in Files : HasCopied(embedder, g)' => Carries(tftp[g])'
  BY <1>1, <1>2, <1>4, Stages
<1> QED
  BY <1>5, <1>6, <1>7

(* A directory stays pure when it loses its objects, or no one new is      *)
(* making in it.                                                           *)
LEMMA PureDirKept ==
  ASSUME NEW b \in Builds, NEW s, NEW f, Moves(b, s, f), embed' = embed,
         \A d \in Dirs : embedded'[d] \in {embedded[d], 0},
         s = "make" \/ (s = "orphan" /\ f \in Files) =>
             At(b, "make") /\ f = build[b].file /\ KeepsGot(b)
  PROVE  \A d \in Dirs : PureDir(d) => PureDir(d)'
<1>1. \A o \in Making' : o \in Making /\ build'[o].file = build[o].file /\ build'[o].got = build[o].got
  BY DEF Making, At, Moves, KeepsGot
<1> QED
  BY <1>1 DEF PureDir

(* Pure survives a step that neither purges, makes, copies nor embeds.     *)
LEMMA PureKept ==
  ASSUME TypeOK, FileInHand, Pure, NEW b \in Builds, NEW s, NEW f, Moves(b, s, f),
         UNCHANGED <<embed, embedder, crossed, tftp>>,
         \A d \in Dirs : embedded'[d] \in {embedded[d], 0},
         \A g \in Files : bin'[g] \in {bin[g], NoFile},
         s \notin {"enter", "make", "purge", "copy", "done"},
         s = "orphan" /\ f \in Files => At(b, "make") /\ f = build[b].file /\ KeepsGot(b)
  PROVE  Pure'
<1>1. \A d \in Dirs : PureDir(d) => PureDir(d)'
  BY PureDirKept
<1>2. \A g \in Files : PureBin(g) => PureBin(g)'
  BY DEF PureBin, Carries
<1>3. \A g \in Files : Carries(tftp[g]) => Carries(tftp[g])'
  BY DEF Carries
<1>4. /\ \A d \in Dirs : ~HasPurged(b, d)'
      /\ \A g \in Files : ~HasMade(b, g)' /\ ~HasCopied(b, g)'
  BY DEF HasPurged, HasMade, HasCopied, Moves, At
<1> QED
  BY <1>1, <1>2, <1>3, <1>4, PureStep

(* Another make that links in a pure directory leaves it pure.             *)
LEMMA PureLink ==
  ASSUME TypeOK, HttpsStays, NEW b \in Making, NEW e \in Files, build[b].file = e, Links(b),
         NEW s, NEW f, Moves(b, s, f), s \notin {"make", "orphan"}, embed' = embed
  PROVE  /\ \A d \in Dirs : PureDir(d) => PureDir(d)'
         /\ \A g \in Files : PureBin(g) /\ PureDir(Dir(g)) => PureBin(g)'
         /\ PureDir(Dir(e)) => PureBin(e)'
<1>1. b \in Builds /\ Patched(headers)
  BY DEF Making, HttpsStays, IsPastHttps, PastHttps, At, Files
<1>2. \A o \in Making' : o \in Making /\ build'[o] = build[o]
  BY <1>1 DEF Making, At, Moves
<1>3. PureDir(Dir(e)) => build[b].got = embed
  BY DEF PureDir
<1>4. embedded' = [embedded EXCEPT ![Dir(e)] = build[b].got]
  BY DEF Links
<1>5. \A d \in Dirs : PureDir(d) => PureDir(d)'
  BY <1>2, <1>3, <1>4 DEF PureDir, TypeOK
<1>6. SpeaksHttps(e)
  BY <1>1 DEF SpeaksHttps, Patched
<1>7. bin' = [bin EXCEPT ![e] = [url |-> build[b].got, ca |-> objca[Dir(e)], https |-> SpeaksHttps(e)]]
  BY DEF Links
<1>8. /\ bin'[e] = [url |-> build[b].got, ca |-> objca[Dir(e)], https |-> SpeaksHttps(e)]
      /\ \A g \in Files \ {e} : bin'[g] = bin[g]
  BY <1>7 DEF TypeOK
<1>9. PureDir(Dir(e)) => PureBin(e)'
  BY <1>3, <1>6, <1>8 DEF PureBin, Carries
<1>10. \A g \in Files : PureBin(g) /\ PureDir(Dir(g)) => PureBin(g)'
  BY <1>8, <1>9 DEF PureBin, Carries
<1> QED
  BY <1>5, <1>9, <1>10
----------------------------------------------------------------------------
(* The steps.                                                              *)

LEMMA PatchKeepsHttps ==
    /\ Patched(headers) => Patched(PatchConsole(headers))
    /\ Patched(PatchHttps(headers))
  BY DEF PatchConsole, PatchHttps, Patched

LEMMA PatchTypes ==
  ASSUME headers \subseteq Upstream \cup {"define_https", "local_https"}
  PROVE  /\ PatchConsole(headers) \subseteq Upstream \cup {"define_https", "local_https"}
         /\ PatchHttps(headers) \subseteq Upstream \cup {"define_https", "local_https"}
  BY DEF PatchConsole, PatchHttps, Upstream

LEMMA LinkTypes ==
  ASSUME TypeOK, FirmwareAssumption, NEW b \in Builds, build[b].file \in Files, Links(b)
  PROVE  embedded' \in [Dirs -> Urls \cup {0}] /\ bin' \in [Files -> Published]
<1>1. build[b].got \in Urls \cup {0}
  BY DEF TypeOK, BuildState
<1>2. objca[Dir(build[b].file)] \in 0..MaxCa
  BY DEF TypeOK, Links, Dir, Dirs, NoObjects, FirmwareAssumption
<1>3. SpeaksHttps(build[b].file) \in BOOLEAN
  BY DEF SpeaksHttps
<1> QED
  BY <1>1, <1>2, <1>3 DEF TypeOK, Links, Published

LEMMA StepKeeps ==
  ASSUME FirmwareAssumption, IInv, NEW b \in Builds, Step(b)
  PROVE  IInv'
<1>a. TypeOK /\ FileInHand /\ TreeWhole /\ HttpsStays /\ EmbedIsEmbedders /\ Pure
  BY DEF IInv
<1>b. build \in [Builds -> BuildState]
  BY <1>a DEF TypeOK
<1>c. /\ build[b].at \in {"none", "queued", "clone", "pull"} => build[b].file = ""
      /\ build[b].at \in {"enter", "make", "copy"} => build[b].file \in Files
  BY <1>a DEF FileInHand
<1>d. /\ build[b].at \in {"patch", "https"} \cup PastHttps => cloned = "yes"
      /\ Cloner(b) => cloned = "partial" /\ \A o \in Builds \ {b} : ~Cloner(o) /\ ~InTree(o)
  BY <1>a DEF TreeWhole, InTree
<1>e. IsPastHttps(b) => Patched(headers)
  BY <1>a DEF HttpsStays
<1>1. CASE Submit(b)
  <2>1. Moves(b, "queued", build[b].file)
    BY <1>b, <1>c, <1>1, QueueMoves DEF Submit, At, Places, Ends
  <2>2. TypeOK'
    BY <1>a, <1>1, <2>1 DEF Submit, TypeOK, Moves, treevars, ghosts, At
  <2>3. FileInHand'
    BY <1>a, <1>c, <1>1, <2>1, FileKept DEF Submit, At, Files
  <2>4. TreeWhole'
    BY <1>a, <1>c, <1>d, <1>1, <2>1, TreeKept DEF Submit, At, PastHttps, treevars
  <2>5. HttpsStays'
    BY <1>a, <1>c, <1>e, <1>1, <2>1, HttpsKept DEF Submit, At, PastHttps, IsPastHttps, Patched, treevars
  <2>6. EmbedIsEmbedders'
    BY <1>a, <1>1, <2>1, EmbedKept DEF Submit, At, treevars, ghosts
  <2>7. Pure'
    BY <1>a, <1>c, <1>1, <2>1, PureKept DEF Submit, At, treevars, ghosts, Dirs, Files
  <2> QED
    BY <2>2, <2>3, <2>4, <2>5, <2>6, <2>7 DEF IInv
<1>2. CASE Start(b)
  <2>1. \E s \in {"clone", "pull"} :
          /\ Moves(b, s, "") /\ KeepsUrl(b) /\ KeepsGot(b)
          /\ IF s = "clone" THEN cloned = "no" /\ cloned' = "partial" ELSE cloned' = cloned
    BY <1>b, <1>c, <1>2, GoMoves DEF Start, At, Places
  <2>m. PICK s \in {"clone", "pull"} :
          /\ Moves(b, s, "") /\ KeepsUrl(b) /\ KeepsGot(b)
          /\ IF s = "clone" THEN cloned = "no" /\ cloned' = "partial" ELSE cloned' = cloned
    BY <2>1
  <2>2. TypeOK'
    BY <1>a, <1>2, <2>m DEF Start, TypeOK, Moves
  <2>3. FileInHand'
    BY <1>a, <2>m, FileKept
  <2>4. TreeWhole'
    <3>1. CASE s = "clone"
      <4>1. \A o \in Builds : ~Cloner(o) /\ ~InTree(o)
        BY <1>a, <2>m, <3>1 DEF TreeWhole
      <4>2. ~InTree(b)' /\ cloned' = "partial"
        BY <2>m, <3>1 DEF InTree, PastHttps, At, Moves
      <4>3. \A o \in Builds \ {b} : ~Cloner(o)' /\ ~InTree(o)'
        BY <2>m, <4>1 DEF Cloner, InTree, At, Moves
      <4> QED
        BY <4>2, <4>3 DEF TreeWhole
    <3>2. CASE s = "pull"
      BY <1>a, <2>m, <3>2, TreeKept DEF PastHttps
    <3> QED
      BY <3>1, <3>2
  <2>5. HttpsStays'
    BY <1>a, <1>2, <2>m, HttpsKept DEF Start, PastHttps
  <2>6. EmbedIsEmbedders'
    BY <1>a, <1>2, <2>m, EmbedKept DEF Start
  <2>7. Pure'
    BY <1>a, <1>2, <2>m, PureKept DEF Start
  <2> QED
    BY <2>2, <2>3, <2>4, <2>5, <2>6, <2>7 DEF IInv
<1>3. CASE Clone(b)
  <2>1. Moves(b, "patch", build[b].file) /\ KeepsUrl(b) /\ KeepsGot(b)
    BY <1>b, <1>c, <1>3, GoOnMoves DEF Clone, Completed, At, Places, Ends
  <2>2. TypeOK'
    BY <1>a, <1>3, <2>1 DEF Clone, TypeOK, Moves, treevars, ghosts, At, CloneEnds, Upstream
  <2>3. FileInHand'
    BY <1>a, <1>c, <1>3, <2>1, FileKept DEF Clone, At, Files
  <2>4. TreeWhole'
    <3>1. Cloner(b) /\ ~Cloner(b)' /\ cloned' = "yes"
      BY <1>c, <1>3, <2>1 DEF Clone, CloneEnds, At, Cloner, Moves
    <3>2. \A o \in Builds \ {b} : ~Cloner(o)'
      BY <1>d, <2>1, <3>1 DEF Cloner, At, Moves
    <3> QED
      BY <3>1, <3>2 DEF TreeWhole
  <2>5. HttpsStays'
    <3>1. Cloner(b)
      BY <1>c, <1>3 DEF Clone, At, Cloner
    <3>2. \A o \in Builds \ {b} : ~IsPastHttps(o)
      BY <1>d, <3>1 DEF IsPastHttps, InTree
    <3>3. ~IsPastHttps(b)'
      BY <2>1 DEF IsPastHttps, PastHttps, At, Moves
    <3> QED
      BY <2>1, <3>2, <3>3 DEF HttpsStays, IsPastHttps, At, Moves
  <2>6. EmbedIsEmbedders'
    BY <1>a, <1>3, <2>1, EmbedKept DEF Clone, At, treevars, ghosts, CloneEnds
  <2>7. Pure'
    BY <1>a, <1>c, <1>3, <2>1, PureKept DEF Clone, At, treevars, ghosts, Dirs, Files, CloneEnds
  <2> QED
    BY <2>2, <2>3, <2>4, <2>5, <2>6, <2>7 DEF IInv
<1>4. CASE Pull(b)
  <2>1. Moves(b, "patch", build[b].file) /\ KeepsUrl(b) /\ KeepsGot(b)
    BY <1>b, <1>c, <1>4, GoOnMoves DEF Pull, Completed, At, Places, Ends
  <2>2. TypeOK'
    BY <1>a, <1>4, <2>1 DEF Pull, TypeOK, Moves, treevars, ghosts, At
  <2>3. FileInHand'
    BY <1>a, <1>c, <1>4, <2>1, FileKept DEF Pull, At, Files
  <2>4. TreeWhole'
    BY <1>a, <1>c, <1>d, <1>4, <2>1, TreeKept DEF Pull, At, PastHttps, treevars
  <2>5. HttpsStays'
    BY <1>a, <1>c, <1>e, <1>4, <2>1, HttpsKept DEF Pull, At, PastHttps, IsPastHttps, Patched, treevars
  <2>6. EmbedIsEmbedders'
    BY <1>a, <1>4, <2>1, EmbedKept DEF Pull, At, treevars, ghosts
  <2>7. Pure'
    BY <1>a, <1>c, <1>4, <2>1, PureKept DEF Pull, At, treevars, ghosts, Dirs, Files
  <2> QED
    BY <2>2, <2>3, <2>4, <2>5, <2>6, <2>7 DEF IInv
<1>5. CASE Patch(b)
  <2>1. Moves(b, "https", build[b].file) /\ KeepsUrl(b) /\ KeepsGot(b)
    BY <1>b, <1>c, <1>5, GoOnMoves DEF Patch, Completed, At, Places, Ends
  <2>2. TypeOK'
    BY <1>a, <1>5, <2>1, PatchTypes DEF Patch, TypeOK, Moves, treevars, ghosts, At
  <2>3. FileInHand'
    BY <1>a, <1>c, <1>5, <2>1, FileKept DEF Patch, At, Files
  <2>4. TreeWhole'
    BY <1>a, <1>c, <1>d, <1>5, <2>1, TreeKept DEF Patch, At, PastHttps, treevars
  <2>5. HttpsStays'
    BY <1>a, <1>c, <1>e, <1>5, <2>1, HttpsKept, PatchKeepsHttps DEF Patch, At, PastHttps, IsPastHttps, Patched, treevars
  <2>6. EmbedIsEmbedders'
    BY <1>a, <1>5, <2>1, EmbedKept DEF Patch, At, treevars, ghosts
  <2>7. Pure'
    BY <1>a, <1>c, <1>5, <2>1, PureKept DEF Patch, At, treevars, ghosts, Dirs, Files
  <2> QED
    BY <2>2, <2>3, <2>4, <2>5, <2>6, <2>7 DEF IInv
<1>6. CASE Https(b)
  <2>1. Moves(b, "debug", build[b].file) /\ KeepsUrl(b) /\ KeepsGot(b)
    BY <1>b, <1>c, <1>6, GoMoves DEF Https, At, Places, Ends
  <2>2. TypeOK'
    BY <1>a, <1>6, <2>1, PatchTypes DEF Https, TypeOK, Moves, treevars, ghosts, At
  <2>3. FileInHand'
    BY <1>a, <1>c, <1>6, <2>1, FileKept DEF Https, At, Files
  <2>4. TreeWhole'
    BY <1>a, <1>c, <1>d, <1>6, <2>1, TreeKept DEF Https, At, PastHttps, treevars
  <2>5. HttpsStays'
    BY <1>a, <1>c, <1>e, <1>6, <2>1, HttpsKept, PatchKeepsHttps DEF Https, At, PastHttps, IsPastHttps, Patched, treevars
  <2>6. EmbedIsEmbedders'
    BY <1>a, <1>6, <2>1, EmbedKept DEF Https, At, treevars, ghosts
  <2>7. Pure'
    BY <1>a, <1>c, <1>6, <2>1, PureKept DEF Https, At, treevars, ghosts, Dirs, Files
  <2> QED
    BY <2>2, <2>3, <2>4, <2>5, <2>6, <2>7 DEF IInv
<1>7. CASE Debug(b)
  <2>1. Moves(b, "stamp", build[b].file) /\ KeepsUrl(b) /\ KeepsGot(b)
    <3>1. build' = [build EXCEPT ![b].at = "stamp", ![b].trust = (ca # 0),
                                 ![b].made = @ \cup {"patch_ipxe_debug", "patch_ipxe_https"}]
      BY <1>7 DEF Debug
    <3>2. "stamp" \in Places /\ {"patch_ipxe_debug", "patch_ipxe_https"} \in SUBSET Completed /\ (ca # 0) \in BOOLEAN
      BY DEF Places, Completed, Files
    <3> QED
      BY <1>b, <3>1, <3>2, TrustMoves
  <2>2. TypeOK'
    BY <1>a, <1>7, <2>1 DEF Debug, TypeOK, Moves, treevars, ghosts, At
  <2>3. FileInHand'
    BY <1>a, <1>c, <1>7, <2>1, FileKept DEF Debug, At, Files
  <2>4. TreeWhole'
    BY <1>a, <1>c, <1>d, <1>7, <2>1, TreeKept DEF Debug, At, PastHttps, treevars
  <2>5. HttpsStays'
    BY <1>a, <1>c, <1>e, <1>7, <2>1, HttpsKept DEF Debug, At, PastHttps, IsPastHttps, Patched, treevars
  <2>6. EmbedIsEmbedders'
    BY <1>a, <1>7, <2>1, EmbedKept DEF Debug, At, treevars, ghosts
  <2>7. Pure'
    BY <1>a, <1>c, <1>7, <2>1, PureKept DEF Debug, At, treevars, ghosts, Dirs, Files
  <2> QED
    BY <2>2, <2>3, <2>4, <2>5, <2>6, <2>7 DEF IInv
<1>8. CASE Stamp(b)
  <2>1. \E s \in {"clean", "embed"} : Moves(b, s, build[b].file) /\ KeepsUrl(b) /\ KeepsGot(b)
    BY <1>b, <1>8, GoMoves DEF Stamp, Places
  <2>m. PICK s \in {"clean", "embed"} : Moves(b, s, build[b].file) /\ KeepsUrl(b) /\ KeepsGot(b)
    BY <2>1
  <2>2. TypeOK'
    BY <1>a, <1>8, <2>m DEF Stamp, TypeOK, Moves
  <2>3. FileInHand'
    BY <1>a, <2>m, FileKept
  <2>4. TreeWhole'
    BY <1>a, <1>d, <1>8, <2>m, TreeKept DEF Stamp, At, PastHttps
  <2>5. HttpsStays'
    BY <1>a, <1>e, <1>8, <2>m, HttpsKept DEF Stamp, At, PastHttps, IsPastHttps
  <2>6. EmbedIsEmbedders'
    BY <1>a, <1>8, <2>m, EmbedKept DEF Stamp
  <2>7. Pure'
    BY <1>a, <1>8, <2>m, PureKept DEF Stamp
  <2> QED
    BY <2>2, <2>3, <2>4, <2>5, <2>6, <2>7 DEF IInv
<1>9. CASE Clean(b)
  <2>1. Moves(b, "embed", build[b].file) /\ KeepsUrl(b) /\ KeepsGot(b)
    BY <1>b, <1>c, <1>9, GoOnMoves DEF Clean, Cleaned, Completed, At, Places, Ends
  <2>2. TypeOK'
    BY <1>a, <1>9, <2>1 DEF Clean, Cleaned, TypeOK, Moves, treevars, ghosts, At, NoFile, Published, NoObjects, FirmwareAssumption
  <2>3. FileInHand'
    BY <1>a, <1>c, <1>9, <2>1, FileKept DEF Clean, Cleaned, At, Files
  <2>4. TreeWhole'
    BY <1>a, <1>c, <1>d, <1>9, <2>1, TreeKept DEF Clean, Cleaned, At, PastHttps, treevars
  <2>5. HttpsStays'
    BY <1>a, <1>c, <1>e, <1>9, <2>1, HttpsKept DEF Clean, Cleaned, At, PastHttps, IsPastHttps, Patched, treevars
  <2>6. EmbedIsEmbedders'
    BY <1>a, <1>9, <2>1, EmbedKept DEF Clean, Cleaned, At, treevars, ghosts
  <2>7. Pure'
    BY <1>a, <1>c, <1>9, <2>1, PureKept DEF Clean, Cleaned, At, treevars, ghosts, Dirs, Files
  <2> QED
    BY <2>2, <2>3, <2>4, <2>5, <2>6, <2>7 DEF IInv
<1>10. CASE Embed(b)
  <2>1. Moves(b, "check", build[b].file) /\ KeepsUrl(b) /\ KeepsGot(b)
    BY <1>b, <1>c, <1>10, GoMoves DEF Embed, At, Places, Ends
  <2>2. TypeOK'
    BY <1>a, <1>10, <2>1 DEF Embed, TypeOK, Moves, treevars, ghosts, At, BuildState
  <2>3. FileInHand'
    BY <1>a, <1>c, <1>10, <2>1, FileKept DEF Embed, At, Files
  <2>4. TreeWhole'
    BY <1>a, <1>c, <1>d, <1>10, <2>1, TreeKept DEF Embed, At, PastHttps, treevars
  <2>5. HttpsStays'
    BY <1>a, <1>c, <1>e, <1>10, <2>1, HttpsKept DEF Embed, At, PastHttps, IsPastHttps, Patched, treevars
  <2>6. EmbedIsEmbedders'
    BY <1>10, <2>1 DEF Embed, EmbedIsEmbedders, Moves, KeepsUrl
  <2>7. Pure'
    BY <1>10, <2>1 DEF Embed, Pure, HasPurged, HasMade, HasCopied, Moves, At
  <2> QED
    BY <2>2, <2>3, <2>4, <2>5, <2>6, <2>7 DEF IInv
<1>11. CASE Check(b)
  <2>1. Moves(b, "enter", "undionly") /\ KeepsUrl(b) /\ KeepsGot(b)
    <3>1. build' = [build EXCEPT ![b].at = "enter", ![b].file = "undionly", ![b].made = @ \cup {"embed"}]
      BY <1>11 DEF Check
    <3>2. "enter" \in Places /\ "undionly" \in Files \cup {""} /\ {"embed"} \in SUBSET Completed
      BY DEF Places, Completed, Files
    <3> QED
      BY <1>b, <3>1, <3>2, AllMove
  <2>2. TypeOK'
    BY <1>a, <1>11, <2>1 DEF Check, TypeOK, Moves, treevars, ghosts, At, Purged, PurgeFrame, PurgeCrosses
  <2>3. FileInHand'
    BY <1>a, <1>c, <1>11, <2>1, FileKept DEF Check, At, Files
  <2>4. TreeWhole'
    BY <1>a, <1>c, <1>d, <1>11, <2>1, TreeKept DEF Check, At, PastHttps, treevars, PurgeFrame
  <2>5. HttpsStays'
    BY <1>a, <1>c, <1>e, <1>11, <2>1, HttpsKept DEF Check, At, PastHttps, IsPastHttps, Patched, treevars, PurgeFrame
  <2>6. EmbedIsEmbedders'
    BY <1>a, <1>11, <2>1, EmbedKept DEF Check, At, treevars, ghosts, PurgeFrame
  <2>p. UNCHANGED <<embed, embedder, bin, tftp>> /\ embedded' = [embedded EXCEPT !["bin"] = 0]
        /\ crossed' = (crossed \/ \E o \in Making \ {b} : Dir(build[o].file) = "bin")
    BY <1>11 DEF Check, Purged, PurgeCrosses, PurgeFrame
  <2>7. Pure'
    <3>1. \A d \in Dirs : embedded'[d] \in {embedded[d], 0}
      BY <1>a, <2>p DEF TypeOK
    <3>2. \A d \in Dirs : PureDir(d) => PureDir(d)'
      BY <2>1, <2>p, <3>1, PureDirKept
    <3>3. \A g \in Files : (PureBin(g) => PureBin(g)') /\ (Carries(tftp[g]) => Carries(tftp[g])')
      BY <2>p DEF PureBin, Carries
    <3>4. ~crossed' => PureDir("bin")'
      <4>1. embedded'["bin"] = 0
        BY <1>a, <2>p DEF TypeOK, Dirs
      <4>2. \A o \in Making' : o \in Making \ {b} /\ build'[o] = build[o]
        BY <2>1 DEF Making, At, Moves
      <4> QED
        BY <2>p, <4>1, <4>2 DEF PureDir
    <3>5. /\ \A d \in Dirs : HasPurged(b, d)' => d = "bin"
          /\ \A g \in Files : ~HasMade(b, g)' /\ ~HasCopied(b, g)'
      BY <2>1 DEF HasPurged, HasMade, HasCopied, Moves, At
    <3> QED
      BY <1>a, <2>1, <2>p, <3>2, <3>3, <3>4, <3>5, PureStep
  <2> QED
    BY <2>2, <2>3, <2>4, <2>5, <2>6, <2>7 DEF IInv
<1>12. CASE MakeReads(b)
  <2>1. \E u \in Urls \cup {0} :
          /\ u \in {embed} \cup ({embedded[Dir(build[b].file)]} \ {0})
          /\ Moves(b, "make", build[b].file) /\ KeepsUrl(b) /\ build'[b].got = u
    <3>1. PICK u \in {embed} \cup ({embedded[Dir(build[b].file)]} \ {0}) :
            build' = [build EXCEPT ![b].at = "make", ![b].got = u]
      BY <1>12 DEF MakeReads
    <3>2. u \in Urls \cup {0} /\ "make" \in Places
      BY <1>a DEF TypeOK, Dir, Dirs, Places
    <3> QED
      BY <1>b, <3>1, <3>2, ReadMoves
  <2>m. PICK u \in Urls \cup {0} :
          /\ u \in {embed} \cup ({embedded[Dir(build[b].file)]} \ {0})
          /\ Moves(b, "make", build[b].file) /\ KeepsUrl(b) /\ build'[b].got = u
    BY <2>1
  <2>f. At(b, "enter") /\ build[b].file \in Files
        /\ UNCHANGED <<cloned, headers, embed, embedded, stamp, bin, ca, tftp, moves,
                       embedder, crossed, latest>>
    BY <1>c, <1>12 DEF MakeReads, At, ghosts
  <2>2. TypeOK'
    <3>1. objca' \in [Dirs -> 0..NoObjects]
      <4>1. ca \in 0..NoObjects /\ 0 \in 0..NoObjects
        BY <1>a DEF TypeOK, NoObjects, FirmwareAssumption
      <4> QED
        BY <1>a, <1>12, <4>1 DEF MakeReads, TypeOK
    <3> QED
      BY <1>a, <2>m, <2>f, <3>1 DEF TypeOK, Moves
  <2>3. FileInHand'
    BY <1>a, <2>m, <2>f, FileKept
  <2>4. TreeWhole'
    BY <1>a, <1>d, <2>m, <2>f, TreeKept DEF At, PastHttps
  <2>5. HttpsStays'
    BY <1>a, <1>e, <2>m, <2>f, HttpsKept DEF At, PastHttps, IsPastHttps
  <2>6. EmbedIsEmbedders'
    BY <1>a, <2>m, <2>f, EmbedKept
  <2>7. Pure'
    <3>1. \A d \in Dirs : PureDir(d) => PureDir(d)'
      <4>1. \A o \in Making' : o = b \/ (o \in Making /\ build'[o] = build[o])
        BY <2>m DEF Making, At, Moves
      <4> QED
        BY <2>m, <2>f, <4>1 DEF PureDir, Moves
    <3>2. \A g \in Files : (PureBin(g) => PureBin(g)') /\ (Carries(tftp[g]) => Carries(tftp[g])')
      BY <2>f DEF PureBin, Carries
    <3>3. /\ \A d \in Dirs : HasPurged(b, d)' => HasPurged(b, d)
          /\ \A g \in Files : (HasMade(b, g)' => HasMade(b, g)) /\ ~HasCopied(b, g)'
      BY <2>m, <2>f DEF HasPurged, HasMade, HasCopied, Moves, At
    <3> QED
      BY <1>a, <2>m, <2>f, <3>1, <3>2, <3>3, PureStep
  <2> QED
    BY <2>2, <2>3, <2>4, <2>5, <2>6, <2>7 DEF IInv
<1>13. CASE MakeBios(b)
  <2>1. Moves(b, "purge", build[b].file) /\ KeepsUrl(b) /\ KeepsGot(b)
    BY <1>b, <1>c, <1>13, GoOnMoves DEF MakeBios, Completed, At, Places, Ends
  <2>f. build[b].file = "undionly" /\ Links(b) /\ TreeButLink
    BY <1>13 DEF MakeBios
  <2>2. TypeOK'
    <3>1. embedded' \in [Dirs -> Urls \cup {0}] /\ bin' \in [Files -> Published]
      BY <1>a, <2>f, LinkTypes DEF Files
    <3> QED
      BY <1>a, <2>1, <2>f, <3>1 DEF TypeOK, Moves, TreeButLink, ghosts
  <2>3. FileInHand'
    BY <1>a, <1>c, <1>13, <2>1, FileKept DEF MakeBios, At, Files
  <2>4. TreeWhole'
    BY <1>a, <1>c, <1>d, <1>13, <2>1, TreeKept DEF MakeBios, At, PastHttps, treevars, TreeButLink
  <2>5. HttpsStays'
    BY <1>a, <1>c, <1>e, <1>13, <2>1, HttpsKept DEF MakeBios, At, PastHttps, IsPastHttps, Patched, treevars, TreeButLink
  <2>6. EmbedIsEmbedders'
    BY <1>a, <1>13, <2>1, EmbedKept DEF MakeBios, At, treevars, ghosts, TreeButLink
  <2>7. Pure'
    <3>1. /\ \A d \in Dirs : PureDir(d) => PureDir(d)'
          /\ \A g \in Files : PureBin(g) /\ PureDir(Dir(g)) => PureBin(g)'
          /\ PureDir(Dir("undionly")) => PureBin("undionly")'
      <4>1. b \in Making /\ "undionly" \in Files /\ embed' = embed
        BY <1>13, <2>f DEF MakeBios, Making, At, Files, TreeButLink
      <4> QED
        BY <1>a, <2>1, <2>f, <4>1, PureLink
    <3>2. \A g \in Files : Carries(tftp[g]) => Carries(tftp[g])'
      BY <2>f DEF Carries, TreeButLink
    <3>3. embedder = b /\ ~crossed => PureDir(Dir("undionly"))
      BY <1>a, <1>13, <2>f DEF MakeBios, Pure, HasPurged, Dir, Dirs, At, TypeOK, FirmwareAssumption
    <3>4. /\ \A d \in Dirs : HasPurged(b, d)' => HasPurged(b, d)
          /\ \A g \in Files : (HasMade(b, g)' => HasMade(b, g) \/ g = "undionly") /\ ~HasCopied(b, g)'
      BY <1>13, <2>1, <2>f DEF MakeBios, HasPurged, HasMade, HasCopied, Moves, At, Files, Dirs
    <3>5. UNCHANGED <<embed, embedder, crossed>>
      BY <2>f DEF TreeButLink, ghosts
    <3> QED
      BY <1>a, <2>1, <3>1, <3>2, <3>3, <3>4, <3>5, PureStep
  <2> QED
    BY <2>2, <2>3, <2>4, <2>5, <2>6, <2>7 DEF IInv
<1>14. CASE PurgeEfi(b)
  <2>1. Moves(b, "enter", "snponly") /\ KeepsUrl(b) /\ KeepsGot(b)
    BY <1>b, <1>c, <1>14, PlaceAndFileMove DEF PurgeEfi, Files, At, Places, Ends
  <2>2. TypeOK'
    BY <1>a, <1>14, <2>1 DEF PurgeEfi, TypeOK, Moves, treevars, ghosts, At, Purged, PurgeFrame, PurgeCrosses
  <2>3. FileInHand'
    BY <1>a, <1>c, <1>14, <2>1, FileKept DEF PurgeEfi, At, Files
  <2>4. TreeWhole'
    BY <1>a, <1>c, <1>d, <1>14, <2>1, TreeKept DEF PurgeEfi, At, PastHttps, treevars, PurgeFrame
  <2>5. HttpsStays'
    BY <1>a, <1>c, <1>e, <1>14, <2>1, HttpsKept DEF PurgeEfi, At, PastHttps, IsPastHttps, Patched, treevars, PurgeFrame
  <2>6. EmbedIsEmbedders'
    BY <1>a, <1>14, <2>1, EmbedKept DEF PurgeEfi, At, treevars, ghosts, PurgeFrame
  <2>p. UNCHANGED <<embed, embedder, bin, tftp>> /\ embedded' = [embedded EXCEPT !["efi"] = 0]
        /\ crossed' = (crossed \/ \E o \in Making \ {b} : Dir(build[o].file) = "efi")
    BY <1>14 DEF PurgeEfi, Purged, PurgeCrosses, PurgeFrame
  <2>7. Pure'
    <3>1. \A d \in Dirs : embedded'[d] \in {embedded[d], 0}
      BY <1>a, <2>p DEF TypeOK
    <3>2. \A d \in Dirs : PureDir(d) => PureDir(d)'
      BY <2>1, <2>p, <3>1, PureDirKept
    <3>3. \A g \in Files : (PureBin(g) => PureBin(g)') /\ (Carries(tftp[g]) => Carries(tftp[g])')
      BY <2>p DEF PureBin, Carries
    <3>4. ~crossed' => PureDir("efi")'
      <4>1. embedded'["efi"] = 0
        BY <1>a, <2>p DEF TypeOK, Dirs
      <4>2. \A o \in Making' : o \in Making \ {b} /\ build'[o] = build[o]
        BY <2>1 DEF Making, At, Moves
      <4> QED
        BY <2>p, <4>1, <4>2 DEF PureDir
    <3>5. /\ \A d \in Dirs : HasPurged(b, d) \/ d = "efi"
          /\ \A g \in Files : (HasMade(b, g)' => HasMade(b, g)) /\ ~HasCopied(b, g)'
      BY <1>14, <2>1 DEF PurgeEfi, HasPurged, HasMade, HasCopied, Moves, At, Dirs
    <3> QED
      BY <1>a, <2>1, <2>p, <3>2, <3>3, <3>4, <3>5, PureStep
  <2> QED
    BY <2>2, <2>3, <2>4, <2>5, <2>6, <2>7 DEF IInv
<1>15. CASE MakeSnponly(b)
  <2>1. Moves(b, "enter", "ipxe") /\ KeepsUrl(b) /\ KeepsGot(b)
    BY <1>b, <1>c, <1>15, PlaceAndFileMove DEF MakeSnponly, Files, At, Places, Ends
  <2>f. build[b].file = "snponly" /\ Links(b) /\ TreeButLink
    BY <1>15 DEF MakeSnponly
  <2>2. TypeOK'
    <3>1. embedded' \in [Dirs -> Urls \cup {0}] /\ bin' \in [Files -> Published]
      BY <1>a, <2>f, LinkTypes DEF Files
    <3> QED
      BY <1>a, <2>1, <2>f, <3>1 DEF TypeOK, Moves, TreeButLink, ghosts
  <2>3. FileInHand'
    BY <1>a, <1>c, <1>15, <2>1, FileKept DEF MakeSnponly, At, Files
  <2>4. TreeWhole'
    BY <1>a, <1>c, <1>d, <1>15, <2>1, TreeKept DEF MakeSnponly, At, PastHttps, treevars, TreeButLink
  <2>5. HttpsStays'
    BY <1>a, <1>c, <1>e, <1>15, <2>1, HttpsKept DEF MakeSnponly, At, PastHttps, IsPastHttps, Patched, treevars, TreeButLink
  <2>6. EmbedIsEmbedders'
    BY <1>a, <1>15, <2>1, EmbedKept DEF MakeSnponly, At, treevars, ghosts, TreeButLink
  <2>7. Pure'
    <3>1. /\ \A d \in Dirs : PureDir(d) => PureDir(d)'
          /\ \A g \in Files : PureBin(g) /\ PureDir(Dir(g)) => PureBin(g)'
          /\ PureDir(Dir("snponly")) => PureBin("snponly")'
      <4>1. b \in Making /\ "snponly" \in Files /\ embed' = embed
        BY <1>15, <2>f DEF MakeSnponly, Making, At, Files, TreeButLink
      <4> QED
        BY <1>a, <2>1, <2>f, <4>1, PureLink
    <3>2. \A g \in Files : Carries(tftp[g]) => Carries(tftp[g])'
      BY <2>f DEF Carries, TreeButLink
    <3>3. embedder = b /\ ~crossed => PureDir(Dir("snponly"))
      BY <1>a, <1>15, <2>f DEF MakeSnponly, Pure, HasPurged, Dir, Dirs, At, TypeOK, FirmwareAssumption
    <3>4. /\ \A d \in Dirs : HasPurged(b, d)' => HasPurged(b, d)
          /\ \A g \in Files : (HasMade(b, g)' => HasMade(b, g) \/ g = "snponly") /\ ~HasCopied(b, g)'
      BY <1>15, <2>1, <2>f DEF MakeSnponly, HasPurged, HasMade, HasCopied, Moves, At, Files, Dirs
    <3>5. UNCHANGED <<embed, embedder, crossed>>
      BY <2>f DEF TreeButLink, ghosts
    <3> QED
      BY <1>a, <2>1, <3>1, <3>2, <3>3, <3>4, <3>5, PureStep
  <2> QED
    BY <2>2, <2>3, <2>4, <2>5, <2>6, <2>7 DEF IInv
<1>16. CASE MakeIpxe(b)
  <2>1. Moves(b, "copy", "undionly") /\ KeepsUrl(b) /\ KeepsGot(b)
    <3>1. build' = [build EXCEPT ![b].at = "copy", ![b].file = "undionly", ![b].made = @ \cup {"compile_efi"}]
      BY <1>16 DEF MakeIpxe
    <3>2. "copy" \in Places /\ "undionly" \in Files \cup {""} /\ {"compile_efi"} \in SUBSET Completed
      BY DEF Places, Completed, Files
    <3> QED
      BY <1>b, <3>1, <3>2, AllMove
  <2>f. build[b].file = "ipxe" /\ Links(b) /\ TreeButLink
    BY <1>16 DEF MakeIpxe
  <2>2. TypeOK'
    <3>1. embedded' \in [Dirs -> Urls \cup {0}] /\ bin' \in [Files -> Published]
      BY <1>a, <2>f, LinkTypes DEF Files
    <3> QED
      BY <1>a, <2>1, <2>f, <3>1 DEF TypeOK, Moves, TreeButLink, ghosts
  <2>3. FileInHand'
    BY <1>a, <1>c, <1>16, <2>1, FileKept DEF MakeIpxe, At, Files
  <2>4. TreeWhole'
    BY <1>a, <1>c, <1>d, <1>16, <2>1, TreeKept DEF MakeIpxe, At, PastHttps, treevars, TreeButLink
  <2>5. HttpsStays'
    BY <1>a, <1>c, <1>e, <1>16, <2>1, HttpsKept DEF MakeIpxe, At, PastHttps, IsPastHttps, Patched, treevars, TreeButLink
  <2>6. EmbedIsEmbedders'
    BY <1>a, <1>16, <2>1, EmbedKept DEF MakeIpxe, At, treevars, ghosts, TreeButLink
  <2>7. Pure'
    <3>1. /\ \A d \in Dirs : PureDir(d) => PureDir(d)'
          /\ \A g \in Files : PureBin(g) /\ PureDir(Dir(g)) => PureBin(g)'
          /\ PureDir(Dir("ipxe")) => PureBin("ipxe")'
      <4>1. b \in Making /\ "ipxe" \in Files /\ embed' = embed
        BY <1>16, <2>f DEF MakeIpxe, Making, At, Files, TreeButLink
      <4> QED
        BY <1>a, <2>1, <2>f, <4>1, PureLink
    <3>2. \A g \in Files : Carries(tftp[g]) => Carries(tftp[g])'
      BY <2>f DEF Carries, TreeButLink
    <3>3. embedder = b /\ ~crossed => PureDir(Dir("ipxe"))
      BY <1>a, <1>16, <2>f DEF MakeIpxe, Pure, HasPurged, Dir, Dirs, At, TypeOK, FirmwareAssumption
    <3>4. /\ \A d \in Dirs : HasPurged(b, d)' => HasPurged(b, d)
          /\ \A g \in Files : (HasMade(b, g)' => HasMade(b, g) \/ g = "ipxe") /\ ~HasCopied(b, g)'
      BY <1>16, <2>1, <2>f DEF MakeIpxe, HasPurged, HasMade, HasCopied, Moves, At, Files, Dirs
    <3>5. UNCHANGED <<embed, embedder, crossed>>
      BY <2>f DEF TreeButLink, ghosts
    <3> QED
      BY <1>a, <2>1, <3>1, <3>2, <3>3, <3>4, <3>5, PureStep
  <2> QED
    BY <2>2, <2>3, <2>4, <2>5, <2>6, <2>7 DEF IInv
<1>17. CASE Copy(b)
  <2>0. /\ At(b, "copy") /\ build[b].file \in {"undionly", "ipxe"}
        /\ NextCopy[build[b].file] = IF build[b].file = "undionly" THEN "ipxe" ELSE "snponly"
    BY <1>17 DEF Copy, NextCopy
  <2>1. Moves(b, "copy", NextCopy[build[b].file]) /\ KeepsUrl(b) /\ KeepsGot(b)
    <3>1. NextCopy[build[b].file] \in Files
      BY <2>0 DEF Files
    <3>2. build' = [build EXCEPT ![b].file = NextCopy[build[b].file]]
      BY <1>17 DEF Copy
    <3> QED
      BY <1>b, <2>0, <3>1, <3>2, FileMoves DEF At
  <2>2. TypeOK'
    BY <1>a, <1>17, <2>1 DEF Copy, TypeOK, Moves, treevars, ghosts
  <2>3. FileInHand'
    BY <1>a, <2>0, <2>1, FileKept DEF Files
  <2>4. TreeWhole'
    BY <1>a, <1>c, <1>d, <1>17, <2>1, TreeKept DEF Copy, At, PastHttps, treevars
  <2>5. HttpsStays'
    BY <1>a, <1>c, <1>e, <1>17, <2>1, HttpsKept DEF Copy, At, PastHttps, IsPastHttps, Patched, treevars
  <2>6. EmbedIsEmbedders'
    BY <1>a, <1>17, <2>1, EmbedKept DEF Copy, At, treevars, ghosts
  <2>7. Pure'
    <3>1. /\ At(b, "copy") /\ build[b].file \in Files /\ bin[build[b].file] # NoFile /\ tftp' = [tftp EXCEPT ![build[b].file] = bin[build[b].file]]
          /\ UNCHANGED <<embed, embedder, crossed, embedded, bin>>
      BY <2>0, <1>17 DEF Copy, treevars, ghosts, Files, At
    <3>2. \A d \in Dirs : PureDir(d) => PureDir(d)'
      BY <2>1, <3>1, PureDirKept
    <3>3. /\ tftp'[build[b].file] = bin[build[b].file] /\ \A g \in Files \ {build[b].file} : tftp'[g] = tftp[g]
      BY <1>a, <3>1 DEF TypeOK
    <3>4. \A g \in Files : PureBin(g) => PureBin(g)'
      BY <3>1 DEF PureBin, Carries
    <3>5. \A g \in Files : PureBin(g) /\ (Carries(tftp[g]) \/ g = build[b].file) => Carries(tftp'[g])
      BY <3>1, <3>3 DEF PureBin
    <3>6. \A g \in Files : Carries(tftp'[g]) => Carries(tftp[g])'
      BY <3>1 DEF Carries
    <3>7. embedder = b /\ ~crossed => \A g \in Files : PureBin(g)
      BY <1>a, <3>1 DEF Pure, HasMade, At, TypeOK, FirmwareAssumption
    <3>8. \A g \in Files : HasCopied(b, g)' => HasCopied(b, g) \/ g = build[b].file
      BY <2>0, <1>17, <2>1, <3>1 DEF Copy, HasCopied, Moves, At, Files
    <3>9. /\ \A d \in Dirs : HasPurged(b, d)
          /\ \A g \in Files : HasMade(b, g)
      BY <3>1 DEF HasPurged, HasMade, At
    <3> QED
      BY <1>a, <2>1, <3>1, <3>2, <3>4, <3>5, <3>6, <3>7, <3>8, <3>9, PureStep
  <2> QED
    BY <2>2, <2>3, <2>4, <2>5, <2>6, <2>7 DEF IInv
<1>18. CASE CopyLast(b)
  <2>1. Moves(b, "done", build[b].file) /\ KeepsUrl(b) /\ KeepsGot(b)
    BY <1>b, <1>c, <1>18, GoOnMoves DEF CopyLast, Completed, At, Places, Ends
  <2>2. TypeOK'
    BY <1>a, <1>18, <2>1 DEF CopyLast, TypeOK, Moves, treevars, ghosts, At
  <2>3. FileInHand'
    BY <1>a, <1>c, <1>18, <2>1, FileKept DEF CopyLast, At, Files
  <2>4. TreeWhole'
    BY <1>a, <1>c, <1>d, <1>18, <2>1, TreeKept DEF CopyLast, At, PastHttps, treevars
  <2>5. HttpsStays'
    BY <1>a, <1>c, <1>e, <1>18, <2>1, HttpsKept DEF CopyLast, At, PastHttps, IsPastHttps, Patched, treevars
  <2>6. EmbedIsEmbedders'
    BY <1>a, <1>18, <2>1, EmbedKept DEF CopyLast, At, treevars, ghosts
  <2>7. Pure'
    <3>1. /\ At(b, "copy") /\ "snponly" \in Files /\ bin["snponly"] # NoFile /\ tftp' = [tftp EXCEPT !["snponly"] = bin["snponly"]]
          /\ UNCHANGED <<embed, embedder, crossed, embedded, bin>>
      BY  <1>18 DEF CopyLast, treevars, ghosts, Files, At
    <3>2. \A d \in Dirs : PureDir(d) => PureDir(d)'
      BY <2>1, <3>1, PureDirKept
    <3>3. /\ tftp'["snponly"] = bin["snponly"] /\ \A g \in Files \ {"snponly"} : tftp'[g] = tftp[g]
      BY <1>a, <3>1 DEF TypeOK
    <3>4. \A g \in Files : PureBin(g) => PureBin(g)'
      BY <3>1 DEF PureBin, Carries
    <3>5. \A g \in Files : PureBin(g) /\ (Carries(tftp[g]) \/ g = "snponly") => Carries(tftp'[g])
      BY <3>1, <3>3 DEF PureBin
    <3>6. \A g \in Files : Carries(tftp'[g]) => Carries(tftp[g])'
      BY <3>1 DEF Carries
    <3>7. embedder = b /\ ~crossed => \A g \in Files : PureBin(g)
      BY <1>a, <3>1 DEF Pure, HasMade, At, TypeOK, FirmwareAssumption
    <3>8. \A g \in Files : HasCopied(b, g)' => HasCopied(b, g) \/ g = "snponly"
      BY  <1>18, <2>1, <3>1 DEF CopyLast, HasCopied, Moves, At, Files
    <3>9. /\ \A d \in Dirs : HasPurged(b, d)
          /\ \A g \in Files : HasMade(b, g)
      BY <3>1 DEF HasPurged, HasMade, At
    <3> QED
      BY <1>a, <2>1, <3>1, <3>2, <3>4, <3>5, <3>6, <3>7, <3>8, <3>9, PureStep
  <2> QED
    BY <2>2, <2>3, <2>4, <2>5, <2>6, <2>7 DEF IInv
<1>19. CASE Fails(b)
  <2>1. Moves(b, "failed", build[b].file) /\ KeepsUrl(b) /\ KeepsGot(b)
    BY <1>b, <1>c, <1>19, GoMoves DEF Fails, At, Places, Ends
  <2>2. TypeOK'
    BY <1>a, <1>19, <2>1 DEF Fails, TypeOK, Moves, treevars, ghosts, At, Cut, CutFrame
  <2>3. FileInHand'
    BY <1>a, <1>c, <1>19, <2>1, FileKept DEF Fails, At, Files
  <2>4. TreeWhole'
    <3>1. CASE ~At(b, "clone")
      BY <1>a, <1>19, <2>1, <3>1, TreeKept DEF Fails, PastHttps
    <3>2. CASE At(b, "clone")
      <4>1. Cloner(b)
        BY <3>2 DEF Cloner
      <4>2. \A o \in Builds : ~Cloner(o)' /\ ~InTree(o)'
        <5>1. \A o \in Builds \ {b} : ~Cloner(o)' /\ ~InTree(o)'
          BY <1>d, <2>1, <4>1 DEF Cloner, InTree, At, Moves
        <5>2. ~Cloner(b)' /\ ~InTree(b)'
          BY <2>1 DEF Cloner, InTree, PastHttps, At, Moves
        <5> QED
          BY <5>1, <5>2
      <4> QED
        BY <4>2 DEF TreeWhole
    <3> QED
      BY <3>1, <3>2
  <2>5. HttpsStays'
    BY <1>a, <1>19, <2>1, HttpsKept DEF Fails, CutFrame, PastHttps
  <2>6. EmbedIsEmbedders'
    BY <1>a, <1>19, <2>1, EmbedKept DEF Fails, At, treevars, ghosts, CutFrame
  <2>7. Pure'
    BY <1>a, <1>c, <1>19, <2>1, PureKept DEF Fails, At, treevars, ghosts, Dirs, Files, CutFrame
  <2> QED
    BY <2>2, <2>3, <2>4, <2>5, <2>6, <2>7 DEF IInv
<1>20. CASE Kill(b)
  <2>1. \E s \in {"orphan", "sweep", "killed"} :
          /\ Moves(b, s, build[b].file) /\ KeepsUrl(b) /\ KeepsGot(b)
          /\ s = "orphan" => build[b].at \in {"clone", "make"}
    BY <1>b, <1>20, GoMoves DEF Kill, At, Places, Ends, Left
  <2>m. PICK s \in {"orphan", "sweep", "killed"} :
          /\ Moves(b, s, build[b].file) /\ KeepsUrl(b) /\ KeepsGot(b)
          /\ s = "orphan" => build[b].at \in {"clone", "make"}
    BY <2>1
  <2>f. UNCHANGED <<cloned, headers, embed, embedded, objca, stamp, bin, ca, tftp, moves,
                    embedder, crossed, latest>>
    BY <1>20 DEF Kill, CutFrame
  <2>2. TypeOK'
    BY <1>a, <2>m, <2>f DEF TypeOK, Moves
  <2>3. FileInHand'
    BY <1>a, <2>m, FileKept
  <2>4. TreeWhole'
    BY <1>a, <1>c, <1>d, <2>m, <2>f, TreeKept DEF At, Cloner, PastHttps, Files
  <2>5. HttpsStays'
    BY <1>a, <1>c, <1>e, <2>m, <2>f, HttpsKept DEF At, PastHttps, IsPastHttps, Files
  <2>6. EmbedIsEmbedders'
    BY <1>a, <2>m, <2>f, EmbedKept
  <2>7. Pure'
    BY <1>a, <1>c, <2>m, <2>f, PureKept DEF At, Files
  <2> QED
    BY <2>2, <2>3, <2>4, <2>5, <2>6, <2>7 DEF IInv
<1>21. CASE OrphanClones(b)
  <2>1. Moves(b, "killed", build[b].file) /\ KeepsUrl(b) /\ KeepsGot(b)
    BY <1>b, <1>c, <1>21, GoMoves DEF OrphanClones, At, Places, Ends
  <2>2. TypeOK'
    BY <1>a, <1>21, <2>1 DEF OrphanClones, TypeOK, Moves, treevars, ghosts, At, CloneEnds, Upstream
  <2>3. FileInHand'
    BY <1>a, <1>c, <1>21, <2>1, FileKept DEF OrphanClones, At, Files
  <2>4. TreeWhole'
    <3>1. Cloner(b) /\ ~Cloner(b)' /\ cloned' = "yes"
      BY <1>c, <1>21, <2>1 DEF OrphanClones, CloneEnds, At, Cloner, Moves
    <3>2. \A o \in Builds \ {b} : ~Cloner(o)'
      BY <1>d, <2>1, <3>1 DEF Cloner, At, Moves
    <3> QED
      BY <3>1, <3>2 DEF TreeWhole
  <2>5. HttpsStays'
    <3>1. Cloner(b)
      BY <1>c, <1>21 DEF OrphanClones, At, Cloner
    <3>2. \A o \in Builds \ {b} : ~IsPastHttps(o)
      BY <1>d, <3>1 DEF IsPastHttps, InTree
    <3>3. ~IsPastHttps(b)'
      BY <2>1 DEF IsPastHttps, PastHttps, At, Moves
    <3> QED
      BY <2>1, <3>2, <3>3 DEF HttpsStays, IsPastHttps, At, Moves
  <2>6. EmbedIsEmbedders'
    BY <1>a, <1>21, <2>1, EmbedKept DEF OrphanClones, At, treevars, ghosts, CloneEnds
  <2>7. Pure'
    BY <1>a, <1>c, <1>21, <2>1, PureKept DEF OrphanClones, At, treevars, ghosts, Dirs, Files, CloneEnds
  <2> QED
    BY <2>2, <2>3, <2>4, <2>5, <2>6, <2>7 DEF IInv
<1>22. CASE OrphanLinks(b)
  <2>1. Moves(b, "killed", build[b].file) /\ KeepsUrl(b) /\ KeepsGot(b)
    BY <1>b, <1>c, <1>22, GoMoves DEF OrphanLinks, At, Places, Ends
  <2>f. build[b].file \in Files /\ Links(b) /\ TreeButLink
    BY <1>22 DEF OrphanLinks
  <2>2. TypeOK'
    <3>1. embedded' \in [Dirs -> Urls \cup {0}] /\ bin' \in [Files -> Published]
      BY <1>a, <2>f, LinkTypes DEF Files
    <3> QED
      BY <1>a, <2>1, <2>f, <3>1 DEF TypeOK, Moves, TreeButLink, ghosts
  <2>3. FileInHand'
    BY <1>a, <1>c, <1>22, <2>1, FileKept DEF OrphanLinks, At, Files
  <2>4. TreeWhole'
    BY <1>a, <1>c, <1>d, <1>22, <2>1, TreeKept DEF OrphanLinks, At, PastHttps, treevars, TreeButLink
  <2>5. HttpsStays'
    BY <1>a, <1>c, <1>e, <1>22, <2>1, HttpsKept DEF OrphanLinks, At, PastHttps, IsPastHttps, Patched, treevars, TreeButLink
  <2>6. EmbedIsEmbedders'
    BY <1>a, <1>22, <2>1, EmbedKept DEF OrphanLinks, At, treevars, ghosts, TreeButLink
  <2>7. Pure'
    <3>1. /\ \A d \in Dirs : PureDir(d) => PureDir(d)'
          /\ \A g \in Files : PureBin(g) /\ PureDir(Dir(g)) => PureBin(g)'
      <4>1. b \in Making /\ embed' = embed
        BY <1>22, <2>f DEF OrphanLinks, Making, At, TreeButLink
      <4> QED
        BY <1>a, <2>1, <2>f, <4>1, PureLink
    <3>2. \A g \in Files : Carries(tftp[g]) => Carries(tftp[g])'
      BY <2>f DEF Carries, TreeButLink
    <3>3. /\ \A d \in Dirs : ~HasPurged(b, d)'
          /\ \A g \in Files : ~HasMade(b, g)' /\ ~HasCopied(b, g)'
      BY <2>1 DEF HasPurged, HasMade, HasCopied, Moves, At
    <3>4. UNCHANGED <<embed, embedder, crossed>>
      BY <2>f DEF TreeButLink, ghosts
    <3> QED
      BY <1>a, <2>1, <3>1, <3>2, <3>3, <3>4, PureStep
  <2> QED
    BY <2>2, <2>3, <2>4, <2>5, <2>6, <2>7 DEF IInv
<1>23. CASE OrphanDies(b)
  <2>1. Moves(b, "killed", build[b].file) /\ KeepsUrl(b) /\ KeepsGot(b)
    BY <1>b, <1>c, <1>23, GoMoves DEF OrphanDies, Left, At, Places, Ends
  <2>2. TypeOK'
    BY <1>a, <1>23, <2>1 DEF OrphanDies, TypeOK, Moves, treevars, ghosts, At
  <2>3. FileInHand'
    BY <1>a, <1>c, <1>23, <2>1, FileKept DEF OrphanDies, Left, At, Files
  <2>4. TreeWhole'
    BY <1>a, <1>c, <1>d, <1>23, <2>1, TreeKept DEF OrphanDies, Left, At, PastHttps, treevars
  <2>5. HttpsStays'
    BY <1>a, <1>c, <1>e, <1>23, <2>1, HttpsKept DEF OrphanDies, Left, At, PastHttps, IsPastHttps, Patched, treevars
  <2>6. EmbedIsEmbedders'
    BY <1>a, <1>23, <2>1, EmbedKept DEF OrphanDies, At, treevars, ghosts
  <2>7. Pure'
    BY <1>a, <1>c, <1>23, <2>1, PureKept DEF OrphanDies, Left, At, treevars, ghosts, Dirs, Files
  <2> QED
    BY <2>2, <2>3, <2>4, <2>5, <2>6, <2>7 DEF IInv
<1>24. CASE OrphanCleans(b)
  <2>1. Moves(b, "killed", build[b].file) /\ KeepsUrl(b) /\ KeepsGot(b)
    BY <1>b, <1>c, <1>24, GoMoves DEF OrphanCleans, At, Places, Ends
  <2>2. TypeOK'
    BY <1>a, <1>24, <2>1 DEF OrphanCleans, Cleaned, TypeOK, Moves, ghosts, At, NoFile, Published, NoObjects, FirmwareAssumption
  <2>3. FileInHand'
    BY <1>a, <1>c, <1>24, <2>1, FileKept DEF OrphanCleans, At, Files
  <2>4. TreeWhole'
    BY <1>a, <1>c, <1>d, <1>24, <2>1, TreeKept DEF OrphanCleans, At, PastHttps
  <2>5. HttpsStays'
    BY <1>a, <1>c, <1>e, <1>24, <2>1, HttpsKept DEF OrphanCleans, At, PastHttps, IsPastHttps, Patched
  <2>6. EmbedIsEmbedders'
    BY <1>a, <1>24, <2>1, EmbedKept DEF OrphanCleans, At, ghosts
  <2>7. Pure'
    BY <1>a, <1>c, <1>24, <2>1, PureKept DEF OrphanCleans, Cleaned, At, ghosts, Dirs, Files
  <2> QED
    BY <2>2, <2>3, <2>4, <2>5, <2>6, <2>7 DEF IInv
<1> QED
  BY <1>1, <1>2, <1>3, <1>4, <1>5, <1>6, <1>7, <1>8, <1>9, <1>10, <1>11, <1>12, <1>13, <1>14, <1>15, <1>16, <1>17, <1>18, <1>19, <1>20, <1>21, <1>22, <1>23, <1>24 DEF Step

LEMMA MoveCaKeeps ==
  ASSUME FirmwareAssumption, IInv, MoveCa
  PROVE  IInv'
<1>1. UNCHANGED <<cloned, headers, embed, embedded, objca, stamp, bin, tftp, build, embedder, crossed, latest>>
  BY DEF MoveCa, treevars
<1>2. TypeOK'
  <2>1. ca' \in 0..MaxCa
    BY DEF MoveCa
  <2>2. moves' \in 0..MaxMoves
    BY DEF MoveCa, IInv, TypeOK, FirmwareAssumption
  <2> QED
    BY <1>1, <2>1, <2>2 DEF IInv, TypeOK
<1>3. FileInHand' /\ TreeWhole' /\ HttpsStays' /\ EmbedIsEmbedders'
  BY <1>1 DEF IInv, FileInHand, TreeWhole, HttpsStays, EmbedIsEmbedders, Cloner, InTree, IsPastHttps, At
<1>4. Pure'
  BY <1>1 DEF IInv, Pure, PureDir, PureBin, Carries, Making, HasPurged, HasMade, HasCopied, At
<1> QED
  BY <1>2, <1>3, <1>4 DEF IInv

LEMMA StutterKeeps ==
  ASSUME IInv, UNCHANGED vars
  PROVE  IInv'
<1>1. UNCHANGED <<cloned, headers, embed, embedded, objca, stamp, bin, ca, tftp, build, moves,
                  embedder, crossed, latest>>
  BY DEF vars, treevars, ghosts
<1>2. TypeOK'
  BY <1>1 DEF IInv, TypeOK
<1>3. FileInHand' /\ TreeWhole' /\ HttpsStays' /\ EmbedIsEmbedders'
  BY <1>1 DEF IInv, FileInHand, TreeWhole, HttpsStays, EmbedIsEmbedders, Cloner, InTree, IsPastHttps, At
<1>4. Pure'
  BY <1>1 DEF IInv, Pure, PureDir, PureBin, Carries, Making, HasPurged, HasMade, HasCopied, At
<1> QED
  BY <1>2, <1>3, <1>4 DEF IInv

LEMMA InitHolds ==
  ASSUME FirmwareAssumption, Init
  PROVE  IInv
<1>1. build \in [Builds -> BuildState]
  BY DEF Init, BuildState, Places, Ends
<1>2. NoFile \in Published
  BY DEF NoFile, Published, FirmwareAssumption
<1>3. \A b \in Builds : At(b, "none") /\ build[b].file = ""
  BY DEF Init, At
<1>4. TypeOK
  <2>1. 0 \in 0..MaxCa /\ 0 \in 0..MaxMoves /\ NoObjects \in 0..NoObjects
    BY DEF NoObjects, FirmwareAssumption
  <2>2. bin \in [Files -> Published] /\ tftp \in [Files -> Published]
    BY <1>2 DEF Init
  <2>3. embedded \in [Dirs -> Urls \cup {0}] /\ objca \in [Dirs -> 0..NoObjects]
    BY <2>1 DEF Init
  <2> QED
    BY <1>1, <2>1, <2>2, <2>3 DEF Init, TypeOK
<1>5. FileInHand /\ TreeWhole /\ HttpsStays
  BY <1>3 DEF FileInHand, TreeWhole, HttpsStays, Cloner, InTree, IsPastHttps, PastHttps, At
<1>6. EmbedIsEmbedders /\ Pure
  BY DEF Init, EmbedIsEmbedders, Pure
<1> QED
  BY <1>4, <1>5, <1>6 DEF IInv
----------------------------------------------------------------------------
(* The theorems.                                                           *)

(* The strengthened invariant holds whatever builds overlap, fail, are     *)
(* cancelled or leave a git or a make behind (compile_ipxe_firmware).      *)
THEOREM Invariance == Spec => []IInv
<1>1. Init => IInv
  BY FirmwareAssumption, InitHolds
<1>2. IInv /\ [Next]_vars => IInv'
  BY FirmwareAssumption, StepKeeps, MoveCaKeeps, StutterKeeps DEF Next
<1> QED
  BY <1>1, <1>2, PTL DEF Spec

(* Every variable keeps its type.                                          *)
THEOREM TypeCorrect == Spec => []TypeOK
<1>1. IInv => TypeOK
  BY DEF IInv
<1> QED
  BY <1>1, Invariance, PTL

(* The three firmwares of the TFTP directory carry the URL embedded last   *)
(* and speak HTTPS once its build has ended well and no other make was     *)
(* under way when it purged (_purge_embed_build_artifacts).                *)
THEOREM LastEmbeddedIsServed == Spec => []FirmwareIsLastEmbedded
<1>1. IInv => FirmwareIsLastEmbedded
  <2> SUFFICES ASSUME IInv, NEW b \in Builds, embedder = b, ~crossed, At(b, "done"), NEW f \in Files
               PROVE  tftp[f].url = build[b].url /\ tftp[f].https
    BY DEF FirmwareIsLastEmbedded
  <2>1. embedder # NoBuild
    BY FirmwareAssumption DEF FirmwareAssumption
  <2>2. HasCopied(b, f)
    BY DEF HasCopied
  <2>3. Carries(tftp[f]) /\ embed = build[b].url
    BY <2>1, <2>2 DEF IInv, Pure, EmbedIsEmbedders
  <2> QED
    BY <2>3 DEF Carries
<1> QED
  BY <1>1, Invariance, PTL
----------------------------------------------------------------------------
(* The badges. What a build reports it has completed, it has; and it has   *)
(* passed a place, or names a step, only after the steps shown before it.  *)

PatchDone(b) == build[b].at \in {"https"} \cup PastHttps
BiosDone(b)  == \/ build[b].at \in {"purge", "copy", "done"}
                \/ build[b].at \in {"enter", "make"} /\ build[b].file # "undionly"
EfiDone(b)   == build[b].at \in {"copy", "done"}

Told(b) ==
    /\ report[b].completed \subseteq build[b].made
    /\ "patch_ipxe_https" \in build[b].made => "patch_ipxe_config" \in build[b].made
    /\ PatchDone(b) \/ report[b].step \in {"compile_bios", "compile_efi", "copy"}
           => "patch_ipxe_config" \in build[b].made
    /\ BiosDone(b) \/ report[b].step \in {"compile_efi", "copy"} => "compile_bios" \in build[b].made
    /\ EfiDone(b) \/ report[b].step = "copy" => "compile_efi" \in build[b].made

Badges == DOMAIN report = Builds /\ \A b \in Builds : Told(b)

(* b reports a step and the completed ones; the others' reports stay.      *)
Tells(b, steps, completed) ==
    /\ DOMAIN report' = Builds
    /\ report'[b].step \in steps /\ report'[b].completed = completed
    /\ \A o \in Builds \ {b} : report'[o] = report[o]

(* A change of place changes nothing else.                                 *)
LEMMA GoFields ==
  ASSUME build \in [Builds -> BuildState], NEW b \in Builds, NEW s \in Places, Go(b, s)
  PROVE  /\ build'[b].at = s /\ build'[b].file = build[b].file
         /\ build'[b].made = build[b].made /\ build'[b].trust = build[b].trust
         /\ \A o \in Builds \ {b} : build'[o] = build[o]
<1>1. build[b] \in BuildState
  OBVIOUS
<1>2. build'[b] = [build[b] EXCEPT !.at = s] /\ \A o \in Builds \ {b} : build'[o] = build[o]
  BY DEF Go
<1> QED
  BY <1>1, <1>2 DEF BuildState

(* A step of b concerns the badges of b alone.                             *)
LEMMA ToldByOne ==
  ASSUME Badges, NEW b \in Builds, Told(b)', DOMAIN report' = Builds,
         \A o \in Builds \ {b} : build'[o] = build[o] /\ report'[o] = report[o]
  PROVE  Badges'
<1>1. \A o \in Builds \ {b} : Told(o)'
  BY DEF Badges, Told, PatchDone, BiosDone, EfiDone
<1> QED
  BY <1>1 DEF Badges

(* Each step keeps the badges told as they are.                            *)
LEMMA BadgesKept ==
  ASSUME TypeOK, FileInHand, Badges, NEW b \in Builds, Step(b)
  PROVE  Badges'
<1>a. build \in [Builds -> BuildState] /\ DOMAIN report = Builds /\ Told(b)
  BY DEF TypeOK, Badges
<1>b. build[b].at \in {"enter", "make", "copy"} => build[b].file \in Files
  BY DEF FileInHand
<1>1. CASE Submit(b)
  <2>1. /\ build'[b].at = "queued" /\ build'[b].file = build[b].file
        /\ build'[b].made = build[b].made
        /\ \A o \in Builds \ {b} : build'[o] = build[o]
    <3>1. build[b] \in BuildState
      BY <1>a
    <3>2. PICK u \in Urls : build' = [build EXCEPT ![b].at = "queued", ![b].url = u]
      BY <1>1 DEF Submit
    <3>3. /\ build'[b] = [build[b] EXCEPT !.at = "queued", !.url = u]
          /\ \A o \in Builds \ {b} : build'[o] = build[o]
      BY <1>a, <3>2
    <3> QED
      BY <3>1, <3>3 DEF BuildState
  <2>2. report' = report
    BY <1>1 DEF Submit
  <2>3. Told(b)'
    BY <1>a, <1>b, <1>1, <2>1, <2>2 DEF Submit, At, Told, PatchDone, BiosDone, EfiDone, PastHttps, Files
  <2> QED
    BY <1>a, <2>1, <2>2, <2>3, ToldByOne
<1>2. CASE Start(b)
  <2>1. /\ build'[b].at \in {"clone", "pull"} /\ build'[b].file = build[b].file
        /\ build'[b].made = build[b].made
        /\ \A o \in Builds \ {b} : build'[o] = build[o]
    BY <1>a, <1>2, GoFields DEF Start, Places
  <2>2. Tells(b, {"git_clone", "git_pull"}, {})
    BY <1>a, <1>2 DEF Start, Report, Tells
  <2>3. Told(b)'
    BY <1>a, <1>b, <1>2, <2>1, <2>2 DEF Start, At, Told, Tells, PatchDone, BiosDone, EfiDone, PastHttps, Files
  <2> QED
    BY <2>1, <2>2, <2>3, ToldByOne DEF Tells
<1>3. CASE Clone(b)
  <2>1. /\ build'[b].at = "patch" /\ build'[b].file = build[b].file
        /\ build'[b].made = build[b].made \cup {"git_clone"}
        /\ \A o \in Builds \ {b} : build'[o] = build[o]
    BY <1>a, <1>3 DEF Clone, GoOn, BuildState
  <2>2. Tells(b, {"patch_ipxe_config"}, {"git_clone"})
    BY <1>a, <1>3 DEF Clone, Report, Tells
  <2>3. Told(b)'
    BY <1>a, <1>b, <1>3, <2>1, <2>2 DEF Clone, At, Told, Tells, PatchDone, BiosDone, EfiDone, PastHttps, Files
  <2> QED
    BY <2>1, <2>2, <2>3, ToldByOne DEF Tells
<1>4. CASE Pull(b)
  <2>1. /\ build'[b].at = "patch" /\ build'[b].file = build[b].file
        /\ build'[b].made = build[b].made \cup {"git_clone", "git_pull"}
        /\ \A o \in Builds \ {b} : build'[o] = build[o]
    BY <1>a, <1>4 DEF Pull, GoOn, BuildState
  <2>2. Tells(b, {"patch_ipxe_config"}, {"git_clone", "git_pull"})
    BY <1>a, <1>4 DEF Pull, Report, Tells
  <2>3. Told(b)'
    BY <1>a, <1>b, <1>4, <2>1, <2>2 DEF Pull, At, Told, Tells, PatchDone, BiosDone, EfiDone, PastHttps, Files
  <2> QED
    BY <2>1, <2>2, <2>3, ToldByOne DEF Tells
<1>5. CASE Patch(b)
  <2>1. /\ build'[b].at = "https" /\ build'[b].file = build[b].file
        /\ build'[b].made = build[b].made \cup {"patch_ipxe_config"}
        /\ \A o \in Builds \ {b} : build'[o] = build[o]
    BY <1>a, <1>5 DEF Patch, GoOn, BuildState
  <2>2. Tells(b, {"patch_ipxe_https"}, build[b].made \cup {"patch_ipxe_config"})
    BY <1>a, <1>5 DEF Patch, Report, Tells
  <2>3. Told(b)'
    BY <1>a, <1>b, <1>5, <2>1, <2>2 DEF Patch, At, Told, Tells, PatchDone, BiosDone, EfiDone, PastHttps, Files
  <2> QED
    BY <2>1, <2>2, <2>3, ToldByOne DEF Tells
<1>6. CASE Https(b)
  <2>1. /\ build'[b].at = "debug" /\ build'[b].file = build[b].file
        /\ build'[b].made = build[b].made
        /\ \A o \in Builds \ {b} : build'[o] = build[o]
    BY <1>a, <1>6, GoFields DEF Https, Places
  <2>2. Tells(b, {"patch_ipxe_debug"}, build[b].made)
    BY <1>a, <1>6 DEF Https, Report, Tells
  <2>3. Told(b)'
    BY <1>a, <1>b, <1>6, <2>1, <2>2 DEF Https, At, Told, Tells, PatchDone, BiosDone, EfiDone, PastHttps, Files
  <2> QED
    BY <2>1, <2>2, <2>3, ToldByOne DEF Tells
<1>7. CASE Debug(b)
  <2>1. /\ build'[b].at = "stamp" /\ build'[b].file = build[b].file
        /\ build'[b].made = build[b].made \cup {"patch_ipxe_debug", "patch_ipxe_https"}
        /\ \A o \in Builds \ {b} : build'[o] = build[o]
    <3>1. build[b] \in BuildState
      BY <1>a
    <3>2. /\ build'[b] = [build[b] EXCEPT !.at = "stamp", !.trust = (ca # 0),
                                        !.made = @ \cup {"patch_ipxe_debug", "patch_ipxe_https"}]
          /\ \A o \in Builds \ {b} : build'[o] = build[o]
      BY <1>a, <1>7 DEF Debug
    <3> QED
      BY <3>1, <3>2 DEF BuildState
  <2>2. report' = report
    BY <1>7 DEF Debug
  <2>3. Told(b)'
    BY <1>a, <1>b, <1>7, <2>1, <2>2 DEF Debug, At, Told, PatchDone, BiosDone, EfiDone, PastHttps, Files
  <2> QED
    BY <1>a, <2>1, <2>2, <2>3, ToldByOne
<1>8. CASE Stamp(b)
  <2>1. /\ build'[b].at \in {"clean", "embed"} /\ build'[b].file = build[b].file
        /\ build'[b].made = build[b].made
        /\ \A o \in Builds \ {b} : build'[o] = build[o]
    BY <1>a, <1>8, GoFields DEF Stamp, Places
  <2>2. Tells(b, {"make_clean", "embed"}, build[b].made)
    BY <1>a, <1>8 DEF Stamp, Report, Tells
  <2>3. Told(b)'
    BY <1>a, <1>b, <1>8, <2>1, <2>2 DEF Stamp, At, Told, Tells, PatchDone, BiosDone, EfiDone, PastHttps, Files
  <2> QED
    BY <2>1, <2>2, <2>3, ToldByOne DEF Tells
<1>9. CASE Clean(b)
  <2>1. /\ build'[b].at = "embed" /\ build'[b].file = build[b].file
        /\ build'[b].made = build[b].made \cup {"make_clean"}
        /\ \A o \in Builds \ {b} : build'[o] = build[o]
    BY <1>a, <1>9 DEF Clean, Cleaned, GoOn, BuildState
  <2>2. Tells(b, {"embed"}, build[b].made \cup {"make_clean"})
    BY <1>a, <1>9 DEF Clean, Cleaned, Report, Tells
  <2>3. Told(b)'
    BY <1>a, <1>b, <1>9, <2>1, <2>2 DEF Clean, Cleaned, At, Told, Tells, PatchDone, BiosDone, EfiDone, PastHttps, Files
  <2> QED
    BY <2>1, <2>2, <2>3, ToldByOne DEF Tells
<1>10. CASE Embed(b)
  <2>1. /\ build'[b].at = "check" /\ build'[b].file = build[b].file
        /\ build'[b].made = build[b].made
        /\ \A o \in Builds \ {b} : build'[o] = build[o]
    BY <1>a, <1>10, GoFields DEF Embed, Places
  <2>2. report' = report
    BY <1>10 DEF Embed
  <2>3. Told(b)'
    BY <1>a, <1>b, <1>10, <2>1, <2>2 DEF Embed, At, Told, PatchDone, BiosDone, EfiDone, PastHttps, Files
  <2> QED
    BY <1>a, <2>1, <2>2, <2>3, ToldByOne
<1>11. CASE Check(b)
  <2>1. /\ build'[b].at = "enter" /\ build'[b].file = "undionly"
        /\ build'[b].made = build[b].made \cup {"embed"}
        /\ \A o \in Builds \ {b} : build'[o] = build[o]
    BY <1>a, <1>11 DEF Check, BuildState
  <2>2. Tells(b, {"compile_bios"}, build[b].made \cup {"embed"})
    BY <1>a, <1>11 DEF Check, Report, Tells
  <2>3. Told(b)'
    BY <1>a, <1>b, <1>11, <2>1, <2>2 DEF Check, At, Told, Tells, PatchDone, BiosDone, EfiDone, PastHttps, Files
  <2> QED
    BY <2>1, <2>2, <2>3, ToldByOne DEF Tells
<1>12. CASE MakeReads(b)
  <2>1. /\ build'[b].at = "make" /\ build'[b].file = build[b].file
        /\ build'[b].made = build[b].made
        /\ \A o \in Builds \ {b} : build'[o] = build[o]
    <3>1. build[b] \in BuildState
      BY <1>a
    <3>2. PICK u : build' = [build EXCEPT ![b].at = "make", ![b].got = u]
      BY <1>12 DEF MakeReads
    <3>3. /\ build'[b] = [build[b] EXCEPT !.at = "make", !.got = u]
          /\ \A o \in Builds \ {b} : build'[o] = build[o]
      BY <1>a, <3>2
    <3> QED
      BY <3>1, <3>3 DEF BuildState
  <2>2. report' = report
    BY <1>12 DEF MakeReads
  <2>3. Told(b)'
    BY <1>a, <1>b, <1>12, <2>1, <2>2 DEF MakeReads, At, Told, PatchDone, BiosDone, EfiDone, PastHttps, Files
  <2> QED
    BY <1>a, <2>1, <2>2, <2>3, ToldByOne
<1>13. CASE MakeBios(b)
  <2>1. /\ build'[b].at = "purge" /\ build'[b].file = build[b].file
        /\ build'[b].made = build[b].made \cup {"compile_bios"}
        /\ \A o \in Builds \ {b} : build'[o] = build[o]
    BY <1>a, <1>13 DEF MakeBios, GoOn, BuildState
  <2>2. Tells(b, {"compile_efi"}, build[b].made \cup {"compile_bios"})
    BY <1>a, <1>13 DEF MakeBios, Report, Tells
  <2>3. Told(b)'
    BY <1>a, <1>b, <1>13, <2>1, <2>2 DEF MakeBios, At, Told, Tells, PatchDone, BiosDone, EfiDone, PastHttps, Files
  <2> QED
    BY <2>1, <2>2, <2>3, ToldByOne DEF Tells
<1>14. CASE PurgeEfi(b)
  <2>1. /\ build'[b].at = "enter" /\ build'[b].file = "snponly"
        /\ build'[b].made = build[b].made
        /\ \A o \in Builds \ {b} : build'[o] = build[o]
    BY <1>a, <1>14 DEF PurgeEfi, BuildState
  <2>2. report' = report
    BY <1>14 DEF PurgeEfi
  <2>3. Told(b)'
    BY <1>a, <1>b, <1>14, <2>1, <2>2 DEF PurgeEfi, At, Told, PatchDone, BiosDone, EfiDone, PastHttps, Files
  <2> QED
    BY <1>a, <2>1, <2>2, <2>3, ToldByOne
<1>15. CASE MakeSnponly(b)
  <2>1. /\ build'[b].at = "enter" /\ build'[b].file = "ipxe"
        /\ build'[b].made = build[b].made
        /\ \A o \in Builds \ {b} : build'[o] = build[o]
    BY <1>a, <1>15 DEF MakeSnponly, BuildState
  <2>2. report' = report
    BY <1>15 DEF MakeSnponly
  <2>3. Told(b)'
    BY <1>a, <1>b, <1>15, <2>1, <2>2 DEF MakeSnponly, At, Told, PatchDone, BiosDone, EfiDone, PastHttps, Files
  <2> QED
    BY <1>a, <2>1, <2>2, <2>3, ToldByOne
<1>16. CASE MakeIpxe(b)
  <2>1. /\ build'[b].at = "copy" /\ build'[b].file = "undionly"
        /\ build'[b].made = build[b].made \cup {"compile_efi"}
        /\ \A o \in Builds \ {b} : build'[o] = build[o]
    BY <1>a, <1>16 DEF MakeIpxe, BuildState
  <2>2. Tells(b, {"copy"}, build[b].made \cup {"compile_efi"})
    BY <1>a, <1>16 DEF MakeIpxe, Report, Tells
  <2>3. Told(b)'
    BY <1>a, <1>b, <1>16, <2>1, <2>2 DEF MakeIpxe, At, Told, Tells, PatchDone, BiosDone, EfiDone, PastHttps, Files
  <2> QED
    BY <2>1, <2>2, <2>3, ToldByOne DEF Tells
<1>17. CASE Copy(b)
  <2>1. /\ build'[b].at = "copy" /\ build'[b].file = NextCopy[build[b].file]
        /\ build'[b].made = build[b].made
        /\ \A o \in Builds \ {b} : build'[o] = build[o]
    <3> DEFINE g == NextCopy[build[b].file]
    <3>1. At(b, "copy") /\ build' = [build EXCEPT ![b].file = g]
      BY <1>17 DEF Copy
    <3> HIDE DEF g
    <3>2. build'[b].at = "copy" /\ build'[b].file = g /\ build'[b].made = build[b].made
          /\ \A o \in Builds \ {b} : build'[o] = build[o]
      BY <1>a, <3>1 DEF At, BuildState
    <3> QED
      BY <3>2 DEF g
  <2>2. report' = report
    BY <1>17 DEF Copy
  <2>3. Told(b)'
    BY <1>a, <1>b, <1>17, <2>1, <2>2 DEF Copy, At, Told, PatchDone, BiosDone, EfiDone, PastHttps, Files, NextCopy
  <2> QED
    BY <1>a, <2>1, <2>2, <2>3, ToldByOne
<1>18. CASE CopyLast(b)
  <2>1. /\ build'[b].at = "done" /\ build'[b].file = build[b].file
        /\ build'[b].made = build[b].made \cup {"copy"}
        /\ \A o \in Builds \ {b} : build'[o] = build[o]
    BY <1>a, <1>18 DEF CopyLast, GoOn, BuildState
  <2>2. Tells(b, {""}, build[b].made \cup {"copy"})
    BY <1>a, <1>18 DEF CopyLast, Report, Tells
  <2>3. Told(b)'
    BY <1>a, <1>b, <1>18, <2>1, <2>2 DEF CopyLast, At, Told, Tells, PatchDone, BiosDone, EfiDone, PastHttps, Files
  <2> QED
    BY <2>1, <2>2, <2>3, ToldByOne DEF Tells
<1>19. CASE Fails(b)
  <2>1. /\ build'[b].at = "failed" /\ build'[b].file = build[b].file
        /\ build'[b].made = build[b].made
        /\ \A o \in Builds \ {b} : build'[o] = build[o]
    BY <1>a, <1>19, GoFields DEF Fails, Places, Ends
  <2>2. Tells(b, {""}, {})
    BY <1>a, <1>19 DEF Fails, NoReport, Tells
  <2>3. Told(b)'
    BY <1>a, <1>b, <1>19, <2>1, <2>2 DEF Fails, At, Told, Tells, PatchDone, BiosDone, EfiDone, PastHttps, Files, Running, Active, Ends
  <2> QED
    BY <2>1, <2>2, <2>3, ToldByOne DEF Tells
<1>20. CASE Kill(b)
  <2>1. /\ build'[b].at \in {"orphan", "sweep", "killed"} /\ build'[b].file = build[b].file
        /\ build'[b].made = build[b].made
        /\ \A o \in Builds \ {b} : build'[o] = build[o]
    BY <1>a, <1>20, GoFields DEF Kill, At, Left, Places, Ends
  <2>2. Tells(b, {""}, {})
    BY <1>a, <1>20 DEF Kill, NoReport, Tells
  <2>3. Told(b)'
    BY <1>a, <1>b, <1>20, <2>1, <2>2 DEF Kill, At, Told, Tells, PatchDone, BiosDone, EfiDone, PastHttps, Files, Running, Active, Ends, Left
  <2> QED
    BY <2>1, <2>2, <2>3, ToldByOne DEF Tells
<1>21. CASE OrphanClones(b)
  <2>1. /\ build'[b].at = "killed" /\ build'[b].file = build[b].file
        /\ build'[b].made = build[b].made
        /\ \A o \in Builds \ {b} : build'[o] = build[o]
    BY <1>a, <1>21, GoFields DEF OrphanClones, Places, Ends
  <2>2. report' = report
    BY <1>21 DEF OrphanClones
  <2>3. Told(b)'
    BY <1>a, <1>b, <1>21, <2>1, <2>2 DEF OrphanClones, At, Told, PatchDone, BiosDone, EfiDone, PastHttps, Files
  <2> QED
    BY <1>a, <2>1, <2>2, <2>3, ToldByOne
<1>22. CASE OrphanLinks(b)
  <2>1. /\ build'[b].at = "killed" /\ build'[b].file = build[b].file
        /\ build'[b].made = build[b].made
        /\ \A o \in Builds \ {b} : build'[o] = build[o]
    BY <1>a, <1>22, GoFields DEF OrphanLinks, Places, Ends
  <2>2. report' = report
    BY <1>22 DEF OrphanLinks
  <2>3. Told(b)'
    BY <1>a, <1>b, <1>22, <2>1, <2>2 DEF OrphanLinks, At, Told, PatchDone, BiosDone, EfiDone, PastHttps, Files
  <2> QED
    BY <1>a, <2>1, <2>2, <2>3, ToldByOne
<1>23. CASE OrphanDies(b)
  <2>1. /\ build'[b].at = "killed" /\ build'[b].file = build[b].file
        /\ build'[b].made = build[b].made
        /\ \A o \in Builds \ {b} : build'[o] = build[o]
    BY <1>a, <1>23, GoFields DEF OrphanDies, Places, Ends
  <2>2. report' = report
    BY <1>23 DEF OrphanDies
  <2>3. Told(b)'
    BY <1>a, <1>b, <1>23, <2>1, <2>2 DEF OrphanDies, Left, At, Told, PatchDone, BiosDone, EfiDone, PastHttps, Files
  <2> QED
    BY <1>a, <2>1, <2>2, <2>3, ToldByOne
<1>24. CASE OrphanCleans(b)
  <2>1. /\ build'[b].at = "killed" /\ build'[b].file = build[b].file
        /\ build'[b].made = build[b].made
        /\ \A o \in Builds \ {b} : build'[o] = build[o]
    BY <1>a, <1>24, GoFields DEF OrphanCleans, Places, Ends
  <2>2. report' = report
    BY <1>24 DEF OrphanCleans
  <2>3. Told(b)'
    BY <1>a, <1>b, <1>24, <2>1, <2>2 DEF OrphanCleans, At, Told, PatchDone, BiosDone, EfiDone, PastHttps, Files
  <2> QED
    BY <1>a, <2>1, <2>2, <2>3, ToldByOne
<1> QED
  BY <1>1, <1>2, <1>3, <1>4, <1>5, <1>6, <1>7, <1>8, <1>9, <1>10, <1>11, <1>12, <1>13, <1>14, <1>15, <1>16, <1>17, <1>18, <1>19, <1>20, <1>21, <1>22, <1>23, <1>24 DEF Step

(* What the badges show done is among what is told.                        *)
LEMMA ToldIsShown ==
  ASSUME NEW b, Told(b)
  PROVE  BadgesDone(b) \ {"git_clone", "git_pull", "embed"} \subseteq build[b].made
<1> DEFINE shown == {"patch_ipxe_config", "compile_bios", "compile_efi", "copy"}
<1>1. \A i \in DOMAIN UiSteps : UiSteps[i] \notin {"git_clone", "git_pull", "embed"} => UiSteps[i] \in shown
  BY DEF UiSteps
<1>2. DOMAIN UiSteps = 1..7
  BY DEF UiSteps
<1>3. ASSUME NEW i \in 1..7, Passed(i, report[b].step), UiSteps[i] \in shown
      PROVE  UiSteps[i] \in build[b].made
  <2>1. PICK j \in 1..7 : UiSteps[j] = CurrentUiStep(report[b].step) /\ i < j
    BY <1>2, <1>3 DEF Passed
  <2>2. /\ i = 4 => UiSteps[j] \in {"compile_bios", "compile_efi", "copy"}
        /\ i = 5 => UiSteps[j] \in {"compile_efi", "copy"}
        /\ i = 6 => UiSteps[j] = "copy"
        /\ i # 7
    BY <2>1 DEF UiSteps
  <2>3. \/ UiSteps[i] = "patch_ipxe_config" /\ i = 4
        \/ UiSteps[i] = "compile_bios" /\ i = 5
        \/ UiSteps[i] = "compile_efi" /\ i = 6
        \/ UiSteps[i] = "copy" /\ i = 7
    <3>1. i = 1 \/ i = 2 \/ i = 3 \/ i = 4 \/ i = 5 \/ i = 6 \/ i = 7
      OBVIOUS
    <3>2. /\ UiSteps[1] \notin shown /\ UiSteps[2] \notin shown /\ UiSteps[3] \notin shown
          /\ UiSteps[4] = "patch_ipxe_config" /\ UiSteps[5] = "compile_bios"
          /\ UiSteps[6] = "compile_efi" /\ UiSteps[7] = "copy"
      BY DEF UiSteps
    <3>3. UiSteps[i] \in shown
      BY <1>3
    <3> HIDE DEF shown
    <3>4. i \in {4, 5, 6, 7}
      BY <3>1, <3>2, <3>3
    <3> QED
      BY <3>2, <3>4
  <2>4. UiSteps[j] \in {"compile_bios", "compile_efi", "copy"} => report[b].step = UiSteps[j]
    BY <2>1 DEF CurrentUiStep
  <2> QED
    BY <2>2, <2>3, <2>4 DEF Told
<1>4. ASSUME NEW i \in 1..7, UiSteps[i] \in Normalized(report[b].completed)
      PROVE  UiSteps[i] \in build[b].made
  BY <1>4 DEF Normalized, Told
<1> QED
  BY <1>1, <1>2, <1>3, <1>4 DEF BadgesDone

(* A patch, a compilation or the copy is shown done only when it is        *)
(* (build_step_badges).                                                    *)
THEOREM BadgesAreHonest == Spec => []BadgesHonest
<1>1. Init => Badges
  <2> SUFFICES ASSUME Init PROVE Badges
    OBVIOUS
  <2>1. DOMAIN report = Builds
        /\ \A b \in Builds : report[b].step = "" /\ report[b].completed = {}
    BY DEF Init, NoReport
  <2>2. \A b \in Builds : build[b].at = "none" /\ build[b].made = {}
    BY DEF Init
  <2> QED
    BY <2>1, <2>2 DEF Badges, Told, PatchDone, PastHttps, BiosDone, EfiDone
<1>2. IInv /\ Badges /\ [Next]_vars => Badges'
  <2>1. ASSUME IInv, Badges, NEW b \in Builds, Step(b) PROVE Badges'
    BY <2>1, BadgesKept DEF IInv
  <2>2. ASSUME Badges, UNCHANGED <<build, report>> PROVE Badges'
    BY <2>2 DEF Badges, Told, PatchDone, BiosDone, EfiDone
  <2>3. MoveCa => UNCHANGED <<build, report>>
    BY DEF MoveCa
  <2>4. UNCHANGED vars => UNCHANGED <<build, report>>
    BY DEF vars
  <2> QED
    BY <2>1, <2>2, <2>3, <2>4 DEF Next
<1>3. Badges => BadgesHonest
  BY ToldIsShown DEF Badges, BadgesHonest
<1> QED
  BY <1>1, <1>2, <1>3, Invariance, PTL DEF Spec
----------------------------------------------------------------------------
(* The CA. A build that runs alone and under one CA leaves a stamp,        *)
(* objects and firmwares of that CA; those who come after find nothing to  *)
(* clean and recompile nothing.                                            *)

(* b has chosen whether to give TRUST=.                                    *)
PastDebug(b) == build[b].at \in {"stamp", "clean", "embed", "check", "enter", "make", "purge", "copy"}

(* make has looked at the objects of d for b.                              *)
HasRead(b, d) ==
    \/ build[b].at \in {"copy", "done"}
    \/ build[b].at \in {"make", "purge"} /\ d = "bin"
    \/ At(b, "make") /\ build[b].file # "undionly"
    \/ At(b, "enter") /\ build[b].file # "undionly" /\ d = "bin"
    \/ At(b, "enter") /\ build[b].file = "ipxe"

Awaits(b, d) == Stamped(b) /\ ~HasRead(b, d)

OverlapIsShared == \A a, b \in Active : a # b => a \in shared

MovedHasStarted == moved \subseteq {b \in Builds : build[b].at \notin {"none", "queued"}}

TrustKnown == \A b \in Builds : b \notin moved /\ PastDebug(b) => build[b].trust = (ca # 0)

StampIsCa == ~stampcut => \A b \in Builds : Stamped(b) => stamp = ca

(* Objects of another CA are about to be removed, or to be found without   *)
(* a CA to be compiled in.                                                 *)
ObjectsFollowStamp ==
    ~stampcut => \A d \in Dirs :
        \/ objca[d] \in {NoObjects, 0, stamp}
        \/ \E b \in Builds : At(b, "clean")
        \/ stamp = 0 /\ \E b \in Builds : Awaits(b, d)

Holds(f) == bin[f] = NoFile \/ bin[f].ca = ca

(* The build whose objects are its own: it runs alone, or was the last.    *)
Own(b) == ~stampcut /\ b \notin shared /\ b \notin moved /\ (b \in Active \/ b = latest)

OwnCa(b) ==
    /\ Stamped(b) \/ build[b].at \in {"copy", "done"} => stamp = ca
    /\ \A d \in Dirs : HasRead(b, d) => objca[d] = ca
    /\ \A f \in Files : HasMade(b, f) => Holds(f)
    /\ \A f \in Files : HasCopied(b, f) => tftp[f].ca = ca

OwnHasOwnCa == \A b \in Builds : Own(b) => OwnCa(b)

LatestIsDone ==
    latest # NoBuild =>
        /\ latest \in Builds /\ At(latest, "done")
        /\ Own(latest) => \A b \in Active : b \notin moved /\ ~At(b, "clean")

CaInv == /\ OverlapIsShared /\ MovedHasStarted /\ TrustKnown /\ StampIsCa
         /\ ObjectsFollowStamp /\ OwnHasOwnCa /\ LatestIsDone

(* Beside an active build only the last one can own the objects, and it    *)
(* has left everything of today's CA.                                      *)
LEMMA OnlyLatestOwns ==
  ASSUME CaInv, FirmwareAssumption, NEW b \in Active, NEW o \in Builds, o # b, Own(o)
  PROVE  /\ o = latest /\ At(o, "done") /\ stamp = ca
         /\ \A d \in Dirs : objca[d] = ca
         /\ \A f \in Files : Holds(f) /\ tftp[f].ca = ca
         /\ b \notin moved /\ ~At(b, "clean")
<1>1. b \in Builds /\ o \notin Active
  BY DEF CaInv, OverlapIsShared, Own, Active
<1>2. o = latest /\ latest # NoBuild
  BY <1>1 DEF Own, FirmwareAssumption
<1>3. At(o, "done") /\ b \notin moved /\ ~At(b, "clean")
  BY <1>2 DEF CaInv, LatestIsDone
<1>4. OwnCa(o)
  BY DEF CaInv, OwnHasOwnCa
<1>5. /\ \A d \in Dirs : HasRead(o, d)
      /\ \A f \in Files : HasMade(o, f) /\ HasCopied(o, f)
  BY <1>3 DEF At, HasRead, HasMade, HasCopied
<1> QED
  BY <1>2, <1>3, <1>4, <1>5 DEF OwnCa, At

(* The builds that b leaves alone stay where they are.                     *)
LEMMA OthersStand ==
  ASSUME NEW b \in Builds, \A o \in Builds \ {b} : build'[o] = build[o]
  PROVE  /\ \A o \in Builds \ {b} : (o \in Active' <=> o \in Active) /\ Stamped(o)' = Stamped(o)
         /\ \A o \in Builds \ {b} : PastDebug(o)' = PastDebug(o) /\ build'[o].trust = build[o].trust
         /\ \A o \in Builds \ {b} : \A p : At(o, p)' = At(o, p)
         /\ \A o \in Builds \ {b} : build'[o].at = build[o].at
         /\ \A o \in Builds \ {b} : \A d : HasRead(o, d)' = HasRead(o, d) /\ Awaits(o, d)' = Awaits(o, d)
         /\ \A o \in Builds \ {b} : \A f : HasMade(o, f)' = HasMade(o, f) /\ HasCopied(o, f)' = HasCopied(o, f)
<1>1. \A o \in Builds \ {b} : (o \in Active' <=> o \in Active)
  BY DEF Active, Ends
<1>2. \A o \in Builds \ {b} : \A d : HasRead(o, d)' = HasRead(o, d)
  BY DEF HasRead, At
<1>3. \A o \in Builds \ {b} : \A f : HasMade(o, f)' = HasMade(o, f) /\ HasCopied(o, f)' = HasCopied(o, f)
  BY DEF HasMade, HasCopied, At
<1>4. \A o \in Builds \ {b} : Stamped(o)' = Stamped(o) /\ PastDebug(o)' = PastDebug(o)
  BY DEF Stamped, PastDebug
<1> QED
  BY <1>1, <1>2, <1>3, <1>4 DEF At, Awaits

(* b neither starts nor ends well, trusts as it did or as the CA of today  *)
(* asks, and sees as many objects as it did.                               *)
Walks(b) ==
    /\ \A o \in Builds \ {b} : build'[o] = build[o]
    /\ b \in Active' => b \in Active
    /\ ~At(b, "done") /\ ~At(b, "done")'
    /\ build[b].at \notin {"none", "queued"} => build'[b].at \notin {"none", "queued"}
    /\ PastDebug(b)' => build'[b].trust = (ca # 0) \/ (PastDebug(b) /\ build'[b].trust = build[b].trust)

(* ... and it neither comes to clean or to wait for objects nor stops to.  *)
KeepsPace(b) ==
    ~stampcut' => /\ ~stampcut
                  /\ Stamped(b)' => Stamped(b)
                  /\ At(b, "clean")' = At(b, "clean")
                  /\ \A d \in Dirs : Awaits(b, d)' = Awaits(b, d)

(* A step that leaves the stamp and the objects keeps the parts of the     *)
(* invariant that speak of them.                                           *)
LEMMA WalkKept ==
  ASSUME CaInv, FirmwareAssumption, NEW b \in Builds, Walks(b), KeepsPace(b),
         UNCHANGED <<stamp, objca, ca, latest, shared, moved>>
  PROVE  /\ OverlapIsShared' /\ MovedHasStarted' /\ TrustKnown' /\ StampIsCa'
         /\ ObjectsFollowStamp' /\ LatestIsDone'
         /\ \A o \in Builds : Own(o)' => Own(o)
<1>1. \A o \in Builds : o \in Active' => o \in Active
  BY OthersStand DEF Walks
<1>2. \A o \in Builds : Own(o)' => Own(o)
  BY <1>1 DEF Own, KeepsPace
<1>3. OverlapIsShared'
  <2>1. Active \subseteq Builds /\ Active' \subseteq Builds
    BY DEF Active
  <2> QED
    BY <1>1, <2>1 DEF CaInv, OverlapIsShared
<1>4. MovedHasStarted'
  <2> SUFFICES ASSUME NEW o \in moved PROVE o \in Builds /\ build'[o].at \notin {"none", "queued"}
    BY DEF MovedHasStarted
  <2>1. CASE o = b
    BY <2>1 DEF CaInv, MovedHasStarted, Walks
  <2>2. CASE o # b
    BY <2>2 DEF CaInv, MovedHasStarted, Walks
  <2> QED
    BY <2>1, <2>2
<1>5. TrustKnown'
  <2> SUFFICES ASSUME NEW o \in Builds, o \notin moved, PastDebug(o)'
               PROVE  build'[o].trust = (ca # 0)
    BY DEF TrustKnown
  <2>1. CASE o = b
    BY <2>1 DEF CaInv, TrustKnown, Walks
  <2>2. CASE o # b
    BY <2>2, OthersStand DEF CaInv, TrustKnown, Walks
  <2> QED
    BY <2>1, <2>2
<1>6. StampIsCa'
  BY OthersStand DEF CaInv, StampIsCa, Walks, KeepsPace
<1>7. ObjectsFollowStamp'
  <2> SUFFICES ASSUME ~stampcut', NEW d \in Dirs
               PROVE  \/ objca[d] \in {NoObjects, 0, stamp}
                      \/ \E o \in Builds : At(o, "clean")'
                      \/ stamp = 0 /\ \E o \in Builds : Awaits(o, d)'
    BY DEF ObjectsFollowStamp, NoObjects
  <2>1. \A o \in Builds : At(o, "clean")' = At(o, "clean") /\ Awaits(o, d)' = Awaits(o, d)
    BY OthersStand DEF Walks, KeepsPace
  <2> QED
    BY <2>1 DEF CaInv, ObjectsFollowStamp, KeepsPace
<1>8. LatestIsDone'
  <2> SUFFICES ASSUME latest # NoBuild
               PROVE  /\ latest \in Builds /\ At(latest, "done")'
                      /\ Own(latest)' => \A o \in Active' : o \notin moved /\ ~At(o, "clean")'
    BY DEF LatestIsDone
  <2>1. latest \in Builds /\ At(latest, "done") /\ latest # b
    BY DEF CaInv, LatestIsDone, Walks
  <2>2. At(latest, "done")'
    BY <2>1 DEF At, Walks
  <2>3. ASSUME Own(latest)', NEW o \in Active' PROVE o \notin moved /\ ~At(o, "clean")'
    <3>1. Own(latest) /\ ~stampcut'
      BY <1>1, <2>3 DEF Own, KeepsPace, Active
    <3>2. o \in Active /\ o \in Builds
      BY <1>1 DEF Active
    <3>3. o \notin moved /\ ~At(o, "clean")
      BY <3>1, <3>2 DEF CaInv, LatestIsDone
    <3>4. At(o, "clean")' = At(o, "clean")
      BY <3>1, <3>2, OthersStand DEF Walks, KeepsPace
    <3> QED
      BY <3>3, <3>4
  <2> QED
    BY <2>1, <2>2, <2>3
<1> QED
  BY <1>2, <1>3, <1>4, <1>5, <1>6, <1>7, <1>8

(* A step of b that claims no more of the stamp, the objects and the files *)
(* keeps what the others own.                                              *)
Claims(b) ==
    /\ Stamped(b)' \/ build'[b].at \in {"copy", "done"} => Stamped(b) \/ build[b].at \in {"copy", "done"}
    /\ \A d \in Dirs : HasRead(b, d)' => HasRead(b, d)
    /\ \A f \in Files : HasMade(b, f)' => HasMade(b, f)
    /\ \A f \in Files : HasCopied(b, f)' => HasCopied(b, f)

LEMMA QuietKept ==
  ASSUME CaInv, FirmwareAssumption, NEW b \in Builds, Walks(b), KeepsPace(b), ~stampcut' => Claims(b),
         UNCHANGED <<stamp, objca, bin, tftp, ca, latest, shared, moved>>
  PROVE  CaInv'
<1>1. /\ OverlapIsShared' /\ MovedHasStarted' /\ TrustKnown' /\ StampIsCa'
      /\ ObjectsFollowStamp' /\ LatestIsDone'
      /\ \A o \in Builds : Own(o)' => Own(o)
  BY WalkKept
<1>2. ASSUME NEW o \in Builds, Own(o)' PROVE OwnCa(o)'
  <2>1. OwnCa(o)
    BY <1>1, <1>2 DEF CaInv, OwnHasOwnCa
  <2>2. \A f \in Files : Holds(f)' = Holds(f)
    BY DEF Holds
  <2>3. CASE o = b
    <3>1. Claims(b)
      BY <1>2 DEF Own
    <3> QED
      BY <2>1, <2>2, <2>3, <3>1 DEF OwnCa, Claims
  <2>4. CASE o # b
    <3>1. /\ build'[o].at = build[o].at /\ Stamped(o)' = Stamped(o)
          /\ \A d : HasRead(o, d)' = HasRead(o, d)
          /\ \A f : HasMade(o, f)' = HasMade(o, f) /\ HasCopied(o, f)' = HasCopied(o, f)
      BY <2>4, OthersStand DEF Walks
    <3> QED
      BY <2>1, <2>2, <3>1 DEF OwnCa
  <2> QED
    BY <2>3, <2>4
<1> QED
  BY <1>1, <1>2 DEF CaInv, OwnHasOwnCa

(* The steps that concern neither the CA nor what is made of it.           *)
LEMMA QuietSteps ==
  ASSUME TypeOK, FirmwareAssumption, CaInv, NEW b \in Builds,
         \/ Submit(b) \/ Clone(b) \/ Pull(b) \/ Patch(b) \/ Https(b) \/ Debug(b) \/ Embed(b)
         \/ Check(b) \/ PurgeEfi(b) \/ OrphanClones(b) \/ OrphanDies(b) \/ Fails(b) \/ Kill(b)
  PROVE  CaInv'
<1>a. build \in [Builds -> BuildState]
  BY DEF TypeOK
<1>1. CASE Submit(b)
  <2>1. /\ build[b].at = "none" /\ build'[b].at = "queued" /\ build'[b].file = build[b].file
        /\ build'[b].trust = build[b].trust
        /\ \A o \in Builds \ {b} : build'[o] = build[o]
    <3>1. PICK u \in Urls : build' = [build EXCEPT ![b].at = "queued", ![b].url = u]
      BY <1>1 DEF Submit
    <3>2. build[b].at = "none"
      BY <1>1 DEF Submit, At
    <3> QED
      BY <1>a, <3>1, <3>2 DEF BuildState
  <2>2. UNCHANGED <<stamp, objca, bin, tftp, ca, latest, shared, moved, stampcut>>
    BY <1>1 DEF Submit, treevars, ghosts
  <2>3. Walks(b)
    BY <2>1 DEF Walks, Active, Ends, At, PastDebug
  <2>4. KeepsPace(b)
    BY <2>1, <2>2 DEF KeepsPace, Stamped, Awaits, HasRead, At
  <2>5. Claims(b)
    BY <2>1 DEF Claims, Stamped, HasRead, HasMade, HasCopied, At
  <2> QED
    BY <2>2, <2>3, <2>4, <2>5, QuietKept
<1>2. CASE Clone(b)
  <2>1. /\ build[b].at = "clone" /\ build'[b].at = "patch" /\ build'[b].file = build[b].file
        /\ build'[b].trust = build[b].trust
        /\ \A o \in Builds \ {b} : build'[o] = build[o]
    BY <1>a, <1>2 DEF Clone, At, BuildState, GoOn
  <2>2. UNCHANGED <<stamp, objca, bin, tftp, ca, latest, shared, moved, stampcut>>
    BY <1>2 DEF Clone, ghosts, treevars
  <2>3. Walks(b)
    BY <2>1 DEF Walks, Active, Ends, At, PastDebug
  <2>4. KeepsPace(b)
    BY <2>1, <2>2 DEF KeepsPace, Stamped, Awaits, HasRead, At
  <2>5. Claims(b)
    BY <2>1 DEF Claims, Stamped, HasRead, HasMade, HasCopied, At
  <2> QED
    BY <2>2, <2>3, <2>4, <2>5, QuietKept
<1>3. CASE Pull(b)
  <2>1. /\ build[b].at = "pull" /\ build'[b].at = "patch" /\ build'[b].file = build[b].file
        /\ build'[b].trust = build[b].trust
        /\ \A o \in Builds \ {b} : build'[o] = build[o]
    BY <1>a, <1>3 DEF Pull, At, BuildState, GoOn
  <2>2. UNCHANGED <<stamp, objca, bin, tftp, ca, latest, shared, moved, stampcut>>
    BY <1>3 DEF Pull, treevars, ghosts
  <2>3. Walks(b)
    BY <2>1 DEF Walks, Active, Ends, At, PastDebug
  <2>4. KeepsPace(b)
    BY <2>1, <2>2 DEF KeepsPace, Stamped, Awaits, HasRead, At
  <2>5. Claims(b)
    BY <2>1 DEF Claims, Stamped, HasRead, HasMade, HasCopied, At
  <2> QED
    BY <2>2, <2>3, <2>4, <2>5, QuietKept
<1>4. CASE Patch(b)
  <2>1. /\ build[b].at = "patch" /\ build'[b].at = "https" /\ build'[b].file = build[b].file
        /\ build'[b].trust = build[b].trust
        /\ \A o \in Builds \ {b} : build'[o] = build[o]
    BY <1>a, <1>4 DEF Patch, At, BuildState, GoOn
  <2>2. UNCHANGED <<stamp, objca, bin, tftp, ca, latest, shared, moved, stampcut>>
    BY <1>4 DEF Patch, ghosts, treevars
  <2>3. Walks(b)
    BY <2>1 DEF Walks, Active, Ends, At, PastDebug
  <2>4. KeepsPace(b)
    BY <2>1, <2>2 DEF KeepsPace, Stamped, Awaits, HasRead, At
  <2>5. Claims(b)
    BY <2>1 DEF Claims, Stamped, HasRead, HasMade, HasCopied, At
  <2> QED
    BY <2>2, <2>3, <2>4, <2>5, QuietKept
<1>5. CASE Https(b)
  <2>1. /\ build[b].at = "https" /\ build'[b].at = "debug" /\ build'[b].file = build[b].file
        /\ build'[b].trust = build[b].trust
        /\ \A o \in Builds \ {b} : build'[o] = build[o]
    BY <1>a, <1>5 DEF Https, At, BuildState, Go
  <2>2. UNCHANGED <<stamp, objca, bin, tftp, ca, latest, shared, moved, stampcut>>
    BY <1>5 DEF Https, ghosts, treevars
  <2>3. Walks(b)
    BY <2>1 DEF Walks, Active, Ends, At, PastDebug
  <2>4. KeepsPace(b)
    BY <2>1, <2>2 DEF KeepsPace, Stamped, Awaits, HasRead, At
  <2>5. Claims(b)
    BY <2>1 DEF Claims, Stamped, HasRead, HasMade, HasCopied, At
  <2> QED
    BY <2>2, <2>3, <2>4, <2>5, QuietKept
<1>6. CASE Debug(b)
  <2>1. /\ build[b].at = "debug" /\ build'[b].at = "stamp" /\ build'[b].file = build[b].file
        /\ build'[b].trust = (ca # 0)
        /\ \A o \in Builds \ {b} : build'[o] = build[o]
    BY <1>a, <1>6 DEF Debug, At, BuildState
  <2>2. UNCHANGED <<stamp, objca, bin, tftp, ca, latest, shared, moved, stampcut>>
    BY <1>6 DEF Debug, treevars, ghosts
  <2>3. Walks(b)
    BY <2>1 DEF Walks, Active, Ends, At, PastDebug
  <2>4. KeepsPace(b)
    BY <2>1, <2>2 DEF KeepsPace, Stamped, Awaits, HasRead, At
  <2>5. Claims(b)
    BY <2>1 DEF Claims, Stamped, HasRead, HasMade, HasCopied, At
  <2> QED
    BY <2>2, <2>3, <2>4, <2>5, QuietKept
<1>7. CASE Embed(b)
  <2>1. /\ build[b].at = "embed" /\ build'[b].at = "check" /\ build'[b].file = build[b].file
        /\ build'[b].trust = build[b].trust
        /\ \A o \in Builds \ {b} : build'[o] = build[o]
    BY <1>a, <1>7 DEF Embed, At, BuildState, Go
  <2>2. UNCHANGED <<stamp, objca, bin, tftp, ca, latest, shared, moved, stampcut>>
    BY <1>7 DEF Embed
  <2>3. Walks(b)
    BY <2>1 DEF Walks, Active, Ends, At, PastDebug
  <2>4. KeepsPace(b)
    BY <2>1, <2>2 DEF KeepsPace, Stamped, Awaits, HasRead, At
  <2>5. Claims(b)
    BY <2>1 DEF Claims, Stamped, HasRead, HasMade, HasCopied, At
  <2> QED
    BY <2>2, <2>3, <2>4, <2>5, QuietKept
<1>8. CASE Check(b)
  <2>1. /\ build[b].at = "check" /\ build'[b].at = "enter" /\ build'[b].file = "undionly"
        /\ build'[b].trust = build[b].trust
        /\ \A o \in Builds \ {b} : build'[o] = build[o]
    BY <1>a, <1>8 DEF Check, At, BuildState
  <2>2. UNCHANGED <<stamp, objca, bin, tftp, ca, latest, shared, moved, stampcut>>
    BY <1>8 DEF Check, PurgeFrame
  <2>3. Walks(b)
    BY <2>1 DEF Walks, Active, Ends, At, PastDebug
  <2>4. KeepsPace(b)
    BY <2>1, <2>2 DEF KeepsPace, Stamped, Awaits, HasRead, At
  <2>5. Claims(b)
    BY <2>1 DEF Claims, Stamped, HasRead, HasMade, HasCopied, At
  <2> QED
    BY <2>2, <2>3, <2>4, <2>5, QuietKept
<1>9. CASE PurgeEfi(b)
  <2>1. /\ build[b].at = "purge" /\ build'[b].at = "enter" /\ build'[b].file = "snponly"
        /\ build'[b].trust = build[b].trust
        /\ \A o \in Builds \ {b} : build'[o] = build[o]
    BY <1>a, <1>9 DEF PurgeEfi, At, BuildState
  <2>2. UNCHANGED <<stamp, objca, bin, tftp, ca, latest, shared, moved, stampcut>>
    BY <1>9 DEF PurgeEfi, PurgeFrame
  <2>3. Walks(b)
    BY <2>1 DEF Walks, Active, Ends, At, PastDebug
  <2>4. KeepsPace(b)
    BY <2>1, <2>2 DEF KeepsPace, Stamped, Awaits, HasRead, At
  <2>5. Claims(b)
    BY <2>1 DEF Claims, Stamped, HasRead, HasMade, HasCopied, At
  <2> QED
    BY <2>2, <2>3, <2>4, <2>5, QuietKept
<1>10. CASE OrphanClones(b)
  <2>1. /\ build[b].at = "orphan" /\ build'[b].at = "killed" /\ build'[b].file = build[b].file
        /\ build'[b].trust = build[b].trust
        /\ \A o \in Builds \ {b} : build'[o] = build[o]
    BY <1>a, <1>10 DEF OrphanClones, At, BuildState, Go
  <2>2. UNCHANGED <<stamp, objca, bin, tftp, ca, latest, shared, moved, stampcut>>
    BY <1>10 DEF OrphanClones, ghosts, CloneEnds, treevars
  <2>3. Walks(b)
    BY <2>1 DEF Walks, Active, Ends, At, PastDebug
  <2>4. KeepsPace(b)
    BY <2>1, <2>2 DEF KeepsPace, Stamped, Awaits, HasRead, At
  <2>5. Claims(b)
    BY <2>1 DEF Claims, Stamped, HasRead, HasMade, HasCopied, At
  <2> QED
    BY <2>2, <2>3, <2>4, <2>5, QuietKept
<1>11. CASE OrphanDies(b)
  <2>1. /\ build[b].at \in Left /\ build'[b].at = "killed" /\ build'[b].file = build[b].file
        /\ build'[b].trust = build[b].trust
        /\ \A o \in Builds \ {b} : build'[o] = build[o]
    BY <1>a, <1>11 DEF OrphanDies, Left, At, BuildState, Go
  <2>2. UNCHANGED <<stamp, objca, bin, tftp, ca, latest, shared, moved, stampcut>>
    BY <1>11 DEF OrphanDies, treevars, ghosts
  <2>3. Walks(b)
    BY <2>1 DEF Left, Walks, Active, Ends, At, PastDebug
  <2>4. KeepsPace(b)
    BY <2>1, <2>2 DEF Left, KeepsPace, Stamped, Awaits, HasRead, At
  <2>5. Claims(b)
    BY <2>1 DEF Claims, Stamped, HasRead, HasMade, HasCopied, At
  <2> QED
    BY <2>2, <2>3, <2>4, <2>5, QuietKept
<1>12. CASE Fails(b)
  <2>1. /\ build'[b].at = "failed" /\ build'[b].file = build[b].file
        /\ build'[b].trust = build[b].trust
        /\ \A o \in Builds \ {b} : build'[o] = build[o]
    BY <1>a, <1>12, GoFields DEF Fails, Places, Ends
  <2>2. /\ UNCHANGED <<stamp, objca, bin, tftp, ca, latest, shared, moved>>
        /\ ~stampcut' => ~stampcut /\ ~Stamped(b)
    BY <1>12 DEF Fails, Cut, CutFrame
  <2>3. b \in Active
    BY <1>12 DEF Fails, Running
  <2>4. Walks(b)
    BY <2>1, <2>3 DEF Walks, Active, Ends, At, PastDebug
  <2>5. KeepsPace(b)
    BY <2>1, <2>2 DEF KeepsPace, Stamped, Awaits, At
  <2>6. Claims(b)
    BY <2>1 DEF Claims, Stamped, HasRead, HasMade, HasCopied, At
  <2> QED
    BY <2>2, <2>4, <2>5, <2>6, QuietKept
<1>13. CASE Kill(b)
  <2>1. /\ build'[b].at \in {"orphan", "sweep", "killed"} /\ build'[b].file = build[b].file
        /\ build'[b].trust = build[b].trust
        /\ \A o \in Builds \ {b} : build'[o] = build[o]
    <3>1. PICK p \in {"orphan", "sweep", "killed"} : Go(b, p)
      BY <1>13 DEF Kill
    <3> QED
      BY <1>a, <3>1 DEF Go, BuildState
  <2>2. /\ UNCHANGED <<stamp, objca, bin, tftp, ca, latest, shared, moved>>
        /\ ~stampcut' => ~stampcut /\ ~Stamped(b)
    BY <1>13 DEF Kill, Cut, CutFrame
  <2>3. ~At(b, "done") /\ (b \in Active \/ At(b, "queued"))
    BY <1>13 DEF Kill, Running, Left, At, Active, Ends
  <2>4. Walks(b)
    <3>1. At(b, "queued") => ~At(b, "orphan")' /\ ~At(b, "sweep")'
      <4>1. At(b, "queued") => Go(b, "killed")
        BY <1>13 DEF Kill, At
      <4> QED
        BY <1>a, <4>1 DEF Go, At, BuildState
    <3> QED
      BY <2>1, <2>3, <3>1 DEF Walks, Active, Ends, At, PastDebug
  <2>5. KeepsPace(b)
    BY <2>1, <2>2 DEF KeepsPace, Stamped, Awaits, At
  <2>6. Claims(b)
    BY <2>1 DEF Claims, Stamped, HasRead, HasMade, HasCopied, At
  <2> QED
    BY <2>2, <2>4, <2>5, <2>6, QuietKept
<1> QED
  BY <1>1, <1>2, <1>3, <1>4, <1>5, <1>6, <1>7, <1>8, <1>9, <1>10, <1>11, <1>12, <1>13

(* A build that starts beside others becomes shared, and so do they.       *)
LEMMA StartKeepsCa ==
  ASSUME TypeOK, FirmwareAssumption, CaInv, NEW b \in Builds, Start(b)
  PROVE  CaInv'
<1>1. /\ build[b].at = "queued" /\ build'[b].at \in {"clone", "pull"}
      /\ \A o \in Builds \ {b} : build'[o] = build[o]
  <2>1. build[b].at = "queued" /\ build \in [Builds -> BuildState]
    BY DEF Start, At, TypeOK
  <2>2. PICK p \in {"clone", "pull"} : Go(b, p)
    BY DEF Start
  <2> QED
    BY <2>1, <2>2 DEF Go, BuildState
<1>2. UNCHANGED <<stamp, objca, bin, tftp, ca, latest, moved, stampcut>>
  BY DEF Start
<1>3. b \notin Active /\ Active' = Active \cup {b} /\ Active \subseteq Builds
  BY <1>1 DEF Active, Ends
<1>4. /\ shared \subseteq shared'
      /\ Active # {} => Active \cup {b} \subseteq shared'
  BY DEF Start
<1>5. /\ ~Stamped(b)' /\ ~PastDebug(b)' /\ ~Stamped(b)
      /\ \A d : ~Awaits(b, d)' /\ ~Awaits(b, d)
      /\ \A p \in {"clean", "done"} : ~At(b, p)' /\ ~At(b, p)
  BY <1>1 DEF Stamped, PastDebug, Awaits, At
<1>6. \A o \in Builds : Own(o)' => Own(o) \/ o = b
  BY <1>2, <1>3, <1>4 DEF Own
<1>7. OverlapIsShared'
  <2> SUFFICES ASSUME NEW o \in Active', NEW c \in Active', o # c PROVE o \in shared'
    BY DEF OverlapIsShared
  <2>1. CASE Active = {}
    BY <1>3, <2>1
  <2>2. CASE Active # {}
    BY <1>3, <1>4, <2>2
  <2> QED
    BY <2>1, <2>2
<1>8. MovedHasStarted'
  <2>1. b \notin moved
    BY <1>1 DEF CaInv, MovedHasStarted
  <2> QED
    BY <1>1, <1>2, <2>1 DEF CaInv, MovedHasStarted
<1>9. TrustKnown'
  BY <1>1, <1>2, <1>5, OthersStand DEF CaInv, TrustKnown
<1>10. StampIsCa'
  BY <1>1, <1>2, <1>5, OthersStand DEF CaInv, StampIsCa
<1>11. ObjectsFollowStamp'
  <2>1. \A o \in Builds : /\ At(o, "clean")' <=> At(o, "clean")
                          /\ \A d \in Dirs : Awaits(o, d)' <=> Awaits(o, d)
    BY <1>1, <1>5, OthersStand
  <2> QED
    BY <1>2, <2>1 DEF CaInv, ObjectsFollowStamp, NoObjects
<1>12. OwnHasOwnCa'
  <2> SUFFICES ASSUME NEW o \in Builds, Own(o)' PROVE OwnCa(o)'
    BY DEF OwnHasOwnCa
  <2>1. CASE o = b
    BY <1>1, <2>1 DEF OwnCa, Stamped, HasRead, HasMade, HasCopied, At
  <2>2. CASE o # b
    <3>1. OwnCa(o)
      BY <1>6, <2>2 DEF CaInv, OwnHasOwnCa
    <3>2. /\ build'[o].at = build[o].at /\ Stamped(o)' = Stamped(o)
          /\ \A d : HasRead(o, d)' = HasRead(o, d)
          /\ \A f : HasMade(o, f)' = HasMade(o, f) /\ HasCopied(o, f)' = HasCopied(o, f)
      BY <1>1, <2>2, OthersStand
    <3>3. \A f \in Files : Holds(f)' = Holds(f)
      BY <1>2 DEF Holds
    <3> QED
      BY <1>2, <3>1, <3>2, <3>3 DEF OwnCa
  <2> QED
    BY <2>1, <2>2
<1>13. LatestIsDone'
  <2> SUFFICES ASSUME latest # NoBuild
               PROVE  /\ latest \in Builds /\ At(latest, "done")'
                      /\ Own(latest)' => \A o \in Active' : o \notin moved /\ ~At(o, "clean")'
    BY <1>2 DEF LatestIsDone
  <2>1. latest \in Builds /\ At(latest, "done") /\ latest # b
    BY <1>1 DEF CaInv, LatestIsDone, At
  <2>2. At(latest, "done")'
    BY <1>1, <1>2, <2>1 DEF At
  <2>3. ASSUME Own(latest)', NEW o \in Active' PROVE o \notin moved /\ ~At(o, "clean")'
    <3>1. Own(latest)
      BY <1>2, <1>6, <2>1, <2>3
    <3>2. CASE o = b
      BY <1>1, <1>5, <3>2 DEF CaInv, MovedHasStarted
    <3>3. CASE o # b
      <4>1. o \in Active /\ o \in Builds \ {b}
        BY <1>3, <3>3
      <4>2. o \notin moved /\ ~At(o, "clean")
        BY <3>1, <4>1 DEF CaInv, LatestIsDone
      <4> QED
        BY <1>1, <4>1, <4>2 DEF At
    <3> QED
      BY <3>2, <3>3
  <2> QED
    BY <2>1, <2>2, <2>3
<1> QED
  BY <1>7, <1>8, <1>9, <1>10, <1>11, <1>12, <1>13 DEF CaInv

(* Stamp: a stamp that changes is that of a build without company.         *)
LEMMA StampKeepsCa ==
  ASSUME TypeOK, FirmwareAssumption, CaInv, NEW b \in Builds, Stamp(b)
  PROVE  CaInv'
<1>1. /\ build[b].at = "stamp" /\ build'[b].trust = build[b].trust
      /\ \A o \in Builds \ {b} : build'[o] = build[o]
      /\ IF StampClean(stamp) THEN build'[b].at = "clean" ELSE build'[b].at = "embed"
  <2>1. build[b].at = "stamp" /\ build \in [Builds -> BuildState]
    BY DEF Stamp, At, TypeOK
  <2>2. PICK p \in {"clean", "embed"} : Go(b, p) /\ (StampClean(stamp) <=> p = "clean")
    BY DEF Stamp
  <2> QED
    BY <2>1, <2>2 DEF Go, BuildState
<1>2. UNCHANGED <<objca, bin, tftp, ca, latest, shared, moved>> /\ stamp' = ca
  BY DEF Stamp
<1>3. ~stampcut' => ~stampcut /\ (stamp = ca \/ b \notin shared)
  BY DEF Stamp
<1>4. b \in Active /\ Active' = Active /\ Active \subseteq Builds
  BY <1>1 DEF Active, Ends
<1>5. \A o \in Builds : Own(o)' => Own(o)
  BY <1>2, <1>3, <1>4 DEF Own
<1>6. ASSUME ~stampcut', stamp # ca, NEW o \in Builds, o # b
      PROVE  o \notin Active /\ ~Own(o)
  <2>1. o \notin Active
    BY <1>3, <1>4, <1>6 DEF CaInv, OverlapIsShared
  <2>2. Own(o) => stamp = ca
    BY <1>4, <1>6, OnlyLatestOwns
  <2> QED
    BY <1>6, <2>1, <2>2
<1>7. \A o \in Builds : Stamped(o) \/ At(o, "clean") => o \in Active
  BY DEF Stamped, At, Active, Ends
<1>8. OverlapIsShared' /\ MovedHasStarted'
  BY <1>1, <1>2, <1>4 DEF CaInv, OverlapIsShared, MovedHasStarted
<1>9. TrustKnown'
  <2>1. PastDebug(b) /\ build'[b].trust = build[b].trust
    BY <1>1 DEF PastDebug
  <2> QED
    BY <1>1, <1>2, <2>1, OthersStand DEF CaInv, TrustKnown
<1>10. StampIsCa'
  BY <1>2 DEF StampIsCa
<1>11. ObjectsFollowStamp'
  <2> SUFFICES ASSUME ~stampcut', NEW d \in Dirs
               PROVE  \/ objca[d] \in {NoObjects, 0, ca}
                      \/ \E o \in Builds : At(o, "clean")'
                      \/ ca = 0 /\ \E o \in Builds : Awaits(o, d)'
    BY <1>2 DEF ObjectsFollowStamp, NoObjects
  <2>1. CASE stamp = ca
    <3>1. \A o \in Builds : At(o, "clean") => o # b
      BY <1>1 DEF At
    <3>2. \A o \in Builds : Awaits(o, d) => o # b
      BY <1>1 DEF Awaits, Stamped
    <3>3. \A o \in Builds \ {b} : At(o, "clean")' = At(o, "clean") /\ Awaits(o, d)' = Awaits(o, d)
      BY <1>1, OthersStand
    <3>4. \/ objca[d] \in {NoObjects, 0, stamp}
          \/ \E o \in Builds : At(o, "clean")
          \/ stamp = 0 /\ \E o \in Builds : Awaits(o, d)
      BY <1>3 DEF CaInv, ObjectsFollowStamp
    <3> QED
      BY <2>1, <3>1, <3>2, <3>3, <3>4
  <2>2. CASE stamp # ca
    <3>1. \A o \in Builds : ~At(o, "clean") /\ ~Awaits(o, d)
      BY <1>1, <1>6, <1>7, <2>2 DEF At, Awaits, Stamped
    <3>2. objca[d] \in {NoObjects, 0, stamp}
      BY <1>3, <3>1 DEF CaInv, ObjectsFollowStamp
    <3>3. CASE StampClean(stamp)
      BY <1>1, <3>3 DEF At
    <3>4. CASE ~StampClean(stamp)
      <4>1. Awaits(b, d)'
        BY <1>1, <3>4 DEF Awaits, Stamped, HasRead, At
      <4>2. ca = 0 \/ stamp = 0
        BY <2>2, <3>4 DEF StampClean
      <4> QED
        BY <3>2, <4>1, <4>2
    <3> QED
      BY <3>3, <3>4
  <2> QED
    BY <2>1, <2>2
<1>12. OwnHasOwnCa'
  <2> SUFFICES ASSUME NEW o \in Builds, Own(o)' PROVE OwnCa(o)'
    BY DEF OwnHasOwnCa
  <2>1. Own(o) /\ OwnCa(o)
    BY <1>5 DEF CaInv, OwnHasOwnCa
  <2>2. CASE o = b
    BY <1>1, <1>2, <2>2 DEF OwnCa, HasRead, HasMade, HasCopied, At
  <2>3. CASE o # b
    <3>1. /\ \A d : HasRead(o, d)' = HasRead(o, d)
          /\ \A f : HasMade(o, f)' = HasMade(o, f) /\ HasCopied(o, f)' = HasCopied(o, f)
      BY <1>1, <2>3, OthersStand
    <3>2. \A f \in Files : Holds(f)' = Holds(f)
      BY <1>2 DEF Holds
    <3> QED
      BY <1>2, <2>1, <3>1, <3>2 DEF OwnCa
  <2> QED
    BY <2>2, <2>3
<1>13. LatestIsDone'
  <2> SUFFICES ASSUME latest # NoBuild
               PROVE  /\ latest \in Builds /\ At(latest, "done")'
                      /\ Own(latest)' => \A o \in Active : o \notin moved /\ ~At(o, "clean")'
    BY <1>2, <1>4 DEF LatestIsDone
  <2>1. latest \in Builds /\ At(latest, "done") /\ latest # b
    BY <1>1 DEF CaInv, LatestIsDone, At
  <2>2. At(latest, "done")'
    BY <1>1, <1>2, <2>1 DEF At
  <2>3. ASSUME Own(latest)', NEW o \in Active PROVE o \notin moved /\ ~At(o, "clean")'
    <3>1. Own(latest)
      BY <1>2, <1>5, <2>1, <2>3
    <3>2. o \notin moved /\ ~At(o, "clean") /\ o \in Builds
      BY <1>4, <3>1 DEF CaInv, LatestIsDone
    <3>3. stamp = ca
      BY <1>4, <2>1, <3>1, OnlyLatestOwns
    <3>4. CASE o = b
      BY <1>1, <3>2, <3>3, <3>4 DEF StampClean, At
    <3>5. CASE o # b
      BY <1>1, <3>2, <3>5 DEF At
    <3> QED
      BY <3>2, <3>4, <3>5
  <2> QED
    BY <2>1, <2>2, <2>3
<1> QED
  BY <1>8, <1>9, <1>10, <1>11, <1>12, <1>13 DEF CaInv

(* make clean: who cleans owns nothing yet, and no one else does.          *)
LEMMA CleanKeepsCa ==
  ASSUME TypeOK, FirmwareAssumption, CaInv, NEW b \in Builds, Clean(b)
  PROVE  CaInv'
<1>1. /\ build[b].at = "clean" /\ build'[b].at = "embed" /\ build'[b].trust = build[b].trust
      /\ \A o \in Builds \ {b} : build'[o] = build[o]
  BY DEF Clean, Cleaned, GoOn, At, TypeOK, BuildState
<1>2. /\ UNCHANGED <<stamp, tftp, ca, latest, shared, moved, stampcut>>
      /\ \A d \in Dirs : objca'[d] = NoObjects
  BY DEF Clean, Cleaned, ghosts
<1>3. b \in Active /\ Active' = Active /\ Active \subseteq Builds
  BY <1>1 DEF Active, Ends
<1>4. \A o \in Builds : Own(o)' => Own(o)
  BY <1>2, <1>3 DEF Own
<1>5. \A o \in Builds \ {b} : ~Own(o)
  BY <1>1, <1>3, OnlyLatestOwns DEF At
<1>6. OverlapIsShared' /\ MovedHasStarted'
  BY <1>1, <1>2, <1>3 DEF CaInv, OverlapIsShared, MovedHasStarted
<1>7. TrustKnown'
  <2>1. PastDebug(b)
    BY <1>1 DEF PastDebug
  <2> QED
    BY <1>1, <1>2, <2>1, OthersStand DEF CaInv, TrustKnown
<1>8. StampIsCa'
  <2>1. Stamped(b)
    BY <1>1 DEF Stamped
  <2> QED
    BY <1>1, <1>2, <2>1, OthersStand DEF CaInv, StampIsCa
<1>9. ObjectsFollowStamp'
  BY <1>2 DEF ObjectsFollowStamp, NoObjects
<1>10. OwnHasOwnCa'
  <2> SUFFICES ASSUME Own(b)' PROVE OwnCa(b)'
    BY <1>4, <1>5 DEF OwnHasOwnCa
  <2>1. stamp = ca
    BY <1>1, <1>2 DEF Own, CaInv, StampIsCa, Stamped
  <2> QED
    BY <1>1, <1>2, <2>1 DEF OwnCa, HasRead, HasMade, HasCopied, At
<1>11. LatestIsDone'
  <2> SUFFICES ASSUME latest # NoBuild
               PROVE  latest \in Builds /\ At(latest, "done")' /\ ~Own(latest)'
    BY <1>2 DEF LatestIsDone
  <2>1. latest \in Builds /\ At(latest, "done") /\ latest # b
    BY <1>1 DEF CaInv, LatestIsDone, At
  <2> QED
    BY <1>1, <1>2, <1>4, <1>5, <2>1 DEF At
<1> QED
  BY <1>6, <1>7, <1>8, <1>9, <1>10, <1>11 DEF CaInv

(* Only the death of a build that cleans leaves its make clean behind, and *)
(* that build had written the stamp.                                       *)
SweepIsCut == \A b \in Builds : At(b, "sweep") => stampcut

LEMMA SweepKept ==
  ASSUME TypeOK, SweepIsCut, NEW b \in Builds, Step(b)
  PROVE  SweepIsCut'
<1> DEFINE Elsewhere == /\ build'[b].at # "sweep" /\ (stampcut => stampcut')
                        /\ \A o \in Builds \ {b} : build'[o] = build[o]
<1>a. build \in [Builds -> BuildState]
  BY DEF TypeOK
<1>b. Elsewhere => SweepIsCut'
  BY DEF SweepIsCut, At
<1>1. CASE Kill(b)
  <2>1. /\ At(b, "clean") \/ build'[b].at # "sweep"
        /\ \A o \in Builds \ {b} : build'[o] = build[o]
    BY <1>a, <1>1 DEF Kill, Go, BuildState
  <2>2. stampcut' = (stampcut \/ Stamped(b))
    BY <1>1 DEF Kill, Cut
  <2> QED
    BY <2>1, <2>2 DEF SweepIsCut, At, Stamped
<1>2. CASE Submit(b)
  BY <1>a, <1>b, <1>2 DEF Submit, ghosts, BuildState
<1>3. CASE Start(b)
  BY <1>a, <1>b, <1>3 DEF Start, Go, BuildState
<1>4. CASE Clone(b)
  BY <1>a, <1>b, <1>4 DEF Clone, GoOn, ghosts, BuildState
<1>5. CASE Pull(b)
  BY <1>a, <1>b, <1>5 DEF Pull, GoOn, ghosts, BuildState
<1>6. CASE Patch(b)
  BY <1>a, <1>b, <1>6 DEF Patch, GoOn, ghosts, BuildState
<1>7. CASE Https(b)
  BY <1>a, <1>b, <1>7 DEF Https, Go, ghosts, BuildState
<1>8. CASE Debug(b)
  BY <1>a, <1>b, <1>8 DEF Debug, ghosts, BuildState
<1>9. CASE Stamp(b)
  BY <1>a, <1>b, <1>9 DEF Stamp, Go, BuildState
<1>10. CASE Clean(b)
  BY <1>a, <1>b, <1>10 DEF Clean, GoOn, ghosts, BuildState
<1>11. CASE Embed(b)
  BY <1>a, <1>b, <1>11 DEF Embed, Go, BuildState
<1>12. CASE Check(b)
  BY <1>a, <1>b, <1>12 DEF Check, PurgeFrame, BuildState
<1>13. CASE MakeReads(b)
  BY <1>a, <1>b, <1>13 DEF MakeReads, ghosts, BuildState
<1>14. CASE MakeBios(b)
  BY <1>a, <1>b, <1>14 DEF MakeBios, GoOn, TreeButLink, ghosts, BuildState
<1>15. CASE PurgeEfi(b)
  BY <1>a, <1>b, <1>15 DEF PurgeEfi, PurgeFrame, BuildState
<1>16. CASE MakeSnponly(b)
  BY <1>a, <1>b, <1>16 DEF MakeSnponly, TreeButLink, ghosts, BuildState
<1>17. CASE MakeIpxe(b)
  BY <1>a, <1>b, <1>17 DEF MakeIpxe, TreeButLink, ghosts, BuildState
<1>18. CASE Copy(b)
  BY <1>a, <1>b, <1>18 DEF Copy, At, ghosts, BuildState
<1>19. CASE CopyLast(b)
  BY <1>a, <1>b, <1>19 DEF CopyLast, GoOn, BuildState
<1>20. CASE Fails(b)
  BY <1>a, <1>b, <1>20 DEF Fails, Go, Cut, BuildState
<1>21. CASE OrphanClones(b)
  BY <1>a, <1>b, <1>21 DEF OrphanClones, Go, ghosts, BuildState
<1>22. CASE OrphanLinks(b)
  BY <1>a, <1>b, <1>22 DEF OrphanLinks, Go, TreeButLink, ghosts, BuildState
<1>23. CASE OrphanCleans(b)
  BY <1>a, <1>b, <1>23 DEF OrphanCleans, Go, ghosts, BuildState
<1>24. CASE OrphanDies(b)
  BY <1>a, <1>b, <1>24 DEF OrphanDies, Go, ghosts, BuildState
<1> QED
  BY <1>1, <1>2, <1>3, <1>4, <1>5, <1>6, <1>7, <1>8, <1>9, <1>10, <1>11, <1>12, <1>13, <1>14, <1>15, <1>16, <1>17, <1>18, <1>19, <1>20, <1>21, <1>22, <1>23, <1>24 DEF Step

(* The make clean of a dead build: the stamp has been cut, nobody owns     *)
(* anything.                                                               *)
LEMMA OrphanCleansKeepsCa ==
  ASSUME TypeOK, SweepIsCut, CaInv, NEW b \in Builds, OrphanCleans(b)
  PROVE  CaInv'
<1>1. /\ build[b].at = "sweep" /\ build'[b].at = "killed"
      /\ \A o \in Builds \ {b} : build'[o] = build[o]
  BY DEF OrphanCleans, Go, At, TypeOK, BuildState
<1>2. stampcut /\ UNCHANGED <<ca, latest, shared, moved, stampcut>>
  BY <1>1 DEF OrphanCleans, SweepIsCut, At, ghosts
<1>3. Active' \subseteq Active /\ Active \subseteq Builds
  BY <1>1 DEF Active, Ends
<1>4. OverlapIsShared' /\ MovedHasStarted'
  BY <1>1, <1>2, <1>3 DEF CaInv, OverlapIsShared, MovedHasStarted
<1>5. TrustKnown'
  <2>1. ~PastDebug(b)'
    BY <1>1 DEF PastDebug
  <2> QED
    BY <1>1, <1>2, <2>1, OthersStand DEF CaInv, TrustKnown
<1>6. StampIsCa' /\ ObjectsFollowStamp' /\ OwnHasOwnCa'
  BY <1>2 DEF StampIsCa, ObjectsFollowStamp, OwnHasOwnCa, Own
<1>7. LatestIsDone'
  <2>1. ~Own(latest)'
    BY <1>2 DEF Own
  <2>2. latest # NoBuild => latest \in Builds /\ latest # b /\ At(latest, "done")
    BY <1>1 DEF CaInv, LatestIsDone, At
  <2> QED
    BY <1>1, <1>2, <2>1, <2>2 DEF LatestIsDone, At
<1> QED
  BY <1>4, <1>5, <1>6, <1>7 DEF CaInv

(* make reads the objects: a build that owns them finds those of its CA,   *)
(* or compiles them; beside the last build it finds nothing to compile.    *)
LEMMA MakeReadsKeepsCa ==
  ASSUME TypeOK, FileInHand, FirmwareAssumption, CaInv, NEW b \in Builds, MakeReads(b)
  PROVE  CaInv'
<1> DEFINE d == Dir(build[b].file)
<1>1. /\ build[b].at = "enter" /\ build'[b].at = "make" /\ build'[b].file = build[b].file
      /\ build'[b].trust = build[b].trust
      /\ \A o \in Builds \ {b} : build'[o] = build[o]
  <2>1. build[b].at = "enter" /\ build \in [Builds -> BuildState]
    BY DEF MakeReads, At, TypeOK
  <2>2. PICK u : build' = [build EXCEPT ![b].at = "make", ![b].got = u]
    BY DEF MakeReads
  <2> QED
    BY <2>1, <2>2 DEF BuildState
<1>2. UNCHANGED <<stamp, bin, tftp, ca, latest, shared, moved, stampcut>>
  BY DEF MakeReads, ghosts
<1>3. d \in Dirs /\ build[b].file \in Files
  BY <1>1 DEF FileInHand, Dir, Dirs
<1>4. /\ \A e \in Dirs : e # d => objca'[e] = objca[e]
      /\ IF objca[d] = NoObjects \/ (objca[d] # 0) # build[b].trust
         THEN objca'[d] = IF build[b].trust THEN ca ELSE 0
         ELSE objca'[d] = objca[d]
  BY <1>3 DEF MakeReads, TypeOK
<1>5. /\ build[b].trust \in BOOLEAN /\ (build[b].trust => ca # 0)
      /\ ca # NoObjects
  <2>1. build[b].trust => ca # 0
    BY DEF MakeReads
  <2>2. ca # NoObjects
    BY DEF TypeOK, NoObjects, FirmwareAssumption
  <2> QED
    BY <2>1, <2>2 DEF TypeOK, BuildState
<1>6. b \in Active /\ Active' = Active /\ Active \subseteq Builds /\ Stamped(b) /\ Stamped(b)'
  BY <1>1 DEF Active, Ends, Stamped
<1>7. ~stampcut => stamp = ca
  BY <1>6 DEF CaInv, StampIsCa
<1>8. \A o \in Builds : Own(o)' => Own(o)
  BY <1>2, <1>6 DEF Own
<1>9. \A e \in Dirs : e # d => Awaits(b, e)' = Awaits(b, e) /\ HasRead(b, e)' = HasRead(b, e)
  BY <1>1, <1>3 DEF Awaits, Stamped, HasRead, At, Dir, Dirs, Files
<1>10. OverlapIsShared' /\ MovedHasStarted'
  BY <1>1, <1>2, <1>6 DEF CaInv, OverlapIsShared, MovedHasStarted
<1>11. TrustKnown'
  <2>1. PastDebug(b)
    BY <1>1 DEF PastDebug
  <2> QED
    BY <1>1, <1>2, <2>1, OthersStand DEF CaInv, TrustKnown
<1>12. StampIsCa'
  BY <1>2, <1>7 DEF StampIsCa
<1>13. ObjectsFollowStamp'
  <2> SUFFICES ASSUME ~stampcut, NEW e \in Dirs
               PROVE  \/ objca'[e] \in {NoObjects, 0, stamp}
                      \/ \E o \in Builds : At(o, "clean")'
                      \/ stamp = 0 /\ \E o \in Builds : Awaits(o, e)'
    BY <1>2 DEF ObjectsFollowStamp, NoObjects
  <2>1. \/ objca[e] \in {NoObjects, 0, stamp}
        \/ \E o \in Builds : At(o, "clean")
        \/ stamp = 0 /\ \E o \in Builds : Awaits(o, e)
    BY DEF CaInv, ObjectsFollowStamp
  <2>2. \A o \in Builds : At(o, "clean") => At(o, "clean")'
    BY <1>1, OthersStand DEF At
  <2>3. CASE e # d
    <3>1. \A o \in Builds : Awaits(o, e) => Awaits(o, e)'
      BY <1>1, <1>9, <2>3, OthersStand
    <3> QED
      BY <1>4, <2>1, <2>2, <2>3, <3>1
  <2>4. CASE e = d
    <3>1. stamp = 0 => objca'[d] = 0
      BY <1>4, <1>5, <1>7
    <3>2. objca'[d] \in {objca[d], 0, stamp}
      BY <1>4, <1>7
    <3> QED
      BY <2>1, <2>2, <2>4, <3>1, <3>2
  <2> QED
    BY <2>3, <2>4
<1>14. OwnHasOwnCa'
  <2> SUFFICES ASSUME NEW o \in Builds, Own(o)' PROVE OwnCa(o)'
    BY DEF OwnHasOwnCa
  <2>1. Own(o) /\ OwnCa(o) /\ ~stampcut
    BY <1>8 DEF CaInv, OwnHasOwnCa, Own
  <2>2. \A f \in Files : Holds(f)' = Holds(f)
    BY <1>2 DEF Holds
  <2>3. CASE o = b
    <3>1. build[b].trust = (ca # 0)
      BY <1>1, <2>1, <2>3 DEF CaInv, TrustKnown, PastDebug, Own
    <3>2. objca[d] \in {NoObjects, 0, stamp} \/ stamp = 0
      <4>1. \A c \in Builds : ~At(c, "clean")
        <5> SUFFICES ASSUME NEW c \in Builds, At(c, "clean") PROVE FALSE
          OBVIOUS
        <5>1. c \in Active /\ c # b
          BY <1>1 DEF Active, At, Ends
        <5> QED
          BY <1>6, <2>1, <2>3, <5>1 DEF CaInv, OverlapIsShared, Own
      <4> QED
        BY <1>3, <2>1, <4>1 DEF CaInv, ObjectsFollowStamp
    <3>3. objca'[d] = ca
      BY <1>4, <1>5, <1>7, <2>1, <3>1, <3>2
    <3>4. \A e \in Dirs : HasRead(b, e)' => objca'[e] = ca
      <4> SUFFICES ASSUME NEW e \in Dirs, HasRead(b, e)' PROVE objca'[e] = ca
        OBVIOUS
      <4>1. CASE e = d
        BY <3>3, <4>1
      <4>2. CASE e # d
        BY <1>4, <1>9, <2>1, <2>3, <4>2 DEF OwnCa
      <4> QED
        BY <4>1, <4>2
    <3>5. \A f \in Files : (HasMade(b, f)' => HasMade(b, f)) /\ ~HasCopied(b, f)'
      BY <1>1 DEF HasMade, HasCopied, At
    <3> QED
      BY <1>2, <1>7, <2>1, <2>2, <2>3, <3>4, <3>5 DEF OwnCa
  <2>4. CASE o # b
    <3>1. /\ build'[o].at = build[o].at /\ Stamped(o)' = Stamped(o)
          /\ \A f : HasMade(o, f)' = HasMade(o, f) /\ HasCopied(o, f)' = HasCopied(o, f)
      BY <1>1, <2>4, OthersStand
    <3>2. (\A e \in Dirs : objca[e] = ca) /\ b \notin moved
      BY <1>6, <2>1, <2>4, OnlyLatestOwns
    <3>3. build[b].trust = (ca # 0)
      BY <1>1, <3>2 DEF CaInv, TrustKnown, PastDebug
    <3>4. objca'[d] = ca
      BY <1>3, <1>4, <1>5, <3>2, <3>3
    <3>5. \A e \in Dirs : objca'[e] = ca
      BY <1>4, <3>2, <3>4
    <3> QED
      BY <1>2, <2>1, <2>2, <3>1, <3>5 DEF OwnCa
  <2> QED
    BY <2>3, <2>4
<1>15. LatestIsDone'
  <2> SUFFICES ASSUME latest # NoBuild
               PROVE  /\ latest \in Builds /\ At(latest, "done")'
                      /\ Own(latest)' => \A o \in Active : o \notin moved /\ ~At(o, "clean")'
    BY <1>2, <1>6 DEF LatestIsDone
  <2>1. latest \in Builds /\ At(latest, "done") /\ latest # b
    BY <1>1 DEF CaInv, LatestIsDone, At
  <2>2. At(latest, "done")'
    BY <1>1, <1>2, <2>1 DEF At
  <2>3. Own(latest)' => Own(latest)
    BY <1>2, <1>8, <2>1
  <2>4. \A o \in Active : At(o, "clean")' => At(o, "clean")
    BY <1>1, <1>6, OthersStand DEF At
  <2> QED
    BY <2>1, <2>2, <2>3, <2>4 DEF CaInv, LatestIsDone
<1> QED
  BY <1>10, <1>11, <1>12, <1>13, <1>14, <1>15 DEF CaInv

(* A link carries the CA of its objects into the file.                     *)
LEMMA LinkKept ==
  ASSUME TypeOK, FirmwareAssumption, CaInv, NEW b \in Active, Walks(b), KeepsPace(b), Links(b),
         NEW e \in Files, build[b].file = e,
         UNCHANGED <<stamp, objca, tftp, ca, latest, shared, moved>>,
         Stamped(b)' \/ build'[b].at \in {"copy", "done"} => Stamped(b),
         \A d \in Dirs : HasRead(b, d)' => HasRead(b, d),
         \A f \in Files : HasMade(b, f)' => HasRead(b, Dir(e)) /\ (HasMade(b, f) \/ f = e),
         \A f \in Files : ~HasCopied(b, f)'
  PROVE  CaInv'
<1>a. b \in Builds /\ Dir(e) \in Dirs
  BY DEF Active, Dir, Dirs
<1>1. /\ OverlapIsShared' /\ MovedHasStarted' /\ TrustKnown' /\ StampIsCa'
      /\ ObjectsFollowStamp' /\ LatestIsDone'
      /\ \A o \in Builds : Own(o)' => Own(o)
  BY <1>a, WalkKept
<1>2. bin'[e].ca = objca[Dir(e)] /\ \A f \in Files \ {e} : bin'[f] = bin[f]
  BY DEF Links, TypeOK
<1>3. \A f \in Files \ {e} : Holds(f)' = Holds(f)
  BY <1>2 DEF Holds
<1>4. objca[Dir(e)] = ca => Holds(e)'
  BY <1>2 DEF Holds
<1>5. ASSUME NEW o \in Builds, Own(o)' PROVE OwnCa(o)'
  <2>1. Own(o) /\ OwnCa(o)
    BY <1>1, <1>5 DEF CaInv, OwnHasOwnCa
  <2>2. CASE o = b
    <3>1. \A f \in Files : HasMade(b, f)' => Holds(f)'
      <4> SUFFICES ASSUME NEW f \in Files, HasMade(b, f)' PROVE Holds(f)'
        OBVIOUS
      <4>1. CASE f = e
        BY <1>a, <1>4, <2>1, <2>2, <4>1 DEF OwnCa
      <4>2. CASE f # e
        BY <1>3, <2>1, <2>2, <4>2 DEF OwnCa
      <4> QED
        BY <4>1, <4>2
    <3> QED
      BY <2>1, <2>2, <3>1 DEF OwnCa
  <2>3. CASE o # b
    <3>1. /\ \A d \in Dirs : objca[d] = ca
          /\ \A f \in Files : Holds(f)
      BY <2>1, <2>3, OnlyLatestOwns
    <3>2. \A f \in Files : Holds(f)'
      BY <1>a, <1>3, <1>4, <3>1
    <3>3. /\ build'[o].at = build[o].at /\ Stamped(o)' = Stamped(o)
          /\ \A f : HasCopied(o, f)' = HasCopied(o, f)
      BY <1>a, <2>3, OthersStand DEF Walks
    <3> QED
      BY <2>1, <3>1, <3>2, <3>3 DEF OwnCa
  <2> QED
    BY <2>2, <2>3
<1> QED
  BY <1>1, <1>5 DEF CaInv, OwnHasOwnCa

(* The three links of a build, and that of a make left behind.             *)
LEMMA LinksKeepCa ==
  ASSUME TypeOK, FirmwareAssumption, CaInv, NEW b \in Builds,
         MakeBios(b) \/ MakeSnponly(b) \/ MakeIpxe(b) \/ OrphanLinks(b)
  PROVE  CaInv'
<1>a. build \in [Builds -> BuildState]
  BY DEF TypeOK
<1>1. CASE MakeBios(b)
  <2>1. /\ build[b].at = "make" /\ build[b].file = "undionly" /\ build'[b].at = "purge" /\ build'[b].file = build[b].file
        /\ build'[b].trust = build[b].trust
        /\ \A o \in Builds \ {b} : build'[o] = build[o]
    BY <1>a, <1>1 DEF MakeBios, At, BuildState, GoOn
  <2>2. /\ Links(b) /\ build[b].file \in Files
        /\ UNCHANGED <<stamp, objca, tftp, ca, latest, shared, moved, stampcut>>
    BY <1>1 DEF MakeBios, TreeButLink, ghosts, Files
  <2>3. Walks(b) /\ b \in Active
    BY <2>1 DEF Walks, Active, Ends, At, PastDebug
  <2>4. KeepsPace(b)
    BY <2>1, <2>2 DEF KeepsPace, Stamped, Awaits, HasRead, At, Dirs
  <2>5. /\ Stamped(b)' \/ build'[b].at \in {"copy", "done"} => Stamped(b)
        /\ \A d \in Dirs : HasRead(b, d)' => HasRead(b, d)
    BY <2>1 DEF Stamped, HasRead, At, Dirs
  <2>6. /\ \A f \in Files : HasMade(b, f)' => HasRead(b, Dir(build[b].file)) /\ (HasMade(b, f) \/ f = build[b].file)
        /\ \A f \in Files : ~HasCopied(b, f)'
    BY <2>1 DEF HasMade, HasCopied, HasRead, At, Files, Dir
  <2> QED
    BY <2>2, <2>3, <2>4, <2>5, <2>6, LinkKept
<1>2. CASE MakeSnponly(b)
  <2>1. /\ build[b].at = "make" /\ build[b].file = "snponly" /\ build'[b].at = "enter" /\ build'[b].file = "ipxe"
        /\ build'[b].trust = build[b].trust
        /\ \A o \in Builds \ {b} : build'[o] = build[o]
    BY <1>a, <1>2 DEF MakeSnponly, At, BuildState
  <2>2. /\ Links(b) /\ build[b].file \in Files
        /\ UNCHANGED <<stamp, objca, tftp, ca, latest, shared, moved, stampcut>>
    BY <1>2 DEF MakeSnponly, TreeButLink, ghosts, Files
  <2>3. Walks(b) /\ b \in Active
    BY <2>1 DEF Walks, Active, Ends, At, PastDebug
  <2>4. KeepsPace(b)
    BY <2>1, <2>2 DEF KeepsPace, Stamped, Awaits, HasRead, At, Dirs
  <2>5. /\ Stamped(b)' \/ build'[b].at \in {"copy", "done"} => Stamped(b)
        /\ \A d \in Dirs : HasRead(b, d)' => HasRead(b, d)
    BY <2>1 DEF Stamped, HasRead, At, Dirs
  <2>6. /\ \A f \in Files : HasMade(b, f)' => HasRead(b, Dir(build[b].file)) /\ (HasMade(b, f) \/ f = build[b].file)
        /\ \A f \in Files : ~HasCopied(b, f)'
    BY <2>1 DEF HasMade, HasCopied, HasRead, At, Files, Dir
  <2> QED
    BY <2>2, <2>3, <2>4, <2>5, <2>6, LinkKept
<1>3. CASE MakeIpxe(b)
  <2>1. /\ build[b].at = "make" /\ build[b].file = "ipxe" /\ build'[b].at = "copy" /\ build'[b].file = "undionly"
        /\ build'[b].trust = build[b].trust
        /\ \A o \in Builds \ {b} : build'[o] = build[o]
    BY <1>a, <1>3 DEF MakeIpxe, At, BuildState
  <2>2. /\ Links(b) /\ build[b].file \in Files
        /\ UNCHANGED <<stamp, objca, tftp, ca, latest, shared, moved, stampcut>>
    BY <1>3 DEF MakeIpxe, TreeButLink, ghosts, Files
  <2>3. Walks(b) /\ b \in Active
    BY <2>1 DEF Walks, Active, Ends, At, PastDebug
  <2>4. KeepsPace(b)
    BY <2>1, <2>2 DEF KeepsPace, Stamped, Awaits, HasRead, At, Dirs
  <2>5. /\ Stamped(b)' \/ build'[b].at \in {"copy", "done"} => Stamped(b)
        /\ \A d \in Dirs : HasRead(b, d)' => HasRead(b, d)
    BY <2>1 DEF Stamped, HasRead, At, Dirs
  <2>6. /\ \A f \in Files : HasMade(b, f)' => HasRead(b, Dir(build[b].file)) /\ (HasMade(b, f) \/ f = build[b].file)
        /\ \A f \in Files : ~HasCopied(b, f)'
    BY <2>1 DEF HasMade, HasCopied, HasRead, At, Files, Dir
  <2> QED
    BY <2>2, <2>3, <2>4, <2>5, <2>6, LinkKept
<1>4. CASE OrphanLinks(b)
  <2>1. /\ build[b].at = "orphan" /\ build[b].file \in Files /\ build'[b].at = "killed" /\ build'[b].file = build[b].file
        /\ build'[b].trust = build[b].trust
        /\ \A o \in Builds \ {b} : build'[o] = build[o]
    BY <1>a, <1>4 DEF OrphanLinks, At, BuildState, Go
  <2>2. /\ Links(b) /\ build[b].file \in Files
        /\ UNCHANGED <<stamp, objca, tftp, ca, latest, shared, moved, stampcut>>
    BY <1>4 DEF OrphanLinks, TreeButLink, ghosts, Files
  <2>3. Walks(b) /\ b \in Active
    BY <2>1 DEF Walks, Active, Ends, At, PastDebug
  <2>4. KeepsPace(b)
    BY <2>1, <2>2 DEF KeepsPace, Stamped, Awaits, HasRead, At, Dirs
  <2>5. /\ Stamped(b)' \/ build'[b].at \in {"copy", "done"} => Stamped(b)
        /\ \A d \in Dirs : HasRead(b, d)' => HasRead(b, d)
    BY <2>1 DEF Stamped, HasRead, At, Dirs
  <2>6. /\ \A f \in Files : HasMade(b, f)' => HasRead(b, Dir(build[b].file)) /\ (HasMade(b, f) \/ f = build[b].file)
        /\ \A f \in Files : ~HasCopied(b, f)'
    BY <2>1 DEF HasMade, HasCopied, HasRead, At, Files, Dir
  <2> QED
    BY <2>2, <2>3, <2>4, <2>5, <2>6, LinkKept
<1> QED
  BY <1>1, <1>2, <1>3, <1>4

(* A copy carries the CA of the file into the TFTP directory.              *)
LEMMA CopyKeepsCa ==
  ASSUME TypeOK, FirmwareAssumption, CaInv, NEW b \in Builds, Copy(b)
  PROVE  CaInv'
<1> DEFINE e == build[b].file
<1>1. /\ build[b].at = "copy" /\ build'[b].at = "copy" /\ build'[b].trust = build[b].trust
      /\ e \in {"undionly", "ipxe"}
      /\ build'[b].file = IF e = "undionly" THEN "ipxe" ELSE "snponly"
      /\ \A o \in Builds \ {b} : build'[o] = build[o]
  <2> DEFINE g == NextCopy[build[b].file]
  <2>1. /\ build[b].at = "copy" /\ e \in {"undionly", "ipxe"}
        /\ build' = [build EXCEPT ![b].file = g]
        /\ g = IF e = "undionly" THEN "ipxe" ELSE "snponly"
    BY DEF Copy, At, NextCopy
  <2> HIDE DEF g
  <2>2. build[b] \in BuildState
    BY DEF TypeOK
  <2>3. /\ build'[b] = [build[b] EXCEPT !.file = g]
        /\ \A o \in Builds \ {b} : build'[o] = build[o]
    BY <2>1 DEF TypeOK
  <2>4. build'[b].at = build[b].at /\ build'[b].trust = build[b].trust /\ build'[b].file = g
    BY <2>2, <2>3 DEF BuildState
  <2> QED
    BY <2>1, <2>3, <2>4
<1>2. UNCHANGED <<stamp, objca, bin, ca, latest, shared, moved, stampcut>>
  BY DEF Copy, treevars, ghosts
<1>3. /\ e \in Files /\ bin[e] # NoFile
      /\ tftp'[e] = bin[e] /\ \A f \in Files \ {e} : tftp'[f] = tftp[f]
  BY <1>1 DEF Copy, Files, TypeOK
<1>4. Walks(b) /\ b \in Active
  BY <1>1 DEF Walks, Active, Ends, At, PastDebug
<1>5. KeepsPace(b)
  BY <1>1, <1>2 DEF KeepsPace, Stamped, Awaits, HasRead, At
<1>6. /\ OverlapIsShared' /\ MovedHasStarted' /\ TrustKnown' /\ StampIsCa'
      /\ ObjectsFollowStamp' /\ LatestIsDone'
      /\ \A o \in Builds : Own(o)' => Own(o)
  BY <1>2, <1>4, <1>5, WalkKept
<1>7. \A f \in Files : Holds(f)' = Holds(f)
  BY <1>2 DEF Holds
<1>8. ASSUME NEW o \in Builds, Own(o)' PROVE OwnCa(o)'
  <2>1. Own(o) /\ OwnCa(o)
    BY <1>6, <1>8 DEF CaInv, OwnHasOwnCa
  <2>2. Holds(e)
    <3>1. CASE o = b
      <4>1. HasMade(b, e)
        BY <1>1 DEF HasMade
      <4> QED
        BY <1>3, <2>1, <3>1, <4>1 DEF OwnCa
    <3>2. CASE o # b
      BY <1>3, <1>4, <2>1, <3>2, OnlyLatestOwns
    <3> QED
      BY <3>1, <3>2
  <2>3. tftp'[e].ca = ca
    BY <1>3, <2>2 DEF Holds
  <2>4. CASE o = b
    <3>1. /\ \A d \in Dirs : HasRead(b, d)
          /\ \A f \in Files : HasMade(b, f)
      BY <1>1 DEF HasRead, HasMade
    <3>2. \A f \in Files : HasCopied(b, f)' => HasCopied(b, f) \/ f = e
      BY <1>1 DEF HasCopied, At
    <3>3. stamp = ca
      BY <1>1, <2>1, <2>4 DEF OwnCa
    <3>4. \A f \in Files : HasCopied(b, f)' => tftp'[f].ca = ca
      <4> SUFFICES ASSUME NEW f \in Files, HasCopied(b, f)' PROVE tftp'[f].ca = ca
        OBVIOUS
      <4>1. CASE f = e
        BY <2>3, <4>1
      <4>2. CASE f # e
        BY <1>3, <2>1, <2>4, <3>2, <4>2 DEF OwnCa
      <4> QED
        BY <4>1, <4>2
    <3> QED
      BY <1>2, <1>7, <2>1, <2>4, <3>1, <3>3, <3>4 DEF OwnCa
  <2>5. CASE o # b
    <3>1. /\ build'[o].at = build[o].at /\ Stamped(o)' = Stamped(o)
          /\ \A d : HasRead(o, d)' = HasRead(o, d)
          /\ \A f : HasMade(o, f)' = HasMade(o, f)
      BY <1>1, <2>5, OthersStand
    <3>2. \A f \in Files : tftp[f].ca = ca
      BY <1>4, <2>1, <2>5, OnlyLatestOwns
    <3>3. \A f \in Files : tftp'[f].ca = ca
      BY <1>3, <2>3, <3>2
    <3> QED
      BY <1>2, <1>7, <2>1, <3>1, <3>3 DEF OwnCa
  <2> QED
    BY <2>4, <2>5
<1> QED
  BY <1>6, <1>8 DEF CaInv, OwnHasOwnCa

(* The last copy: the build becomes the last one; if it owns anything, no  *)
(* other is active.                                                        *)
LEMMA CopyLastKeepsCa ==
  ASSUME TypeOK, FirmwareAssumption, CaInv, NEW b \in Builds, CopyLast(b)
  PROVE  CaInv'
<1>1. /\ build[b].at = "copy" /\ build[b].file = "snponly" /\ build'[b].at = "done"
      /\ \A o \in Builds \ {b} : build'[o] = build[o]
  BY DEF CopyLast, GoOn, At, TypeOK, BuildState
<1>2. UNCHANGED <<stamp, objca, bin, ca, shared, moved, stampcut>> /\ latest' = b
  BY DEF CopyLast, treevars
<1>3. /\ bin["snponly"] # NoFile /\ tftp'["snponly"] = bin["snponly"]
      /\ \A f \in Files : f # "snponly" => tftp'[f] = tftp[f]
  BY DEF CopyLast, TypeOK, Files
<1>4. b \in Active /\ Active' = Active \ {b} /\ Active \subseteq Builds
  BY <1>1 DEF Active, Ends
<1>5. /\ ~Stamped(b) /\ ~Stamped(b)' /\ ~PastDebug(b)'
      /\ \A d : ~Awaits(b, d) /\ ~Awaits(b, d)'
      /\ ~At(b, "clean") /\ ~At(b, "clean")'
  BY <1>1 DEF Stamped, PastDebug, Awaits, At
<1>6. OverlapIsShared' /\ MovedHasStarted'
  BY <1>1, <1>2, <1>4 DEF CaInv, OverlapIsShared, MovedHasStarted
<1>7. TrustKnown'
  BY <1>1, <1>2, <1>5, OthersStand DEF CaInv, TrustKnown
<1>8. StampIsCa'
  BY <1>1, <1>2, <1>5, OthersStand DEF CaInv, StampIsCa
<1>9. ObjectsFollowStamp'
  <2>1. \A o \in Builds : /\ At(o, "clean")' <=> At(o, "clean")
                          /\ \A d \in Dirs : Awaits(o, d)' <=> Awaits(o, d)
    BY <1>1, <1>5, OthersStand
  <2> QED
    BY <1>2, <2>1 DEF CaInv, ObjectsFollowStamp, NoObjects
<1>10. \A o \in Builds \ {b} : ~Own(o)'
  <2> SUFFICES ASSUME NEW o \in Builds \ {b}, Own(o)' PROVE FALSE
    OBVIOUS
  <2>1. o \in Active
    BY <1>2, <1>4 DEF Own
  <2> QED
    BY <1>2, <1>4, <2>1 DEF CaInv, OverlapIsShared, Own
<1>11. ASSUME Own(b)' PROVE OwnCa(b)' /\ \A o \in Active' : o \notin moved' /\ ~At(o, "clean")'
  <2>1. Own(b) /\ OwnCa(b)
    BY <1>2, <1>4, <1>11 DEF CaInv, OwnHasOwnCa, Own
  <2>2. /\ \A d \in Dirs : HasRead(b, d)
        /\ \A f \in Files : HasMade(b, f) /\ (f # "snponly" => HasCopied(b, f))
    BY <1>1 DEF HasRead, HasMade, HasCopied, At, Files
  <2>3. stamp = ca /\ (\A d \in Dirs : objca[d] = ca) /\ (\A f \in Files : Holds(f))
    BY <1>1, <2>1, <2>2 DEF OwnCa
  <2>4. \A f \in Files : f # "snponly" => tftp'[f].ca = ca
    BY <1>3, <2>1, <2>2 DEF OwnCa
  <2>5. tftp'["snponly"].ca = ca
    BY <1>3, <2>3 DEF Holds, Files
  <2>6. \A f \in Files : tftp'[f].ca = ca
    BY <2>4, <2>5
  <2>7. OwnCa(b)'
    <3>1. \A f \in Files : Holds(f)'
      BY <1>2, <2>3 DEF Holds
    <3> QED
      BY <1>2, <2>3, <2>6, <3>1 DEF OwnCa
  <2>8. Active' = {}
    BY <1>4, <2>1 DEF CaInv, OverlapIsShared, Own
  <2> QED
    BY <2>7, <2>8
<1>12. OwnHasOwnCa'
  BY <1>10, <1>11 DEF OwnHasOwnCa
<1>13. LatestIsDone'
  <2>1. At(b, "done")'
    BY <1>1 DEF At
  <2>2. latest' = b /\ (Own(latest)' <=> Own(b)')
    BY <1>2 DEF Own
  <2> QED
    BY <1>2, <1>11, <2>1, <2>2 DEF LatestIsDone, At
<1> QED
  BY <1>6, <1>7, <1>8, <1>9, <1>12, <1>13 DEF CaInv

(* A change of the CA: every build that has started is moved, and no build *)
(* may have stamped and still be making.                                   *)
LEMMA MoveCaKeepsCa ==
  ASSUME FirmwareAssumption, CaInv, MoveCa
  PROVE  CaInv'
<1>1. /\ UNCHANGED <<stamp, objca, bin, tftp, build, latest, shared>>
      /\ moved' = {b \in Builds : build[b].at \notin {"none", "queued"}}
      /\ ~stampcut' => ~stampcut /\ \A b \in Builds : ~Stamped(b)
  BY DEF MoveCa, treevars
<1>2. Active' = Active /\ Active \subseteq Builds
  BY <1>1 DEF Active
<1>3. \A b \in Builds : /\ Stamped(b)' = Stamped(b) /\ PastDebug(b)' = PastDebug(b)
                        /\ \A p : At(b, p)' = At(b, p)
  BY <1>1 DEF Stamped, PastDebug, At
<1>4. \A b \in Builds : b \notin moved' => build[b].at \in {"none", "queued"}
  BY <1>1
<1>5. OverlapIsShared' /\ MovedHasStarted'
  BY <1>1, <1>2 DEF CaInv, OverlapIsShared, MovedHasStarted
<1>6. TrustKnown'
  BY <1>3, <1>4 DEF TrustKnown, PastDebug
<1>7. StampIsCa'
  BY <1>1, <1>3 DEF StampIsCa
<1>8. ObjectsFollowStamp'
  <2> SUFFICES ASSUME ~stampcut', NEW d \in Dirs
               PROVE  objca[d] \in {NoObjects, 0, stamp}
    BY <1>1 DEF ObjectsFollowStamp, NoObjects
  <2>1. \A b \in Builds : ~At(b, "clean") /\ ~Awaits(b, d)
    BY <1>1 DEF At, Stamped, Awaits
  <2> QED
    BY <1>1, <2>1 DEF CaInv, ObjectsFollowStamp
<1>9. latest # NoBuild => latest \in Builds /\ At(latest, "done")
  BY DEF CaInv, LatestIsDone
<1>10. \A b \in Builds : ~Own(b)'
  <2> SUFFICES ASSUME NEW b \in Builds, Own(b)' PROVE FALSE
    OBVIOUS
  <2>1. build[b].at \in {"none", "queued"} /\ (b \in Active \/ b = latest)
    BY <1>1, <1>2, <1>4 DEF Own
  <2>2. b \notin Active
    BY <2>1 DEF Active, Ends
  <2>3. b = latest /\ latest # NoBuild
    BY <2>1, <2>2 DEF FirmwareAssumption
  <2> QED
    BY <1>9, <2>1, <2>3 DEF At
<1>11. OwnHasOwnCa'
  BY <1>10 DEF OwnHasOwnCa
<1>12. LatestIsDone'
  <2> SUFFICES ASSUME latest # NoBuild
               PROVE  latest \in Builds /\ At(latest, "done")' /\ ~Own(latest)'
    BY <1>1 DEF LatestIsDone
  <2>1. latest \in Builds /\ At(latest, "done") /\ latest' = latest
    BY <1>1, <1>9
  <2> QED
    BY <1>1, <1>10, <2>1 DEF At
<1> QED
  BY <1>5, <1>6, <1>7, <1>8, <1>11, <1>12 DEF CaInv

(* The firmwares of the TFTP directory trust the CA of today once a build  *)
(* that ran alone and under that CA has published them                     *)
(* (_tls_ca_changed_since_last_build).                                     *)
THEOREM CurrentCaIsTrusted == Spec => []TrustsCurrentCa
<1>1. Init => SweepIsCut /\ CaInv
  <2> SUFFICES ASSUME Init PROVE SweepIsCut /\ CaInv
    OBVIOUS
  <2>1. /\ \A b \in Builds : build[b].at = "none"
        /\ \A d \in Dirs : objca[d] = NoObjects
        /\ latest = NoBuild /\ moved = {}
    BY DEF Init
  <2>2. Active = {}
    BY <2>1 DEF Active, Ends
  <2>3. \A b \in Builds : ~Own(b) /\ ~Stamped(b) /\ ~PastDebug(b)
    BY <2>1, <2>2, FirmwareAssumption DEF Own, FirmwareAssumption, Stamped, PastDebug
  <2> QED
    BY <2>1, <2>2, <2>3 DEF SweepIsCut, At, CaInv, OverlapIsShared, MovedHasStarted, TrustKnown, StampIsCa,
                            ObjectsFollowStamp, OwnHasOwnCa, LatestIsDone
<1>2. IInv /\ SweepIsCut /\ CaInv /\ [Next]_vars => SweepIsCut' /\ CaInv'
  <2>1. ASSUME IInv, SweepIsCut, CaInv, NEW b \in Builds, Step(b) PROVE SweepIsCut' /\ CaInv'
    <3>1. TypeOK /\ FileInHand /\ FirmwareAssumption
      BY <2>1, FirmwareAssumption DEF IInv
    <3> QED
      BY <2>1, <3>1, SweepKept, QuietSteps, StartKeepsCa, StampKeepsCa, CleanKeepsCa, OrphanCleansKeepsCa,
         MakeReadsKeepsCa, LinksKeepCa, CopyKeepsCa, CopyLastKeepsCa DEF Step
  <2>2. ASSUME CaInv, UNCHANGED vars PROVE CaInv'
    <3>1. UNCHANGED <<stamp, objca, bin, tftp, ca, build, latest, shared, moved, stampcut>>
      BY <2>2 DEF vars, treevars, ghosts
    <3>2. Active' = Active /\ \A b : Own(b)' = Own(b) /\ \A p : At(b, p)' = At(b, p)
      BY <3>1 DEF Active, Own, At
    <3>3. \A b : /\ Stamped(b)' = Stamped(b) /\ PastDebug(b)' = PastDebug(b)
                 /\ \A d : HasRead(b, d)' = HasRead(b, d) /\ Awaits(b, d)' = Awaits(b, d)
                 /\ \A f : HasMade(b, f)' = HasMade(b, f) /\ HasCopied(b, f)' = HasCopied(b, f)
      BY <3>1 DEF Stamped, PastDebug, Awaits, HasRead, HasMade, HasCopied, At
    <3>4. OverlapIsShared' /\ MovedHasStarted' /\ TrustKnown' /\ StampIsCa'
      BY <2>2, <3>1, <3>2, <3>3 DEF CaInv, OverlapIsShared, MovedHasStarted, TrustKnown, StampIsCa
    <3>5. ObjectsFollowStamp'
      BY <2>2, <3>1, <3>2, <3>3 DEF CaInv, ObjectsFollowStamp, NoObjects
    <3>6. OwnHasOwnCa' /\ LatestIsDone'
      BY <2>2, <3>1, <3>2, <3>3 DEF CaInv, OwnHasOwnCa, OwnCa, Holds, LatestIsDone
    <3> QED
      BY <3>4, <3>5, <3>6 DEF CaInv
  <2>3. ASSUME SweepIsCut, MoveCa \/ UNCHANGED vars PROVE SweepIsCut'
    <3>1. build' = build /\ (stampcut => stampcut')
      <4>1. MoveCa => build' = build /\ (stampcut => stampcut')
        BY DEF MoveCa
      <4>2. UNCHANGED vars => build' = build /\ stampcut' = stampcut
        BY DEF vars, ghosts
      <4> QED
        BY <2>3, <4>1, <4>2
    <3> QED
      BY <2>3, <3>1 DEF SweepIsCut, At
  <2> QED
    BY <2>1, <2>2, <2>3, MoveCaKeepsCa, FirmwareAssumption DEF Next
<1>3. CaInv => TrustsCurrentCa
  <2> SUFFICES ASSUME CaInv, latest # NoBuild, ~stampcut, latest \notin shared, latest \notin moved,
                      NEW f \in Files
               PROVE  tftp[f].ca = ca
    BY DEF TrustsCurrentCa
  <2>1. latest \in Builds /\ At(latest, "done") /\ Own(latest)
    BY DEF CaInv, LatestIsDone, Own
  <2>2. HasCopied(latest, f)
    BY <2>1 DEF HasCopied
  <2> QED
    BY <2>1, <2>2 DEF CaInv, OwnHasOwnCa, OwnCa
<1> QED
  BY <1>1, <1>2, <1>3, Invariance, PTL DEF Spec
=============================================================================
