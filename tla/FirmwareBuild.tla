--------------------------- MODULE FirmwareBuild ---------------------------
(***************************************************************************)
(* The compilation of the iPXE firmwares (routers/firmware.py, the task    *)
(* compile_ipxe of tasks/jobs.py, services/ipxe_compiler.py) and the       *)
(* badges of its progress (services/firmware_build_ui.py).                 *)
(*                                                                         *)
(* All the builds share one source tree, one embed.ipxe, one stamp of the  *)
(* CA and the three files of the TFTP directory; nothing keeps two of them *)
(* apart.  A cancelled build loses its worker process at once, but the git *)
(* or the make it had started may go on: that is the state "orphan", or    *)
(* "sweep" for the make clean.                                             *)
(*                                                                         *)
(* A URL and a version of the CA are positive numbers; 0 is "none".        *)
(***************************************************************************)
EXTENDS Naturals, FiniteSets, Sequences

CONSTANTS
    Builds,         \* the requests to compile
    NoBuild,        \* not a build
    Urls,           \* the URLs a request may embed
    MaxCa,          \* versions of the CA are 1..MaxCa
    MaxMoves,       \* how often the CA is replaced or removed
    Workers         \* builds that run at once

ASSUME FirmwareAssumption ==
    /\ NoBuild \notin Builds
    /\ Urls \subseteq Nat \ {0} /\ MaxCa \in Nat /\ MaxMoves \in Nat /\ Workers \in Nat

VARIABLES
    cloned,     \* the source tree: "no", "partial" or "yes"
    headers,    \* the lines of config/*.h the patches look at
    embed,      \* the URL of embed.ipxe
    embedded,   \* directory -> URL of its embedded.o
    objca,      \* directory -> CA of its objects; NoObjects
    stamp,      \* the CA of .ipxe_manager_tls_ca_stamp
    ca,         \* the CA under ssl/
    bin,        \* file -> what the source tree holds
    tftp,       \* file -> what the TFTP directory holds
    build,      \* build -> [at, file, url, trust, made, got]
    report,     \* build -> the step and completed steps it last reported
    moves,      \* changes of the CA so far
    embedder,   \* the last build that wrote embed.ipxe
    crossed,    \* another build's make was under way when it purged since
    latest,     \* the last build that published all its files
    shared,     \* builds that ran beside another
    moved,      \* builds since whose start the CA changed
    stampcut    \* a stamp may not tell the CA of the objects: see Cut, MoveCa

treevars  == <<cloned, headers, embed, embedded, objca, stamp, bin>>
ghosts    == <<embedder, crossed, latest, shared, moved, stampcut>>
vars      == <<treevars, ca, tftp, build, report, moves, ghosts>>

Files     == {"undionly", "snponly", "ipxe"}
Dirs      == {"bin", "efi"}
Dir(f)    == IF f = "undionly" THEN "bin" ELSE "efi"
NoObjects == MaxCa + 1
NoFile    == [url |-> 0, ca |-> 0, https |-> FALSE]
NoReport  == [step |-> "", completed |-> {}]
Ends      == {"none", "queued", "done", "failed", "killed"}

(* general.h, console.h and local/general.h as they come from upstream.    *)
Upstream  == {"undef_console", "undef_framebuffer", "undef_https", "comment_https", "define_http"}

Init ==
    /\ cloned = "no" /\ headers = {} /\ embed = 0 /\ stamp = 0
    /\ embedded = [d \in Dirs |-> 0] /\ objca = [d \in Dirs |-> NoObjects]
    /\ ca \in {0, 1} \cap 0..MaxCa /\ moves = 0
    /\ bin = [f \in Files |-> NoFile] /\ tftp = [f \in Files |-> NoFile]
    /\ build = [b \in Builds |-> [at |-> "none", file |-> "", url |-> 0, trust |-> FALSE,
                                  made |-> {}, got |-> 0]]
    /\ report = [b \in Builds |-> NoReport]
    /\ embedder = NoBuild /\ crossed = FALSE /\ latest = NoBuild
    /\ shared = {} /\ moved = {} /\ stampcut = FALSE

Active      == {b \in Builds : build[b].at \notin Ends}
Left        == {"orphan", "sweep"}
Running     == {b \in Active : build[b].at \notin Left}
Making      == {b \in Builds : build[b].at = "make" \/ (build[b].at = "orphan" /\ build[b].file \in Files)}
At(b, s)    == build[b].at = s
Go(b, s)    == build' = [build EXCEPT ![b].at = s]
GoOn(b, s, made) == build' = [build EXCEPT ![b].at = s, ![b].made = @ \cup made]

(* self.update_state copies the list of completed steps.                   *)
Report(b, s, made) == report' = [report EXCEPT ![b] = [step |-> s, completed |-> made]]

----------------------------------------------------------------------------
(* The request and the start of the task.                                  *)

Submit(b) ==
    /\ At(b, "none")
    /\ \E u \in Urls : build' = [build EXCEPT ![b].at = "queued", ![b].url = u]
    /\ UNCHANGED <<treevars, ca, tftp, report, moves, ghosts>>

Start(b) ==
    /\ At(b, "queued") /\ Cardinality(Running) < Workers
    /\ IF cloned = "no"
       THEN Go(b, "clone") /\ Report(b, "git_clone", {}) /\ cloned' = "partial"
       ELSE Go(b, "pull") /\ Report(b, "git_pull", {}) /\ UNCHANGED cloned
    /\ shared' = IF Active = {} THEN shared ELSE shared \cup Active \cup {b}
    /\ UNCHANGED <<headers, embed, embedded, objca, stamp, bin, ca, tftp, moves,
                   embedder, crossed, latest, moved, stampcut>>

(* Whoever clones, the task or the git it left behind.                     *)
CloneEnds == cloned' = "yes" /\ headers' = Upstream

Clone(b) ==
    /\ At(b, "clone") /\ cloned = "partial" /\ CloneEnds
    /\ GoOn(b, "patch", {"git_clone"}) /\ Report(b, "patch_ipxe_config", {"git_clone"})
    /\ UNCHANGED <<embed, embedded, objca, stamp, bin, ca, tftp, moves, ghosts>>

(* git pull --ff-only succeeds only in a whole tree, and then leaves the   *)
(* patched headers as they are.                                            *)
Pull(b) ==
    /\ At(b, "pull") /\ cloned = "yes"
    /\ GoOn(b, "patch", {"git_clone", "git_pull"})
    /\ Report(b, "patch_ipxe_config", {"git_clone", "git_pull"})
    /\ UNCHANGED <<treevars, ca, tftp, moves, ghosts>>

----------------------------------------------------------------------------
(* The patches of the headers.                                             *)

PatchConsole(h) == h \ {"undef_console", "undef_framebuffer"}

(* The commented define is restored, or else one is added after HTTP's.    *)
PatchHttps(h) ==
    LET plain == h \ {"undef_https"} IN
    IF "comment_https" \in plain
    THEN (plain \ {"comment_https"}) \cup {"define_https", "local_https"}
    ELSE plain \cup {"define_https", "local_https"}
CanPatchHttps(h) == h \cap {"comment_https", "define_https", "define_http"} # {}

(* general.h undoes HTTPS for the BIOS platform; local/general.h has the   *)
(* last word.                                                              *)
SpeaksHttps(f) == "define_https" \in headers /\ (f = "undionly" => "local_https" \in headers)

Patch(b) ==
    /\ At(b, "patch") /\ headers' = PatchConsole(headers)
    /\ GoOn(b, "https", {"patch_ipxe_config"})
    /\ Report(b, "patch_ipxe_https", build[b].made \cup {"patch_ipxe_config"})
    /\ UNCHANGED <<cloned, embed, embedded, objca, stamp, bin, ca, tftp, moves, ghosts>>

Https(b) ==
    /\ At(b, "https") /\ CanPatchHttps(headers) /\ headers' = PatchHttps(headers)
    /\ Go(b, "debug") /\ Report(b, "patch_ipxe_debug", build[b].made)
    /\ UNCHANGED <<cloned, embed, embedded, objca, stamp, bin, ca, tftp, moves, ghosts>>

(* ipxe_tls_make_args: TRUST= is given when the CA is there now.           *)
Debug(b) ==
    /\ At(b, "debug")
    /\ build' = [build EXCEPT ![b].at = "stamp", ![b].trust = (ca # 0),
                              ![b].made = @ \cup {"patch_ipxe_debug", "patch_ipxe_https"}]
    /\ UNCHANGED <<treevars, ca, tftp, report, moves, ghosts>>

----------------------------------------------------------------------------
(* _tls_ca_changed_since_last_build: the stamp is written before make      *)
(* clean has run, and dropped without a clean when the CA is gone.         *)

StampClean_Never(old) == FALSE                  \* faulty: a new CA needs no clean

StampClean(old) == ca # 0 /\ old # 0 /\ old # ca

Stamp(b) ==
    /\ At(b, "stamp") /\ stamp' = ca
    /\ IF StampClean(stamp)
       THEN Go(b, "clean") /\ Report(b, "make_clean", build[b].made)
       ELSE Go(b, "embed") /\ Report(b, "embed", build[b].made)
    /\ stampcut' = (stampcut \/ (stamp # ca /\ b \in shared))
    /\ UNCHANGED <<cloned, headers, embed, embedded, objca, bin, ca, tftp, moves,
                   embedder, crossed, latest, shared, moved>>

(* make clean, in the task or after it.                                    *)
Cleaned ==
    /\ embedded' = [d \in Dirs |-> 0] /\ objca' = [d \in Dirs |-> NoObjects]
    /\ bin' = [f \in Files |-> NoFile]

Clean(b) ==
    /\ At(b, "clean") /\ Cleaned
    /\ GoOn(b, "embed", {"make_clean"}) /\ Report(b, "embed", build[b].made \cup {"make_clean"})
    /\ UNCHANGED <<cloned, headers, embed, stamp, ca, tftp, moves, ghosts>>

----------------------------------------------------------------------------
(* embed.ipxe is written, then read back.                                  *)

Embed(b) ==
    /\ At(b, "embed") /\ embed' = build[b].url /\ Go(b, "check")
    /\ embedder' = b /\ crossed' = FALSE
    /\ UNCHANGED <<cloned, headers, embedded, objca, stamp, bin, ca, tftp, report, moves,
                   latest, shared, moved, stampcut>>

Purged_Never(d) == embedded                     \* faulty: make alone will notice

Purged(d) == [embedded EXCEPT ![d] = 0]

PurgeCrosses(b, d) == crossed' = (crossed \/ \E o \in Making \ {b} : Dir(build[o].file) = d)
PurgeFrame == UNCHANGED <<cloned, headers, embed, objca, stamp, bin, ca, tftp, moves,
                          embedder, latest, shared, moved, stampcut>>

Check(b) ==
    /\ At(b, "check") /\ embed = build[b].url
    /\ embedded' = Purged("bin") /\ PurgeCrosses(b, "bin")
    /\ build' = [build EXCEPT ![b].at = "enter", ![b].file = "undionly", ![b].made = @ \cup {"embed"}]
    /\ Report(b, "compile_bios", build[b].made \cup {"embed"}) /\ PurgeFrame

----------------------------------------------------------------------------
(* make <dir>/<file> EMBED=embed.ipxe [TRUST=...].  It reads embed.ipxe    *)
(* when embedded.o is missing, and may do so when it is there.  It         *)
(* compiles the CA in when the objects are missing or when TRUST= came or  *)
(* went; a new CA under the same name goes unnoticed.                      *)

MakeReads(b) ==
    LET d == Dir(build[b].file) IN
    /\ At(b, "enter")
    /\ build[b].trust => ca # 0
    /\ \E u \in {embed} \cup ({embedded[d]} \ {0}) :
         build' = [build EXCEPT ![b].at = "make", ![b].got = u]
    /\ objca' = IF objca[d] = NoObjects \/ (objca[d] # 0) # build[b].trust
                THEN [objca EXCEPT ![d] = IF build[b].trust THEN ca ELSE 0]
                ELSE objca
    /\ UNCHANGED <<cloned, headers, embed, embedded, stamp, bin, ca, tftp, report, moves, ghosts>>

(* The link, in the task or after it; without its objects it fails.        *)
Links(b) ==
    LET f == build[b].file  d == Dir(build[b].file) IN
    /\ objca[d] # NoObjects
    /\ embedded' = [embedded EXCEPT ![d] = build[b].got]
    /\ bin' = [bin EXCEPT ![f] = [url |-> build[b].got, ca |-> objca[d], https |-> SpeaksHttps(f)]]

TreeButLink == UNCHANGED <<cloned, headers, embed, objca, stamp, ca, tftp, moves, ghosts>>

MakeBios(b) ==
    /\ At(b, "make") /\ build[b].file = "undionly" /\ Links(b)
    /\ GoOn(b, "purge", {"compile_bios"})
    /\ Report(b, "compile_efi", build[b].made \cup {"compile_bios"})
    /\ TreeButLink

PurgeEfi(b) ==
    /\ At(b, "purge") /\ embedded' = Purged("efi") /\ PurgeCrosses(b, "efi")
    /\ build' = [build EXCEPT ![b].at = "enter", ![b].file = "snponly"]
    /\ UNCHANGED report /\ PurgeFrame

MakeSnponly(b) ==
    /\ At(b, "make") /\ build[b].file = "snponly" /\ Links(b)
    /\ build' = [build EXCEPT ![b].at = "enter", ![b].file = "ipxe"]
    /\ UNCHANGED report /\ TreeButLink

MakeIpxe(b) ==
    /\ At(b, "make") /\ build[b].file = "ipxe" /\ Links(b)
    /\ build' = [build EXCEPT ![b].at = "copy", ![b].file = "undionly", ![b].made = @ \cup {"compile_efi"}]
    /\ Report(b, "copy", build[b].made \cup {"compile_efi"})
    /\ TreeButLink

NextCopy == [undionly |-> "ipxe", ipxe |-> "snponly"]

(* shutil.copy2, file by file; a file another build's clean removed stops  *)
(* the task.                                                               *)
Copy(b) ==
    LET f == build[b].file IN
    /\ At(b, "copy") /\ f \in DOMAIN NextCopy /\ bin[f] # NoFile
    /\ tftp' = [tftp EXCEPT ![f] = bin[f]]
    /\ build' = [build EXCEPT ![b].file = NextCopy[f]]
    /\ UNCHANGED <<treevars, ca, report, moves, ghosts>>

CopyLast(b) ==
    /\ At(b, "copy") /\ build[b].file = "snponly" /\ bin["snponly"] # NoFile
    /\ tftp' = [tftp EXCEPT !["snponly"] = bin["snponly"]]
    /\ GoOn(b, "done", {"copy"}) /\ Report(b, "", build[b].made \cup {"copy"})
    /\ latest' = b
    /\ UNCHANGED <<treevars, ca, moves, embedder, crossed, shared, moved, stampcut>>

----------------------------------------------------------------------------
(* Failures and cancellations.                                             *)

(* A build that has written the stamp and may have objects to make.        *)
Stamped(b) == build[b].at \in {"clean", "embed", "check", "enter", "make", "purge"}

Cut(b) == stampcut' = (stampcut \/ Stamped(b))
CutFrame == UNCHANGED <<headers, embed, embedded, objca, stamp, bin, ca, tftp, moves,
                        embedder, crossed, latest, shared, moved>>

(* A command fails, a patch raises, a file is absent, or the soft time     *)
(* limit strikes.  git removes what it cloned unless it was killed.        *)
Fails(b) ==
    /\ b \in Running
    /\ cloned' \in IF At(b, "clone") THEN {"no", "partial"} ELSE {cloned}
    /\ Go(b, "failed") /\ report' = [report EXCEPT ![b] = NoReport] /\ Cut(b) /\ CutFrame

(* firmware_cancel, or the hard time limit: the worker process dies; the   *)
(* git or make it waits for does not.  The result is forgotten.            *)
Kill(b) ==
    /\ b \in Running \/ At(b, "queued")
    /\ \/ build[b].at \in {"clone", "make"} /\ Go(b, "orphan")
       \/ At(b, "clean") /\ Go(b, "sweep")
       \/ build[b].at \notin {"clone", "make", "clean"} /\ Go(b, "killed")
    /\ report' = [report EXCEPT ![b] = NoReport] /\ Cut(b) /\ UNCHANGED cloned /\ CutFrame

(* The command left behind ends its work, or dies of its closed pipe.      *)
OrphanClones(b) ==
    /\ At(b, "orphan") /\ build[b].file = "" /\ cloned = "partial" /\ CloneEnds /\ Go(b, "killed")
    /\ UNCHANGED <<embed, embedded, objca, stamp, bin, ca, tftp, report, moves, ghosts>>

OrphanLinks(b) ==
    /\ At(b, "orphan") /\ build[b].file \in Files /\ Links(b) /\ Go(b, "killed")
    /\ UNCHANGED report /\ TreeButLink

OrphanCleans(b) ==
    /\ At(b, "sweep") /\ Cleaned /\ Go(b, "killed")
    /\ UNCHANGED <<cloned, headers, embed, stamp, ca, tftp, report, moves, ghosts>>

OrphanDies(b) ==
    /\ build[b].at \in Left /\ Go(b, "killed")
    /\ UNCHANGED <<treevars, ca, tftp, report, moves, ghosts>>

(* The operator installs another CA, or removes it (deploy/).              *)
MoveCa ==
    /\ moves < MaxMoves /\ moves' = moves + 1
    /\ ca' \in 0..MaxCa \ {ca} /\ moved' = {b \in Builds : build[b].at \notin {"none", "queued"}}
    /\ stampcut' = (stampcut \/ \E b \in Builds : Stamped(b))
    /\ UNCHANGED <<treevars, tftp, build, report, embedder, crossed, latest, shared>>

Step(b) ==
    \/ Submit(b) \/ Start(b) \/ Clone(b) \/ Pull(b) \/ Patch(b) \/ Https(b) \/ Debug(b)
    \/ Stamp(b) \/ Clean(b) \/ Embed(b) \/ Check(b) \/ MakeReads(b) \/ MakeBios(b) \/ PurgeEfi(b)
    \/ MakeSnponly(b) \/ MakeIpxe(b) \/ Copy(b) \/ CopyLast(b)
    \/ Fails(b) \/ Kill(b)
    \/ OrphanClones(b) \/ OrphanLinks(b) \/ OrphanCleans(b) \/ OrphanDies(b)

Next == MoveCa \/ \E b \in Builds : Step(b)
Spec == Init /\ [][Next]_vars

----------------------------------------------------------------------------
(* build_step_badges.                                                      *)

UiSteps == <<"git_clone", "git_pull", "embed", "patch_ipxe_config", "compile_bios", "compile_efi", "copy">>

Normalized(completed) ==
    completed \cup IF "patch_ipxe_https" \in completed THEN {"patch_ipxe_config"} ELSE {}

CurrentUiStep(step) == IF step = "patch_ipxe_https" THEN "patch_ipxe_config" ELSE step

Passed_Current(i, step) ==                      \* faulty: the current step counts as done
    \E j \in DOMAIN UiSteps : UiSteps[j] = CurrentUiStep(step) /\ i <= j

(* The steps listed before the current one are shown done.                 *)
Passed(i, step) == \E j \in DOMAIN UiSteps : UiSteps[j] = CurrentUiStep(step) /\ i < j

BadgesDone(b) ==
    {UiSteps[i] : i \in {i \in DOMAIN UiSteps :
        \/ UiSteps[i] \in Normalized(report[b].completed)
        \/ Passed(i, report[b].step)}}

----------------------------------------------------------------------------
(* Properties.                                                             *)

Published  == [url : Urls \cup {0}, ca : 0..MaxCa, https : BOOLEAN]
Places     == Ends \cup {"clone", "pull", "patch", "https", "debug", "stamp", "clean", "embed", "check",
                         "enter", "make", "purge", "copy"} \cup Left
Completed  == {"git_clone", "git_pull", "patch_ipxe_config", "patch_ipxe_https", "patch_ipxe_debug",
               "make_clean", "embed", "compile_bios", "compile_efi", "copy"}
BuildState == [at : Places, file : Files \cup {""}, url : Urls \cup {0}, trust : BOOLEAN,
               made : SUBSET Completed, got : Urls \cup {0}]

(* Every variable has its type.                                            *)
TypeOK ==
    /\ cloned \in {"no", "partial", "yes"} /\ embed \in Urls \cup {0}
    /\ headers \subseteq Upstream \cup {"define_https", "local_https"}
    /\ embedded \in [Dirs -> Urls \cup {0}] /\ objca \in [Dirs -> 0..NoObjects]
    /\ stamp \in 0..MaxCa /\ ca \in 0..MaxCa /\ moves \in 0..MaxMoves
    /\ bin \in [Files -> Published] /\ tftp \in [Files -> Published]
    /\ build \in [Builds -> BuildState]
    /\ embedder \in Builds \cup {NoBuild} /\ latest \in Builds \cup {NoBuild}

(* When the last build that wrote embed.ipxe has ended well, the three     *)
(* firmwares of the TFTP directory carry its URL and speak HTTPS, whatever *)
(* other builds did, failed or left behind -- unless another make was      *)
(* under way when it purged. _purge_embed_build_artifacts is there for     *)
(* this: make does not always see that embed.ipxe changed.                 *)
FirmwareIsLastEmbedded ==
    \A b \in Builds :
        embedder = b /\ ~crossed /\ At(b, "done") =>
            \A f \in Files : tftp[f].url = build[b].url /\ tftp[f].https

(* The firmwares of a build that ran alone trust the CA of today, unless   *)
(* it moved after the build started, or some build wrote the stamp and did *)
(* not finish -- the next one then sees no change and keeps old objects,   *)
(* for the stamp is written before make clean -- or the CA moved while a   *)
(* build was making: when the first CA is put back, its stamp still stands *)
(* and the objects of the other one are kept.                              *)
TrustsCurrentCa ==
    latest # NoBuild /\ ~stampcut =>
        \/ latest \in shared \cup moved
        \/ \A f \in Files : tftp[f].ca = ca

(* A patch, compilation or copy whose badge the administrator sees as done *)
(* has been completed.  The other badges may be shown early: the two of    *)
(* git stand for each other, and FIRMWARE_UI_STEPS lists embed before the  *)
(* patches although compile_ipxe_firmware writes embed.ipxe after them.    *)
BadgesHonest ==
    \A b \in Builds :
        BadgesDone(b) \ {"git_clone", "git_pull", "embed"} \subseteq build[b].made
=============================================================================
