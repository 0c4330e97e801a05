# ipxe-manager in TLA+

Models of the parts of ipxe-manager where several actors meet: web handlers, Celery
tasks, crashes and restarts, the SQLite database and the file trees served to PXE
clients. Each module is translated from the Python source; `PROJECT.json` maps every
definition to the lines it stands for, lists the runs, and lists the hazards the
properties are aimed at.

## The system

Two uvicorn processes (`deploy/ipxe-manager.service`) and one Celery worker with a pool
of two (`deploy/celery-worker.service`, `deploy/setup.sh`) share a SQLite database (WAL,
foreign keys on, 30 s busy timeout), a Redis broker and three trees on disk: the ISO
files, `http/boot/<os>/<slug>/`, and `http/menus/`. Both services restart always. Celery
acknowledges a message when its task starts. There is no lock outside SQLite's own.

| Component | State | Operations | Hard behaviour | What makes it correct |
|---|---|---|---|---|
| ISO versions and extraction jobs (`routers/isos.py`, `routers/jobs.py`, `tasks/jobs.py`, `main.py`) | `iso_versions`, `uploads`, ISO files, queue, pool | upload, extract, purge switch, stop, stop all, delete, manual boot file, start-up cleanup, the task | handlers act while the task runs; worker and web crash apart; row ids come back | a version that shows "extracting" has a job to stop; no job is active without a task; success is only recorded for the job's own version |
| Boot trees (`iso_extractor.py`, `os_type_extract_plan.py`, `boot_scanner.py`, `boot_files.py`) | `http/boot`, `boot_entries`, ISO directories | upload, extract, wipe and retry, manual file, scan, delete, clean up after a failure | two labels share a slug; a label may look like an id; a wipe during another job | what a ready version's entry names is on disk; no stray files; an entry names files of its own version; an image yields what its menu entry needs |
| Publication of the menus (`menu_generator.py`, callers in all routers) | `<os>.ipxe`, `<os>_autres.ipxe`, `menu.ipxe` | queue a regeneration, regenerate everything, edit a menu by hand | commit and queueing are two steps; regenerations overlap; per-OS failures are skipped | links lead to files that exist; a requested change is published and does not go back |
| Automatic configurations (`configs.py`, `autoconfig_publish.py`, `esxi_autoconfig.py`, `config_scanner.py`) | `autoconfigs`, `active_autoconfig_id`, files under `configs/`, the seed under `boot/` | create, edit, delete, activate, clear, scan | database and files change in several steps, in two processes | what boots is the active configuration; a configuration keeps a file of its own |
| Proxmox injection (`proxmox_autoinstall.py`, its task) | upload row, temporary and published `netboot/*.iso` | queue, inject, publish, fail | the task is sent before its row is committed; two tasks share a temporary name | the published image is the newest, whole, with the present answer; the row leaves "processing" |
| WinPE masters (`winpe_master_store.py`, `winpe_installs.py`) | `install.wim` and its part file, `masters.json`, upload row | upload through a part file, upload in place, move by a task, delete, regenerate the scripts | shared part name, unlocked catalogue | a done job moved its own bytes; nobody is served half an image; the catalogue speaks of the image that is there |
| WinPE drivers and language packs (`winpe_drivers.py`, `winpe_language_packs.py`) | folders, staged archives, `drivers.json`, `language-packs.json` | upload, unpack, list, rebuild | ids of staged files come back, unlocked catalogues | an archive waits for its task; what is on disk is listed, under its own label or language |
| WinPE scripts (`winpe_scripts.py`, `winpe_ps_lib.py`) | a client's disk, its answer file; `winpe_startnet_patched_at` | partition, mount, choose, apply, edit the answer file, inject, restart; regenerate | steps that fail and are taken for done; answer files of any shape | a machine restarts with what was chosen; the answer file keeps what the master had; scripts that count as generated are current |
| Firmware build (`ipxe_compiler.py`, `firmware.py`, `firmware_build_ui.py`) | source tree, `embed.ipxe`, CA stamp, objects, TFTP files | build, fail, cancel, CA moved | one tree for all builds; a killed task leaves its make behind | firmwares carry the URL embedded last and trust the present CA; badges tell the truth |
| Settings, OS types | `os_types`, `app_settings` | create, edit, reorder, delete | no regeneration on some of them | order and visibility are consistent |
| Users (`admin.py`, `user_bootstrap.py`, `ownership.py`) | `users`, owners | create, delete, bootstrap | check then act | one administrator remains |
| Database, disk guard | schema, free space | migrate, check | two processes migrate; check before use | see "Not modelled" |
| Supervision, authentication, locale, TLS, templates | – | – | no shared state worth a model | not modelled |

## Modules

### Versions, jobs and menus

`IsoJobs` is the core. One action per handler or per transaction of the task.

| Variable | Code |
|---|---|
| `vstatus`, `isoName`, `purge` | `IsoVersion.status`, `iso_path` (its base name), `delete_iso_after_next_extract` |
| `isoFile` | the versions whose `iso_path` names a file on disk |
| `ustatus`, `link`, `jobFile`, `taskId` | `Upload.status`, `iso_version_id`, `filename`, `task_id` of the rows of type "extraction" |
| `target`, `pc`, `sawPurge` | arguments and progress of the task, and the attribute values its session holds |
| `revoking`, `startDue` | a SIGKILL on its way; a web process that systemd owes |
| `lost`, `reused` | history: jobs whose task died or could not record its end; ids given to a new row while an old job aims at them |

The task is split where another actor can act: before its first commit, during the
extraction, between the unlink of the ISO and the commit of the result, during the
post-processing, and before the commit of its exception handler. A commit by id that
matches no row fails, as SQLAlchemy's does. A version's id is the largest in use plus
one, as SQLite's is, so that the queued job of a deleted version can meet a new one.
The session's reload after the first commit is part of that step. What the extraction
puts in the boot directory is in `BootTree` and `Extraction`.

`MenuPublication` models the commit of a change and the queueing of a regeneration as
two steps, and `regenerate_all` as a loop over the OS types it read at the start: read
and render a page, write it, write or remove its script menu, and `menu.ipxe` last.
Two or more regenerations interleave at these points. What a page shows is a revision
number that every change of it increments, the revision of the site-wide settings, and
its links; so "out of date" is "differs from what the database asks for now". The
regeneration an extraction runs in its own process is a request that this process takes.
The history variable `why` says for each page why it may be out of date for good, and
`failed` the OS types whose last generation raised. The three files of Ubuntu count as
one page, and `_write_menu` as one step.

`MenuView` is the abstract specification `MenuPublication` implements: what a PXE client
is promised page by page. `View` in `MenuPublication` is the refinement mapping.

### Boot trees

`BootTree` has the directories shared by slug, the ISO directories and the rows that point
to them. One actor is one request or task, its `pc` says how far it is: an upload (row and
write lock first, then ISO, files, commit), an extraction (tool, wipe and second tool,
finders, purge of the ISO, commit), a boot file added by hand, a scan (one directory at a
time, then the commit), a deletion (files, then row), the clean-up after an upload that
failed. A step ends where another process can see it: at a file, a commit, a time limit, a
crash. A tool that fails is one step with what follows from it, the wipe or the end of
the task, and a scan or a deletion whose process dies has failed: nobody sees a difference. `memory` is what a scan has read of the rows and is about to write: its commit
changes only the paths that differ from what it read, as SQLAlchemy does; an entry is
identified with its version, so that the ids of `boot_entries` are not told apart. A directory is a number: `n` is the one named by the
id `n`, which deletions and scans also visit, 0 one whose name is no number. A file holds the
version whose bytes it has, `Half` while it is written. `hurt`, `left`, `isoTaken` and
`outlived` are history: what the properties excuse must have happened, in that directory or
to that id. `outlived` is forgotten when the id is given again, but only if no other actor still
aims at it. Behaviours start in every consistent state of the versions.

`Extraction` takes one step per extraction, scan or change of the OS type's plan, and looks
inside the tree instead: `BootFinders` translates the searches per distribution (which may
find several candidates: an operator returns the set of possible results), `EsxiBoot` the
lower-case tree, `boot.cfg` and preload list of ESXi, `ExtractPlan` the plan an administrator
may attach to an OS type. The text of a `boot.cfg` (`CfgText`) belongs to the file it came
with, so one left by an earlier image keeps its own. A file is its directories, its name split at "-", its suffix, its
case, its size and its origin.

### Automatic configurations

`ConfigStore` follows requests in several processes through rows, files and seed; inside a
web process a route is not interrupted. Another extraction of the version and a regeneration
of the menus are requests too, for both write what was published (`Unpack`, `Restore`; under
ESXi `BootTruncate` and `BootRewrite`). `taken` is history: what an extraction has taken of
the published seed and nobody has put back. `os` picks one of four families whose handlers differ:
Ubuntu, Proxmox, ESXi and custom types. A content is the number of the push that carried it, and `seed`
what a booting machine is given. `ProxmoxInject` extends it with what every Proxmox push sends:
the `uploads` row (flushed, the task sent, then committed), the answer the task finds when it
runs, the temporary image that all tasks write under one name, and the rename. An image is an
inode, so a task that renames another's image is seen to. `Refused` gives the sets of contents
the assistant may refuse, of which a behaviour picks one.

### WinPE

`MasterStore` has the files of the masters, `masters.json`, the rows and tasks of the uploads, and
the regeneration of the scripts that list the masters. `DriverStore` does the same for the archives of
drivers and `drivers.json`, `PackStore` for the language packs and their list; `CabNames` is
how the language of a pack is read in its file name. Each catalogue is loaded, truncated and written by
separate steps. `WinpeStores` puts the last two side by side: they share nothing, and
`store` says which one a behaviour follows. In `MasterStore`, `unshown` records that a
regeneration may be missing; a move without a part file sets it too, as its task asks for none.

`WinpeClient` is the machine that boots: `startnet.cmd`, then `deploy.ps1` and its wizard, up
to the restart, each external command succeeding or failing. `Stripped` is what the library leaves
of a name, `Refused` what it refuses then. `Unattend` holds the edits of the answer file
as operators on documents (passes and components, duplicated or not).

### Firmware build

`FirmwareBuild` is the task step by step, as its progress reports name the steps. All builds share the tree,
`embed.ipxe`, the stamp of the CA, the objects of a directory (`embedded`, `objca`) and the
TFTP files. A cancelled build dies at once; the git or make it waited for may finish as an
"orphan", its make clean as a "sweep". What `make` leaves alone when `embed.ipxe` or the CA changes is nondeterministic or
stale, as make is external. `embedder`, `crossed`, `latest`, `shared`, `moved` and
`stampcut` are history for the properties (`stampcut`: a build was cut between its stamp and its
last object, or the CA moved meanwhile); `BadgesDone` is the progress page.

### Instances, proofs

The `MC...` modules hold the values and symmetry sets of the runs; the `..._proofs` modules the
proofs about `IsoJobs`, `MenuPublication`, `FirmwareBuild`, `BootTree`, `MasterStore`,
`ProxmoxInject` (with `ConfigStore`), `WinpeStores` (`DriverStore`, `PackStore` and `CabNames`) and
`Extraction` (with `ExtractPlan`, `EsxiBoot` and `BootFinders`).
Operators marked "faulty" are the bugs the properties are tested against.

## Runs

| Run | Shows |
|---|---|
| `iso_jobs` | `TypeOK`, `ExtractingHasActiveJob`, `ActiveJobIsLive`, `DoneForOwnVersion` for two ids, two jobs, a pool of two. Two ids let a job resolve to a version that is not its own and let an id be reused; two jobs let extractions of one version overlap, or of two. |
| `iso_jobs_live` | `EveryJobSettles` under `FairSpec`, with one id, two jobs and a pool of one, so that a job waits for another. |
| `menu_publication` | `TypeOK`, `CentralLinksExist`, `FreshUnlessExcused` with two regenerations, one OS type that can be created and deleted besides `menu.ipxe`, and two changes in all, enough for a script menu to come and go or for settings and a page to change between two reads. Several OS types, and more regenerations, are left to the proof. |
| `menu_publication_live` | `ServesView`: the refinement of `MenuView`, its promise included, under `FairSpec`. |
| `boot_tree` | `ReadyHasFiles`, `NoStrayFiles`, `IsoOnDisk`, `EntryInOwnDir`: three actors of any kind, two versions, directories 0, 1 and 2. Three actors allow a victim, an intruder and a deletion that frees an id; starting from every consistent state stands for what earlier actors did; a scan beside a deletion and a third actor is where a directory goes between the walk and the commit. One role is enough, because no handler relates two roles except the finders, which `Extraction` has. |
| `upload_discard` | violated: `DiscardsOwnIso`. The comment of `routers/isos.py:339` says that a failed upload discards what it wrote; it discards by id, and the id may belong to another upload by then. |
| `extraction` | `RecordedIsOnDisk`, `BootableUnlessLenient`, `EsxiModulesInOrder`, `ScanKeepsExtraction`: fourteen OS types with and without a plan, every image that lacks a few of the files its searches can confuse, two steps (so an extraction over the rest of another, or a scan of it); for ESXi images with three `boot.cfg` of different texts, or with none of their own. |
| `config_publish` | `TypeOK`, `SeedOfActive`, `CustomFileIsOwn`, `IsoHoldsAnswer`, `ProcessingIsExplained`, `NeverAnOlderImage`: two processes, a family at a time, with two to four pushes and three to five requests by family, extractions and regenerations among them, two injections and two workers. Two requests and two tasks are what overlaps; the others prepare the files, rows and active configuration they meet. |
| `winpe_masters` | `ProcessingHasTask`, `DoneMovedItsOwn`, `ServedWhole`, `EntryOfOwnImage`, `QuietScriptsCurrent`: two uploads, a third operation that deletes or asks for scripts, two masters, a pool of two. |
| `winpe_stores` | `ArchiveAwaitsItsTask`, `DoneIsListed` for two uploads of drivers and a reader, with a folder somebody copied by hand and two folders of one default label; `PacksListed`, `PacksWhole`, `FiledUnderItsLanguage` for two uploads of up to two packs and a rebuild, with names the search can misread. |
| `winpe_client` | `RebootsAsChosen`, `MasterKept`, `OneOfEach`, `OneLanguage` for every answer file of up to three `<settings>` out of five that duplicate passes, components, accounts, logons and languages, two languages, five names: one of the master's, one that is stripped to it, one stripped to another, one refused, one of which nothing is left. |
| `firmware_build` | `FirmwareIsLastEmbedded`, `TrustsCurrentCa`, `BadgesHonest` for two builds, two URLs, two workers, a CA that moves once: enough for a build to meet one that runs, failed, was cancelled or left a make behind. |

A property that excuses a case names it, and the history variable behind the excuse is set
only by the step that causes it. An excuse that is a hazard itself shows that the code meets it,
and does not catch it: the notes of the hazards in `PROJECT.json` say for each what is left to catch. `CHECK_DEADLOCK FALSE` is said only of runs whose actors are
finite in number (`boot_tree`, `extraction`, `firmware_build`); the other bounded runs end in
a step that requires everybody to have finished, so a stuck actor would show.
Type invariants are checked where they are proved, and in `config_publish`, whose
foreign keys make one that can fail.

Every property of a passing run has a mutant of the code in `PROJECT.json` that breaks it.

Fairness. `IsoJobs`: a job's own next step (`Progress`) is weakly fair, because tasks have
time limits and the pool takes the next message; the start of a web process is fair only
when one is due (`Restart=always`). Stops, crashes and operators are not. A job killed in
the pool stays active until a web process starts: `EveryJobSettles` excepts it through
`lost`. `MenuPublication`: each regeneration and the queueing are weakly fair, and
administrators do not edit menus by hand for ever. The other runs check safety only: WinPE uploads,
injections and builds have no retry or timer that would make a promise of progress, and their
properties say instead that a row left in "processing" is explained.

Constants such as `MaxVersion`, `MaxChanges` and `MaxPending` are bounds for TLC; the proofs do
not fix them.

## Proofs

`IsoJobs_proofs` proves, for every number of ids, jobs, names and pool processes, that
`IInv` is inductive (`Invariance`), and from it `TypeCorrect`, `ExtractingIsOwned`,
`NoForgottenJob` and `DoneIsOwn`, which state four of the properties of `iso_jobs`. Only
`IsoJobsAssumption` is assumed.

`ExtractingHasActiveJob` is not inductive: a job that turns its version to "extracting"
must still be linked to it. `IInv` adds that a job not yet created has blank fields
(`Created`), that a link always names the target (`LinkIsTarget`), that a live job has lost
its link only if its version is absent or its id was reused (`LiveIsLinked`), and that a
job past its result commit is neither "pending" nor "processing" (`MenusSettled`). The
preservation proof has one step per action of `Next`.

`MenuPublication_proofs` proves, for every number of OS types, regenerations and changes,
`TypeCorrect`, `NoBrokenLink` (`CentralLinksExist`), `NoForgottenPage` (`FreshUnlessExcused`)
and `ServesViewSafely`: initial states and steps map to those of `MenuView`. Only
`MenuPublicationAssumption` is assumed. The inductive invariant `IInv` has two parts. For the
links of `menu.ipxe`: a regeneration keeps to the order of its loop (`PageInHand`) and every
OS type it listed is to do, written or failed (`WorkedThrough`). For fresh pages:
`FreshUnlessExcused` speaks of moments when nothing runs, so `KeptIsComing` says at any moment
that a kept page is current, or a regeneration is owed or queued, or one that runs `Brings`
it: that regeneration started with the settings of now and has not read the page yet, or it
holds what the database asks for now and nobody has overwritten what it wrote.

`FirmwareBuild_proofs` proves, for every number of builds, workers, URLs and changes of the CA,
`TypeCorrect`, `LastEmbeddedIsServed` (`FirmwareIsLastEmbedded`), `BadgesAreHonest`
(`BadgesHonest`) and `CurrentCaIsTrusted` (`TrustsCurrentCa`). Only `FirmwareAssumption` is
assumed. Three invariants are proved one upon the other.
- `IInv`, for the URL. The property speaks of a build that is done; `IInv` says what is true on
  the way: a build handles a file only from its first make on (`FileInHand`), one git fills the
  tree at a time and nobody patches or compiles in a tree that is not whole (`TreeWhole`),
  headers once patched stay so (`HttpsStays`), `embed.ipxe` holds its author's URL
  (`EmbedIsEmbedders`), and what that author has purged, compiled and copied carries the URL, as
  will whatever another make is about to link there (`Pure`). `PureStep` says what `Pure` asks of
  a step, so each action needs only its own effect.
- `Badges`: what a build has reported is what it has passed (`Told`).
- `CaInv`, for the CA: the stamp is the present CA while a build relies on it (`StampIsCa`),
  objects of another CA are about to be removed or recompiled (`ObjectsFollowStamp`), and a build
  that ran alone and under one CA has objects and files of that CA as far as it got
  (`OwnHasOwnCa`), also after its end while it is the latest (`LatestIsDone`). A make clean that
  outlives its build owns nothing, for that build had written the stamp (`SweepIsCut`).

`BootTree_proofs` proves, for every number of versions, labels, roles and actors,
`ReadyVersionsHaveTheirFiles`, `NoFilesStray`, `IsosStayOnDisk` and `EntriesStayInOwnDir`, which
state the four properties of `boot_tree`, and `TypeCorrect`. Only `BootTreeAssumption` is assumed.
`IsoOnDisk` and `EntryInOwnDir` are parts of `IInv`. The other two speak of directories where
nobody works, so `IInv` says who answers for a file meanwhile: one half written is being
written (`HalfIsOwed`), one that is absent is named by no entry, and relied on by nobody, unless
an extraction has yet to look for it or a deletion is under way (`MissingIsOwed`), and one that is
there has a version or somebody at work (`FilesAreOwned`). A scan relies on the files it has seen and
not yet committed: whoever removes one of them meanwhile has `hurt` its directory. `Placed`, `LockHeld`,
`NoRowNoEntry`, `WrittenIsoStays`, `HandInOwnDir` and `ScanInOwnDir` say what an actor may rely on at each place.

`MasterStore_proofs` proves, for every number of masters, uploads, deletions and pool processes,
`TypeCorrect`, `NoRowIsAbandoned`, `DoneIsOwn`, `WimsAreWhole`, `EntriesMatch` and
`ScriptsAreCurrent`, which state the five properties of `winpe_masters`. Only
`MasterStoreAssumption` is assumed. Everything rests on `Crossing`: two operations at work on one
master are known to have crossed, so who has met nobody finds in the part file what it sent
(`PartIsOwn`) and has moved it (`MovedOwn`). `CatalogueHeld` says that without overlap the catalogue,
or the copy in the hands of its one writer, has the entries of the images in place; `Fresh`,
that nobody is about to overwrite such an entry with another's. `WillShow` is the invariant
behind a promise: while no change is lost somebody will still ask for the scripts, or a
regeneration has seen what there is, or the scripts have it.

`ProxmoxInject_proofs` proves, for every family, number of web processes, workers, tasks, pushes
and requests, `TypeCorrect` (both modules), `RowsAreExplained`, `ImagesOnlyAdvance` (the action property
`NeverAnOlderImage`) and `AnswersArrive` (`IsoHoldsAnswer`), from `ConfigAssumption` and
`InjectAssumption`. `StoreInv` types rows, files, seed and requests and says who holds SQLite's
lock; `TaskInv` says in what order tasks are numbered and images created, and that the temporary
name holds the image created last (`TmpIsNewest`), hence that a published image is only followed by a
later one; `AnswerInv`, that under Proxmox there is one answer file and that, while no deletion
disturbs, the last image has its content, or a push has yet to send its task, or a task has yet to
read it (`LateAnswer`).

For the other families the same module proves `SeedIsActive` (`SeedOfActive`) and `CustomFilesAreOwn`
(`CustomFileIsOwn`) from a second invariant, `ConfigInv` (`ConfigsHold`), proved on top of the first.
It speaks of versions whose requests have not crossed: then two requests that are both at work are a
pair that does not disturb (`Overlaps`: for Ubuntu an edit, or an extraction, with a create, an edit, a
scan or an extraction, two extractions excepted; for custom types two creates; for ESXi none), so each still finds the row, path and answer "is it the active
one?" that it began with (`RequestHas`). For Ubuntu every row has a bundle of its own, whole until its
deletion has begun (`BundlesOK`), and the seed is the active one's, or a request that owes its
publication is on its way, having copied so much (`UbuntuSeed`), or an extraction took it. For ESXi
whoever has truncated the boot configuration carries its body (`WriterFits`); between two writers the
file names a configuration only if one is active, and names one if it is, unless an extraction took the
`ks=` or the file (`SeedFits`). For custom types a path without an id has one row, and the file holds what the row says
except between the two writes of one edit (`CustomInv`).

`WinpeStores_proofs` proves, for every number of folders, labels, uploads, readers and packs,
`ArchivesAwait`, `DoneStaysListed`, `PackListIsCurrent`, `PacksAreWhole` and `PacksFiledByLanguage`
(`FiledUnderItsLanguage`), the five properties of `winpe_stores`, from `DriverAssumption`, `PackAssumption`
(a name is a sequence) and `CabNamesAssumption` (no ignored word is a language). For drivers: the next id belongs to the
holder of the lock and committed ids differ (`LockHeld`, `IdsBelow`, `IdsDiffer`), so an archive
stays its owner's (`Staged`); without overlap one actor changes `drivers.json` at a time, and what it
is about to write has every label already forced (`WrittenLabels`), because a rebuild keeps a
label that a folder was given (`RebuiltIs`) and upserting another machine's does too
(`UpsertedIs`). For packs: what the one rebuild has seen follows the files unless an upload, which
will rebuild in turn, is at work (`ListFollows`); a name that uploads never wrote at once has one
author (`OneAuthor`). The last theorem is about names alone: the one known language is a token, no
token hides it, and of the candidates it is the only one in a known language.

`Extraction_proofs` proves, for any OS types, plans and images, and any number of extractions, scans and
changes of the plan, `RecordedOnDisk`, `BootableOrLenient`, `ModulesInOrder` and `ScanKeeps`, which state the
four properties of `extraction`. It goes along the code: one lemma for each search says that what it
returns are files of the tree it was given and which fields it fills, one for each way to fill the boot
directory says what that leaves there, and the invariant adds them up. `ExtractionInv` says of the
directory that its files are well formed and that, for ESXi, each comes from an image under its own
name or is one of the three that the manager writes (`DirOK`: without it a module could be mistaken for a file
left by an earlier extraction), and of a fresh entry that its paths are there (`OnDisk`), its
fields enough, its preload list that of a `boot.cfg` on disk (`GoodEsxi`: of the image's own if it has
one at its root, because that one replaces an earlier image's there), and for Windows already what a scan would find.
`ExtractionAssumption` is what it needs of the database and of the images:
- a built-in OS type has the boot type it was seeded with (`os_type_seed.py:10`; `routers/settings.py`
  refuses to edit it), any other one of the four that the form offers (`routers/settings.py:36`), and
  no second type can take the slug of a built-in one; a type for ESXi that is not the built-in
  one has a plan or takes the whole image;
- the files of an image are finite in number, no `boot.cfg` of VMware names `mboot.efi` or
  `ipxe-boot.cfg`, no image for Proxmox holds the netboot image made here, and one file of an image
  has one name.

Every inductive invariant was checked by TLC on its run's instance before it was proved. What the instances
were too small to show, the proofs did, and the models were corrected:
- `BootTree`: an id was taken out of `outlived` when it was given again, though an older actor
  could still be aiming at it; with six actors `EntryInOwnDir` failed. `ReadyHasFiles` excused
  `outlived`, which it turned out not to need.
- `MasterStore`: a move that finds no part file has already removed the old image, and asks for no
  regeneration; with three uploads `QuietScriptsCurrent` failed without the history of it.
- `FirmwareBuild`: a second move of the CA between the stamp and the last object made
  `TrustsCurrentCa` fail; `Stamped` names that window, for a move as for a cut.
- `ConfigStore` needs an id to give (`MaxId` at least 1), and `ProxmoxInject` had a fixed set of
  refused contents.
- `ExtractPlan` did not say what a plan does for the boot type "tools", which it treats as Linux; a
  `CASE` without that branch has no value.
- `CabNames` listed a locale twice where the code keeps its first place only, and asked more of the
  words behind "LanguageFeatures-OCR" than its expression does. `FiledUnderItsLanguage` was too wide: it
  forgot that those words may stand twice in a name, and took "LanguageFeatures" alone for both.

Model-checked only:
- `EveryJobSettles` and the promise of `MenuView`: liveness under fairness.
- The properties of `WinpeClient` (`RebootsAsChosen`, `MasterKept`, `OneOfEach`, `OneLanguage`): the edits of
  the answer file, `Unattend`, fold over its passes and components, in the last step before the restart too;
  what a fold computes is induction over data.

## Not modelled

- Rendering: the text of menu entries, of the generated PowerShell and answer files, templates,
  forms, message tables. The injection of the scripts into `boot.wim` is an external tool.
- The remote chain routes of Alpine and Fedora; the server variant of Ubuntu; LOG_LEVEL and the
  preview of `embed.ipxe`; supervision, authentication, locale, TLS. They change one row or none.
- In `ConfigStore` the extraction of a Proxmox version: it injects the active answer again at its end
  (`tasks/jobs.py:146`), and its second tool removes the images made before. No property of the seed
  speaks of Proxmox, and `IsoHoldsAnswer` of the pushes and their tasks alone. The label of a version,
  hence its directory, stays; who shares a directory is `BootTree`'s subject.
- The ids of `boot_entries`: `upload_iso` gives every version its row, so that a scan adds none.
- Users: the rule that an administrator remains is a count read before a delete, in two steps
  without a lock: two requests can break it, so there is nothing to show.
- The disk guard compares once with a free space anybody changes; migrations and the seeding and
  ordering of OS types are edits of one table.
- Redis redelivers a message after its visibility timeout; a message is delivered once here.
  `write_text_file` and its temporary name are one step.
- `ConfigStore` assumes the foreign key of `active_autoconfig_id`, which a new database has and
  a migrated one lacks.

What the models show the code to do, and the properties excuse by name:
- stopping a job marks a version found by file name (`routers/jobs.py:47`); the start of a web process
  puts jobs that run in error (`main.py:39`);
- an ISO is unlinked before the commit of its extraction: if that fails the row names a file that is
  gone (`tasks/jobs.py:112`, `IsoOnDisk`);
- a scan makes a version ready with a file that a deletion in the other process has removed since the
  scan saw it (`boot_scanner.py:114-120`, `routers/isos.py:2070`, `ReadyHasFiles`);
- another extraction of an ESXi version writes an `ipxe-boot.cfg` without `ks=` while its configuration
  stays active (`iso_extractor.py:998`; `tasks/jobs.py:133-159` publishes again for Ubuntu and
  Proxmox only); one of Ubuntu that fails after its wipe takes the seed (`SeedOfActive`). A regeneration
  that overlaps an activation writes back the `ipxe-boot.cfg` it read before (`menu_generator.py:590`);
- an ESXi image without a `boot.cfg` of its own, unpacked over an earlier one, is given the earlier
  one's kernel and modules (`iso_extractor.py:892`, `EsxiModulesInOrder`);
- the account asked for on a client is written under what is left of its name, and over an account of
  the master if that has this name (`winpe_ps_lib.py:983`, `593`), though the wizard says that those stay
  as they are (`winpe_ps_lib.py:1330`); chosen drivers may be skipped (`RebootsAsChosen`, `MasterKept`);
- two overlapping regenerations can leave the older menu (`menu_generator.py:649`);
- a done upload of a master may have moved another's bytes (`winpe_master_store.py:54`);
- the badge of "embed" may be shown before its step (`firmware_build_ui.py:66`).

The hazards in `PROJECT.json` list them with their lines.

## Plan

Done: the modules and the proofs above. What is left: `masters.json` and `drivers.json` as implementations of
one abstract catalogue that is updated atomically; `write_text_file` with several writers; for
`WinpeClient`, a proof of the part of `RebootsAsChosen` that does not look into the answer file.
