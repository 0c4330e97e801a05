--------------------------- MODULE MenuPublication ---------------------------
(***************************************************************************)
(* Publication of the iPXE menus: handlers commit a change and then queue  *)
(* a regeneration; regenerate_all rewrites every menu file from the        *)
(* database, one operating system after the other and menu.ipxe last.      *)
(*                                                                         *)
(* Several regenerations may run at once: the Celery pool has two          *)
(* processes, an extraction regenerates in its own process, and a thread   *)
(* stands in for Celery when the broker is away.  Nothing locks them out.  *)
(*                                                                         *)
(* What a page would show is represented by a revision that every change   *)
(* increments, the site-wide settings baked into it, and its links.        *)
(***************************************************************************)
EXTENDS Integers, Functions

CONSTANTS
  OsTypes,     \* slugs an os_types row can have (winpe has no menu of its own)
  Builtin,     \* the OS types every installation starts with
  Central,     \* the page menu.ipxe
  Regens,      \* execution contexts of regenerate_all
  NoFile,      \* the file does not exist
  Manual,      \* a menu file as an administrator typed it
  MaxChanges,  \* bound: changes of the pages and of the site-wide settings
  MaxPending   \* bound: regenerations owed or queued at a time

Pages == OsTypes \cup {Central}

Content == [rev : Nat, site : Nat, links : SUBSET OsTypes]

ASSUME MenuPublicationAssumption ==
  /\ Central \notin OsTypes /\ Builtin \subseteq OsTypes
  /\ NoFile \notin Content /\ Manual \notin Content /\ NoFile # Manual
  /\ MaxChanges \in Nat /\ MaxPending \in Nat

VARIABLES
  rows,      \* os_types (winpe left aside)
  rev,       \* revision of what the page of an OS lists; of remote_chains for Central
  scripted,  \* OS types with a ready version that has a custom iPXE script
  site,      \* revision of server URL, debug mode, logo and OS order
  owing,     \* handlers that have committed and not yet called delay()
  queued,    \* regenerate_menus messages
  menu,      \* <os>.ipxe and menu.ipxe
  autres,    \* <os>_autres.ipxe
  pc,        \* where a regeneration is
  list,      \* the OS types it read when it started
  lsite,     \* the settings it read when it started
  todo,      \* the pages it has still to write
  cur,       \* the page it is working on
  snap,      \* what it has rendered for that page
  why,       \* history: why a page may be out of date for good, "kept" if it may not
  failed     \* history: OS types whose last generation raised

dbVars    == <<rows, rev, scripted, site>>
fileVars  == <<menu, autres>>
regenVars == <<pc, list, lsite, todo, cur, snap>>
vars      == <<rows, rev, scripted, site, owing, queued, menu, autres, pc, list, lsite,
               todo, cur, snap, why, failed>>

Reasons == {"kept", "unasked", "raced"}

\* What regenerate_all would write now.
Links(p) == IF p = Central THEN rows ELSE {p} \cap scripted
Wanted(p) == [rev |-> rev[p], site |-> site, links |-> Links(p)]
AutresOf(p, c) == IF p = Central \/ c.links = {} THEN NoFile ELSE c
WantedAutres(p) == AutresOf(p, Wanted(p))
Current(p) == menu[p] = Wanted(p) /\ autres[p] = WantedAutres(p)

Idle(r) == pc[r] = "idle"

\* Bound: how often the database changes what menus show.
MayChange == FoldFunction(+, site, rev) < MaxChanges

NoPage == [rev |-> 0, site |-> 0, links |-> {}]

\* What ends with a page, and with the regeneration: the local variables go.
NextPage(r) ==
  /\ pc' = [pc EXCEPT ![r] = "loop"]
  /\ todo' = [todo EXCEPT ![r] = @ \ {cur[r]}]
  /\ cur' = [cur EXCEPT ![r] = Central]
  /\ snap' = [snap EXCEPT ![r] = NoPage]
  /\ UNCHANGED <<list, lsite>>

Return(r) ==
  /\ pc' = [pc EXCEPT ![r] = "idle"]
  /\ todo' = [todo EXCEPT ![r] = {}]
  /\ cur' = [cur EXCEPT ![r] = Central]
  /\ snap' = [snap EXCEPT ![r] = NoPage]
  /\ list' = [list EXCEPT ![r] = {}]
  /\ lsite' = [lsite EXCEPT ![r] = 0]
-----------------------------------------------------------------------------
Init ==
  /\ rows = Builtin
  /\ rev = [p \in Pages |-> 0]
  /\ scripted = {}
  /\ site = 0
  /\ owing = 0
  /\ queued = 0
  /\ menu = [p \in Pages |-> NoFile]
  /\ autres = [p \in Pages |-> NoFile]
  /\ pc = [r \in Regens |-> "idle"]
  /\ list = [r \in Regens |-> {}]
  /\ lsite = [r \in Regens |-> 0]
  /\ todo = [r \in Regens |-> {}]
  /\ cur = [r \in Regens |-> Central]
  /\ snap = [r \in Regens |-> NoPage]
  /\ why = [p \in Pages |-> "unasked"]
  /\ failed = {}

(***************************************************************************)
(* Web handlers and tasks that change what the menus are rendered from.    *)
(***************************************************************************)
Owe == owing + queued < MaxPending /\ owing' = owing + 1

\* A page that lists one change more; S is whether o has custom scripts now.
Revise(p, scripts) ==
  /\ p \in rows \cup {Central}
  /\ MayChange
  /\ rev' = [rev EXCEPT ![p] = @ + 1]
  /\ scripted' = IF p \in OsTypes /\ scripts THEN scripted \cup {p} ELSE scripted \ {p}
  /\ UNCHANGED <<rows, site>>

\* Upload, boot file, kernel arguments, active configuration, deletion of a
\* version, remote chain, end of an extraction: commit, then queue.
Change(p, scripts) ==
  /\ Revise(p, scripts)
  /\ Owe
  /\ UNCHANGED <<queued, fileVars, regenVars, why, failed>>

\* Server URL, debug mode, logo, order of the OS types: every page shows them.
ChangeSite ==
  /\ MayChange
  /\ site' = site + 1
  /\ Owe
  /\ UNCHANGED <<rows, rev, scripted, queued, fileVars, regenVars, why, failed>>

\* A new extraction takes a ready version out of the menu's query, a failed one
\* leaves it out, an edited OS type is shown otherwise: no regeneration is queued.
ChangeSilently(p, scripts) ==
  /\ p # Central
  /\ Revise(p, scripts)
  /\ why' = [why EXCEPT ![p] = "unasked"]
  /\ UNCHANGED <<owing, queued, fileVars, regenVars, failed>>

\* os_types_new: no regeneration.  Bound: a slug does not come back while a
\* regeneration that listed the deleted row runs.
AddOsType(o) ==
  /\ o \notin rows
  /\ \A r \in Regens : o \notin todo[r]
  /\ rows' = rows \cup {o}
  /\ why' = [why EXCEPT ![o] = "unasked", ![Central] = "unasked"]
  /\ UNCHANGED <<rev, scripted, site, owing, queued, fileVars, regenVars, failed>>

\* delete_os_type: the versions go with it, the menu files stay, no regeneration.
DeleteOsType(o) ==
  /\ o \in rows \ Builtin
  /\ MayChange
  /\ rows' = rows \ {o}
  /\ rev' = [rev EXCEPT ![o] = @ + 1]
  /\ scripted' = scripted \ {o}
  /\ why' = [why EXCEPT ![o] = "unasked", ![Central] = "unasked"]
  /\ UNCHANGED <<site, owing, queued, fileVars, regenVars, failed>>

\* save_menu_override: the file is written, then its regeneration is queued.
SaveOverride(p) ==
  /\ menu[p] \notin {NoFile, Manual}
  /\ menu' = [menu EXCEPT ![p] = Manual]
  /\ Owe
  /\ UNCHANGED <<dbVars, queued, autres, regenVars, why, failed>>

\* The button "Régénérer tous les menus".
Regenerate ==
  /\ Owe
  /\ UNCHANGED <<dbVars, queued, fileVars, regenVars, why, failed>>

\* queue_regenerate_all: a Celery message, else a daemon thread.
Post_Unguarded ==   \* faulty
  /\ owing' = owing - 1
  /\ queued' = queued + 1
  /\ UNCHANGED <<dbVars, fileVars, regenVars, why, failed>>

Post_SkippedWhenBusy ==   \* faulty
  /\ owing > 0
  /\ owing' = owing - 1
  /\ queued' = IF \A r \in Regens : Idle(r) THEN queued + 1 ELSE queued
  /\ UNCHANGED <<dbVars, fileVars, regenVars, why, failed>>

Post ==
  /\ owing > 0
  /\ owing' = owing - 1
  /\ queued' = queued + 1
  /\ UNCHANGED <<dbVars, fileVars, regenVars, why, failed>>

\* Nothing will publish the pages that are out of date.
Drop == why' = [p \in Pages |-> IF Current(p) THEN why[p] ELSE "unasked"]

\* The web process dies before delay(), or a handler that calls delay() itself
\* gets an exception from it.
LoseRequest ==
  /\ owing > 0
  /\ owing' = owing - 1
  /\ Drop
  /\ UNCHANGED <<dbVars, queued, fileVars, regenVars, failed>>

(***************************************************************************)
(* regenerate_all                                                          *)
(***************************************************************************)
\* Settings and OS types are read once.
Begin(r) ==
  /\ Idle(r) /\ queued > 0
  /\ queued' = queued - 1
  /\ list' = [list EXCEPT ![r] = rows]
  /\ lsite' = [lsite EXCEPT ![r] = site]
  /\ todo' = [todo EXCEPT ![r] = rows \cup {Central}]
  /\ pc' = [pc EXCEPT ![r] = "loop"]
  /\ UNCHANGED <<dbVars, owing, fileVars, cur, snap, why, failed>>

RenderedLinks_Requeried(r, p) == Links(p)   \* faulty
RenderedLinks(r, p) == IF p = Central THEN list[r] ELSE Links(p)

\* Each page has a query of its own, on what is committed by then.  menu.ipxe is
\* last: its OS types are those read at the start, its remote chains are not.
Read(r, p) ==
  /\ pc[r] = "loop"
  /\ p \in todo[r]
  /\ p = Central => todo[r] = {Central}
  /\ cur' = [cur EXCEPT ![r] = p]
  /\ snap' = [snap EXCEPT ![r] =
                [rev |-> rev[p], site |-> lsite[r], links |-> RenderedLinks(r, p)]]
  /\ pc' = [pc EXCEPT ![r] = "read"]
  /\ UNCHANGED <<dbVars, owing, queued, fileVars, list, lsite, todo, why, failed>>

\* _write_menu replaces the file in one step.
WritePage(r) ==
  LET p == cur[r]
  IN /\ pc[r] = "read"
     /\ menu' = [menu EXCEPT ![p] = snap[r]]
     /\ pc' = [pc EXCEPT ![r] = "written"]
     /\ why' = IF menu[p] = Wanted(p) /\ snap[r] # Wanted(p)
               THEN [why EXCEPT ![p] = "raced"] ELSE why
     /\ UNCHANGED <<dbVars, owing, queued, autres, list, lsite, todo, cur, snap, failed>>

StaleAutres_Kept(r, p) == IF snap[r].links = {} THEN autres[p] ELSE snap[r]   \* faulty
StaleAutres(r, p) == AutresOf(p, snap[r])

\* <os>_autres.ipxe is written or removed; after menu.ipxe the menus of the old
\* winpe type are removed and the regeneration is over.
FinishPage(r) ==
  LET p == cur[r]
  IN /\ pc[r] = "written"
     /\ autres' = IF p = Central THEN autres
                  ELSE [autres EXCEPT ![p] = StaleAutres(r, p)]
     /\ IF p = Central THEN Return(r) ELSE NextPage(r)
     /\ IF menu[p] = Wanted(p) /\ autres'[p] = WantedAutres(p)
        THEN /\ why' = [why EXCEPT ![p] = "kept"]
             /\ failed' = failed \ {p}
        ELSE /\ why' = IF autres[p] = WantedAutres(p) /\ autres'[p] # autres[p]
                       THEN [why EXCEPT ![p] = "raced"] ELSE why
             /\ UNCHANGED failed
     /\ UNCHANGED <<dbVars, owing, queued, menu>>

\* Whatever an OS type raises is logged, and the loop goes on with the next.
PageFails(r) ==
  /\ pc[r] \in {"read", "written"}
  /\ cur[r] # Central
  /\ NextPage(r)
  /\ failed' = failed \cup {cur[r]}
  /\ UNCHANGED <<dbVars, owing, queued, fileVars, why>>

\* An exception outside that handler, or the process dies: the message has been
\* acknowledged and is not delivered again.
Abort(r) ==
  /\ ~Idle(r)
  /\ Return(r)
  /\ Drop
  /\ UNCHANGED <<dbVars, owing, queued, fileVars, failed>>
-----------------------------------------------------------------------------
Environment ==
  \/ \E p \in Pages, scripts \in BOOLEAN : Change(p, scripts)
  \/ ChangeSite
  \/ \E p \in Pages, scripts \in BOOLEAN : ChangeSilently(p, scripts)
  \/ \E o \in OsTypes : AddOsType(o)
  \/ \E o \in OsTypes : DeleteOsType(o)
  \/ \E p \in Pages : SaveOverride(p)
  \/ Regenerate
  \/ LoseRequest
  \/ \E r \in Regens : Abort(r)

Regeneration(r) ==
  \/ Begin(r)
  \/ \E p \in Pages : Read(r, p)
  \/ WritePage(r)
  \/ FinishPage(r)
  \/ PageFails(r)

Next ==
  \/ Environment
  \/ Post
  \/ \E r \in Regens : Regeneration(r)

Spec == Init /\ [][Next]_vars

\* The pool takes every message and a regeneration is bounded; administrators do
\* not edit menu files by hand for ever.
Fairness ==
  /\ WF_vars(Post)
  /\ \A r \in Regens : WF_vars(Regeneration(r))
  /\ <>[][~ \E p \in Pages : SaveOverride(p)]_vars

FairSpec == Spec /\ Fairness
-----------------------------------------------------------------------------
TypeOK ==
  /\ rows \subseteq OsTypes
  /\ rev \in [Pages -> Nat]
  /\ scripted \subseteq OsTypes
  /\ site \in Nat
  /\ owing \in Nat
  /\ queued \in Nat
  /\ menu \in [Pages -> Content \cup {NoFile, Manual}]
  /\ autres \in [Pages -> Content \cup {NoFile}]
  /\ pc \in [Regens -> {"idle", "loop", "read", "written"}]
  /\ list \in [Regens -> SUBSET OsTypes]
  /\ lsite \in [Regens -> Nat]
  /\ todo \in [Regens -> SUBSET Pages]
  /\ cur \in [Regens -> Pages]
  /\ snap \in [Regens -> Content]
  /\ why \in [Pages -> Reasons]
  /\ failed \subseteq OsTypes

\* No regeneration is owed, queued or running.
Settled == owing = 0 /\ queued = 0 /\ \A r \in Regens : Idle(r)

Live(p) == p = Central \/ p \in rows

\* menu.ipxe only chains to menus that exist, at any moment and whatever the
\* number of regenerations: only an OS type whose generation raised is excepted.
CentralLinksExist ==
  menu[Central] \notin {NoFile, Manual} =>
    \A o \in menu[Central].links : menu[o] # NoFile \/ o \in failed

\* Once everything has settled a page is what the database asks for, its script
\* menu included.  It is out of date only if nobody asked for a regeneration, the
\* request or the generation failed, or an older regeneration wrote after a newer.
FreshUnlessExcused ==
  Settled => \A p \in Pages \ failed : Live(p) /\ why[p] = "kept" => Current(p)
-----------------------------------------------------------------------------

\* The promise to PXE clients (module MenuView): a page that is kept is only out
\* of date until the regeneration its change asked for has written it.
View == INSTANCE MenuView WITH
  Handmade <- {Manual} \X (Content \cup {NoFile}),
  wanted <- [p \in Pages |-> <<Wanted(p), WantedAutres(p)>>],
  shown <- [p \in Pages |-> <<menu[p], autres[p]>>],
  kept <- {p \in Pages \ failed : Live(p) /\ why[p] = "kept"}

ServesView == View!Spec
=============================================================================
