--------------------------- MODULE ProxmoxInject ---------------------------
(***************************************************************************)
(* The injection of a Proxmox answer file                                  *)
(* (services/proxmox_autoinstall.py, tasks/jobs.py).  Every create, edit   *)
(* and activation sends a task that prepares                               *)
(* proxmox-netboot-autoinstall.iso with the answer file it finds when it   *)
(* runs.  All the tasks of a version write one temporary name,             *)
(* .proxmox-netboot-autoinstall.iso.preparing: two tasks that run at once  *)
(* unlink and rename each other's image.                                   *)
(*                                                                         *)
(* An image is an inode, named by the task whose assistant created it.     *)
(***************************************************************************)
EXTENDS ConfigStore

CONSTANTS
    MaxTasks,       \* tasks are 1..MaxTasks
    Workers,        \* tasks that run at once
    Refused         \* which contents the assistant refuses: the sets to choose from

ASSUME InjectAssumption == MaxTasks \in Nat /\ Workers \in Nat

VARIABLES
    invalid,    \* the contents the assistant refuses
    upload,     \* task -> status of its row in uploads; "none" before the commit
    task,       \* task -> [at, id, path, ino]
    image,      \* inode -> [answer, whole, shared]
    tmp,        \* the inode under the temporary name, or 0
    iso,        \* the published inode, or 0
    born,       \* the inodes in the order of their creation
    unsent,     \* a push wrote its file and could not send its task
    strayed     \* tasks whose row cannot settle

tvars == <<invalid, upload, task, image, tmp, iso, born, unsent, strayed>>
vars  == <<cvars, tvars>>

Tasks    == 1..MaxTasks
NoTask   == [at |-> "none", id |-> 0, path |-> NoPath, ino |-> 0]
NoImage  == [answer |-> 0, whole |-> FALSE, shared |-> FALSE]
TaskEnds == {"none", "ended"}

Init ==
    /\ ConfigInit
    /\ invalid \in IF os = "proxmox" THEN {r \cap Texts : r \in Refused} ELSE {{}}
    /\ upload = [t \in Tasks |-> "none"] /\ task = [t \in Tasks |-> NoTask]
    /\ image = [t \in Tasks |-> NoImage] /\ tmp = 0 /\ iso = 0 /\ born = <<>>
    /\ unsent = FALSE /\ strayed = {}

Sent       == {t \in Tasks : task[t].at # "none"}
Running    == {t \in Sent : task[t].at \notin {"queued", "ended"}}
TAt(t, s)  == task[t].at = s
TGo(t, s)  == task' = [task EXCEPT ![t].at = s]
Quiet      == QuietWeb /\ \A t \in Tasks : task[t].at \in TaskEnds

----------------------------------------------------------------------------
(* queue_proxmox_inject: the row is flushed, the task is sent, and only    *)
(* then is the row committed.  From then on the request keeps the task's   *)
(* number in text.                                                         *)

FlushUpload(w) ==
    /\ At(w, "upload") /\ Unlocked /\ lock' = {w} /\ Go(w, "send")
    /\ UNCHANGED <<tvars, os, disk, rows, active, pushes, spent, crossed>>

Send(w) ==
    LET t == Cardinality(Sent) + 1 IN
    /\ At(w, "send") /\ t \in Tasks
    /\ task' = [task EXCEPT ![t] = [NoTask EXCEPT !.at = "queued", !.id = req[w].id]]
    /\ req' = [req EXCEPT ![w].at = "record", ![w].text = t]
    /\ unsent' = FALSE
    /\ UNCHANGED <<os, base, disk, pushes, spent, crossed, invalid, upload, image, tmp, iso, born, strayed>>

(* Redis does not answer: the row is rolled back, the configuration stays  *)
(* active.                                                                 *)
SendFails(w) ==
    /\ At(w, "send") /\ lock' = {} /\ End(w) /\ unsent' = TRUE
    /\ UNCHANGED <<os, disk, rows, active, pushes, spent, crossed,
                   invalid, upload, task, image, tmp, iso, born, strayed>>

Record(w) ==
    /\ At(w, "record")
    /\ upload' = [upload EXCEPT ![req[w].text] = "processing"]
    /\ lock' = {} /\ End(w)
    /\ UNCHANGED <<os, disk, rows, active, pushes, spent, crossed,
                   invalid, task, image, tmp, iso, born, unsent, strayed>>

----------------------------------------------------------------------------
(* inject_proxmox_autoinstall_task.                                        *)

TaskFrame == UNCHANGED <<cvars, invalid, unsent>>

(* update_upload_status waits for the lock, and does nothing to a row that *)
(* is not committed yet.                                                   *)
MayUpdate(t) == upload[t] = "none" \/ Unlocked
SetStatus(t, s) ==
    /\ MayUpdate(t)
    /\ upload' = IF upload[t] = "none" THEN upload ELSE [upload EXCEPT ![t] = s]
    /\ strayed' = IF upload[t] = "none" THEN strayed \cup {t} ELSE strayed

Start(t) ==
    /\ TAt(t, "queued") /\ Cardinality(Running) < Workers /\ MayUpdate(t)
    /\ upload' = IF upload[t] = "none" THEN upload ELSE [upload EXCEPT ![t] = "processing"]
    /\ TGo(t, "load")
    /\ TaskFrame /\ UNCHANGED <<image, tmp, iso, born, strayed>>

(* A configuration deleted meanwhile ends the task outside every handler.  *)
Load(t) ==
    LET i == task[t].id IN
    /\ TAt(t, "load")
    /\ IF i \in DOMAIN rows
       THEN /\ task' = [task EXCEPT ![t].at = "check", ![t].path = rows[i].path]
            /\ UNCHANGED strayed
       ELSE TGo(t, "ended") /\ strayed' = strayed \cup {t}
    /\ TaskFrame /\ UNCHANGED <<upload, image, tmp, iso, born>>

(* The file of the configuration, or else the copy under boot/.            *)
Found(p) == IF p \in DOMAIN files THEN files[p].main ELSE seed.main
Good(n)  == n # 0 /\ n \notin invalid

(* _lint_answer_toml and validate_answer_toml; then the temporary name is  *)
(* freed.  Without proxmox-netboot.iso or the assistant the task fails.    *)
Check(t) ==
    /\ TAt(t, "check")
    /\ \/ Good(Found(task[t].path)) /\ TGo(t, "prepare") /\ tmp' = 0
       \/ TGo(t, "fail") /\ UNCHANGED tmp
    /\ TaskFrame /\ UNCHANGED <<upload, image, iso, born, strayed>>

(* The assistant reads the answer again and creates the image; when        *)
(* another assistant has created one since, both write into it.            *)
Prepare(t) ==
    LET n == Found(task[t].path) IN
    /\ TAt(t, "prepare")
    /\ IF ~Good(n)
       THEN TGo(t, "fail") /\ UNCHANGED <<image, tmp, born>>
       ELSE IF tmp = 0
       THEN /\ image' = [image EXCEPT ![t] = [answer |-> n, whole |-> FALSE, shared |-> FALSE]]
            /\ tmp' = t /\ born' = Append(born, t)
            /\ task' = [task EXCEPT ![t].at = "preparing", ![t].ino = t]
       ELSE /\ image' = [image EXCEPT ![tmp] = [answer |-> n, whole |-> FALSE, shared |-> TRUE]]
            /\ UNCHANGED <<tmp, born>>
            /\ task' = [task EXCEPT ![t].at = "preparing", ![t].ino = tmp]
    /\ TaskFrame /\ UNCHANGED <<upload, iso, strayed>>

Prepared(t) ==
    /\ TAt(t, "preparing")
    /\ image' = [image EXCEPT ![task[t].ino].whole = TRUE] /\ TGo(t, "measure")
    /\ TaskFrame /\ UNCHANGED <<upload, tmp, iso, born, strayed>>

(* It fails, or the soft time limit stops it.                              *)
AssistantFails(t) ==
    /\ TAt(t, "preparing") /\ TGo(t, "fail")
    /\ TaskFrame /\ UNCHANGED <<upload, image, tmp, iso, born, strayed>>

(* What is under the temporary name is measured, whoever wrote it.  An     *)
(* image another assistant is still writing is seen too small, and         *)
(* unlinked, or large enough.                                              *)
Measure(t) ==
    /\ TAt(t, "measure")
    /\ \/ tmp = 0 /\ TGo(t, "fail") /\ UNCHANGED tmp
       \/ tmp # 0 /\ ~image[tmp].whole /\ TGo(t, "fail") /\ tmp' = 0
       \/ tmp # 0 /\ TGo(t, "replace") /\ UNCHANGED tmp
    /\ TaskFrame /\ UNCHANGED <<upload, image, iso, born, strayed>>

Replace_Own(t) ==   \* faulty: each task publishes the image it prepared
    /\ TAt(t, "replace")
    /\ iso' = task[t].ino /\ tmp' = 0 /\ TGo(t, "menus")
    /\ TaskFrame /\ UNCHANGED <<upload, image, born, strayed>>

Replace(t) ==
    /\ TAt(t, "replace")
    /\ IF tmp = 0 THEN TGo(t, "fail") /\ UNCHANGED <<iso, tmp>>
       ELSE iso' = tmp /\ tmp' = 0 /\ TGo(t, "menus")
    /\ TaskFrame /\ UNCHANGED <<upload, image, born, strayed>>

Fail_Silent(t) ==   \* faulty: the error is raised before it is recorded
    /\ TAt(t, "fail") /\ TGo(t, "ended")
    /\ TaskFrame /\ UNCHANGED <<upload, image, tmp, iso, born, strayed>>

Fail(t) ==
    /\ TAt(t, "fail") /\ SetStatus(t, "error") /\ TGo(t, "ended")
    /\ TaskFrame /\ UNCHANGED <<image, tmp, iso, born>>

(* regenerate_all may raise, and no handler is left.                       *)
Menus(t) ==
    /\ TAt(t, "menus")
    /\ \/ TGo(t, "done") /\ UNCHANGED strayed
       \/ TGo(t, "ended") /\ strayed' = strayed \cup {t}
    /\ TaskFrame /\ UNCHANGED <<upload, image, tmp, iso, born>>

Done(t) ==
    /\ TAt(t, "done") /\ SetStatus(t, "done") /\ TGo(t, "ended")
    /\ TaskFrame /\ UNCHANGED <<image, tmp, iso, born>>

(* The service stops, or the hard time limit passes.  The message was      *)
(* acknowledged when the task began: it is not run again.                  *)
Killed(t) ==
    /\ t \in Running /\ TGo(t, "ended")
    /\ strayed' = strayed \cup {t}
    /\ TaskFrame /\ UNCHANGED <<upload, image, tmp, iso, born>>

TaskStep(t) ==
    \/ Start(t) \/ Load(t) \/ Check(t) \/ Prepare(t) \/ Prepared(t) \/ AssistantFails(t) \/ Measure(t)
    \/ Replace(t) \/ Fail(t) \/ Menus(t) \/ Done(t) \/ Killed(t)

Rest == Quiet /\ spent = MaxRequests[os] /\ UNCHANGED vars

Next ==
    \/ \E w \in Webs : WebStep(w) /\ UNCHANGED tvars
    \/ \E w \in Webs : FlushUpload(w) \/ Send(w) \/ SendFails(w) \/ Record(w)
    \/ \E t \in Tasks : TaskStep(t)
    \/ Rest

Spec == Init /\ [][Next]_vars

----------------------------------------------------------------------------
(* Every variable has its type.                                            *)
TypeOK ==
    /\ StoreTypeOK
    /\ invalid \subseteq Texts /\ unsent \in BOOLEAN
    /\ \A t \in Tasks : upload[t] \in {"none", "processing", "done", "error"}
    /\ \A t \in Tasks : task[t].ino \in {0} \cup Tasks /\ task[t].path \in Paths \cup {NoPath}
    /\ image \in [Tasks -> [answer : {0} \cup Texts, whole : BOOLEAN, shared : BOOLEAN]]
    /\ tmp \in {0} \cup Tasks /\ iso \in {0} \cup Tasks
    /\ IsInjective(born)
    /\ strayed \subseteq Tasks

(* When nothing runs any more and every injection sent is done, the image  *)
(* machines install from is the one created last, whole, with the answer   *)
(* that the file of its configuration still holds, however the tasks and   *)
(* the pushes overlapped.  Excused: a task that could not be sent, a      *)
(* delete that overlapped another request, and two assistants that had     *)
(* created one file at once.                                               *)
IsoHoldsAnswer ==
    LET p == task[Last(born)].path IN
    /\ os = "proxmox" /\ Quiet /\ ~crossed /\ Sent # {} /\ ~unsent
    /\ \A t \in Sent : upload[t] = "done"
    /\ \A t \in Sent : ~image[t].shared
    /\ p \in DOMAIN files
    => /\ iso = Last(born)
       /\ image[iso].whole /\ image[iso].answer = files[p].main

(* An injection whose row says that it is still running has a task, unless *)
(* the task ended before the row was committed, found its configuration    *)
(* deleted, failed to regenerate the menus or was killed.                  *)
ProcessingIsExplained ==
    \A t \in Sent : upload[t] = "processing" /\ TAt(t, "ended") => t \in strayed

(* The published image is never replaced by one created before it: of two  *)
(* tasks that overlap the slower one does not bring an older answer back,  *)
(* although both publish whatever the temporary name holds.                *)
Before(t, u) == \E j, k \in DOMAIN born : j < k /\ born[j] = t /\ born[k] = u
NeverAnOlderImage == [][iso # 0 /\ iso' # iso => Before(iso, iso')]_vars
=============================================================================
