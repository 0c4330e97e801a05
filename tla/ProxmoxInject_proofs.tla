------------------------ MODULE ProxmoxInject_proofs ------------------------
(***************************************************************************)
(* Proofs about ProxmoxInject for any number of web processes, workers,    *)
(* tasks, pushes and requests: first the injections of Proxmox, then the   *)
(* configurations of the other families (ConfigStore), whose invariant     *)
(* ConfigInv stands in a section of its own.                               *)
(***************************************************************************)
EXTENDS ProxmoxInject, FiniteSetTheorems, WellFoundedInduction, TLAPS

(* What a request carries; text is the content of a push, or the number of *)
(* the task that was sent.                                                 *)
Requests == [at : Steps, kind : Kinds, id : {0} \cup Ids, path : Paths \cup {NoPath}, text : Nat,
             was : BOOLEAN, body : BOOLEAN, known : SUBSET Paths]

PushSteps == {"write", "meta", "mirror", "commit"}

(* A push writes a content of its own under a name of its family, and      *)
(* commits it to a row that SQLite gave it.                                *)
PlaceOK(w) ==
    /\ req[w].at \in {"flush"} \cup PushSteps =>
          /\ req[w].kind \in {"create", "edit"}
          /\ req[w].path \in Paths /\ req[w].text \in Texts
          /\ os = "custom" /\ req[w].at \in {"flush", "write"} => req[w].path \in Labels \X {0}
    /\ req[w].at \in PushSteps => req[w].id \in Ids
    /\ req[w].at = "flush" => req[w].kind = "create"
    /\ req[w].at \in {"unlink", "drop"} => req[w].kind = "delete"

ReqOK == req \in [Webs -> Requests] /\ \A w \in Webs : PlaceOK(w)

(* The write lock is held from the flush of an upload to its commit.       *)
LockHeld ==
    /\ lock = {} \/ \E w \in Webs : lock = {w}
    /\ \A w \in Webs : req[w].at \in {"send", "record"} => lock = {w}

FileContent == [main : {0} \cup Texts, meta : {0} \cup Texts]
FilesOK  == DOMAIN files \subseteq Paths /\ \A p \in DOMAIN files : files[p] \in FileContent
RowsOK   == /\ DOMAIN rows \subseteq Ids
            /\ \A i \in DOMAIN rows : rows[i] \in [path : Paths, text : {0} \cup Texts]
            /\ active \in {0} \cup DOMAIN rows
SeedOK   == /\ seed \in [main : {0} \cup Texts, meta : {0} \cup Texts, ks : Paths \cup {NoPath}, body : BOOLEAN]
            /\ taken \in Losses
CountsOK == /\ os \in Systems /\ crossed \in BOOLEAN
            /\ pushes \in 0..MaxPushes[os] /\ spent \in 0..MaxRequests[os]

StoreInv == FilesOK /\ RowsOK /\ SeedOK /\ CountsOK /\ ReqOK /\ LockHeld

TaskSteps == {"none", "queued", "load", "check", "prepare", "preparing", "measure", "replace",
              "fail", "menus", "done", "ended"}
TaskState == [at : TaskSteps, id : {0} \cup Ids, path : Paths \cup {NoPath}, ino : {0} \cup Tasks]

Created == {born[k] : k \in 1..Len(born)}

TasksTyped ==
    /\ task \in [Tasks -> TaskState]
    /\ upload \in [Tasks -> {"none", "processing", "done", "error"}]
    /\ image \in [Tasks -> [answer : {0} \cup Texts, whole : BOOLEAN, shared : BOOLEAN]]
    /\ invalid \subseteq Texts /\ unsent \in BOOLEAN /\ strayed \subseteq Tasks
    /\ tmp \in {0} \cup Tasks /\ iso \in {0} \cup Tasks
    /\ born \in Seq(Tasks)

(* Tasks are numbered in the order they are sent.                          *)
SentInOrder == \E n \in 0..MaxTasks : Sent = 1..n

Unprepared == {"none", "queued", "load", "check", "prepare"}

(* A task creates at most one image, and only by preparing it.             *)
CreatedByPrepare ==
    /\ Created \subseteq {t \in Tasks : task[t].at \notin Unprepared}
    /\ \A t \in Tasks : image[t].shared => t \in Created
    /\ \A t \in Tasks : TAt(t, "preparing") => task[t].ino \in Tasks

(* The temporary name holds the image created last; the published one is   *)
(* another.                                                                *)
TmpIsNewest ==
    /\ tmp # 0 => born # <<>> /\ tmp = Last(born)
    /\ iso # 0 => iso \in Created /\ iso # tmp

(* The row of a task is committed once, by the request that sent it.       *)
RowsOfTasks ==
    /\ \A t \in Tasks : t \notin Sent => upload[t] = "none"
    /\ \A w \in Webs : At(w, "record") => req[w].text \in Sent /\ upload[req[w].text] = "none"
    /\ \A t \in Tasks : TAt(t, "ended") /\ upload[t] \in {"none", "processing"} => t \in strayed

TaskInv == TasksTyped /\ SentInOrder /\ CreatedByPrepare /\ TmpIsNewest /\ RowsOfTasks /\ IsInjective(born)

----------------------------------------------------------------------------
(* The answer.                                                             *)

AnswerPath == <<"answer.toml", 0>>

OtherSteps == {"meta", "publish", "pubmain", "pubmeta", "bootread", "truncate", "rewrite",
               "unpack", "restore"}

(* Under Proxmox there is one name, and no step of another family.         *)
RequestPaths ==
    /\ DOMAIN files \subseteq {AnswerPath}
    /\ \A i \in DOMAIN rows : rows[i].path = AnswerPath
    /\ \A w \in Webs : /\ req[w].at \in {"flush"} \cup PushSteps => req[w].path = AnswerPath
                       /\ req[w].at \notin OtherSteps

NoPathYet == {"none", "queued", "load", "fail", "ended"}

TaskPaths ==
    \A t \in Tasks : task[t].at \notin NoPathYet \/ t \in Created => task[t].path = AnswerPath

OnePath == os = "proxmox" => RequestPaths /\ TaskPaths

(* A delete is alone, and so the row of a push or an activation stays.     *)
DeleteAlone ==
    os = "proxmox" /\ ~crossed =>
        \A v, w \in Webs : v # w /\ ~At(v, "idle") /\ req[v].kind = "delete" => At(w, "idle")

KeepsRow(w) ==
    \/ req[w].at \in {"setactive", "answer", "upload", "send", "record"}
    \/ req[w].at \in PushSteps /\ req[w].kind = "edit"

RowStays ==
    os = "proxmox" /\ ~crossed =>
        \A w \in Webs : KeepsRow(w) => req[w].id \in DOMAIN rows

(* A push that wrote the file has not yet sent its task.                   *)
ToSend(w) == req[w].at \in {"mirror", "commit", "setactive", "answer", "upload", "send"}

(* A task that has not read the answer for its image, or never will.       *)
NotRead(t) == \/ task[t].at \in {"queued", "load", "check", "prepare", "fail"}
              \/ TAt(t, "ended") /\ upload[t] # "done"

AnswerIsCurrent ==
    born # <<>> /\ AnswerPath \in DOMAIN files
        => image[Last(born)].answer = files[AnswerPath].main

SharedSome == \E t \in Tasks : image[t].shared

LateAnswer ==
    os = "proxmox" /\ ~crossed /\ ~unsent /\ ~SharedSome =>
        AnswerIsCurrent \/ (\E w \in Webs : ToSend(w)) \/ (\E t \in Tasks : NotRead(t))

PreparedAlone == {"preparing", "measure", "replace", "menus", "done"}

(* The row of a task is settled by its last step.                          *)
SettledHasEnded == \A t \in Tasks : upload[t] \in {"done", "error"} => TAt(t, "ended")

(* A task that has prepared has created its own image, or shared one; one  *)
(* that created an image writes that one.                                  *)
OwnImage ==
    \A t \in Tasks :
        /\ task[t].at \in PreparedAlone \/ upload[t] = "done" => SharedSome \/ t \in Created
        /\ TAt(t, "preparing") /\ t \in Created => task[t].ino = t

(* The last image is published, and whole, once its task has done so.      *)
LastIsPublished ==
    born # <<>> =>
        LET t == Last(born) IN
        /\ task[t].at \in {"menus", "done"} \/ upload[t] = "done" => iso = t
        /\ task[t].at \in {"measure", "replace", "menus", "done"} \/ upload[t] = "done"
               => image[t].whole \/ image[t].shared

AnswerInv == SettledHasEnded /\ OnePath /\ DeleteAlone /\ RowStays /\ LateAnswer /\ OwnImage /\ LastIsPublished
----------------------------------------------------------------------------
(* Facts about sets, paths and numbers.                                    *)

(* The order that SetToSeq chooses lists the set.                          *)
LEMMA SetToSeqType ==
  ASSUME NEW S, IsFiniteSet(S)
  PROVE  SetToSeq(S) \in [1..Cardinality(S) -> S]
<1>1. \E f \in [1..Cardinality(S) -> S] : IsInjective(f)
  <2>1. ExistsBijection(1..Cardinality(S), S)
    BY FS_CardinalityType
  <2> QED
    BY <2>1 DEF ExistsBijection, Bijection, Injection
<1> QED
  BY <1>1 DEF SetToSeq

(* There are finitely many paths.                                          *)
LEMMA PathsFinite ==
  ASSUME ConfigAssumption
  PROVE  IsFiniteSet(Paths)
<1>1. MaxId \in Nat
  BY DEF ConfigAssumption
<1>2. IsFiniteSet(Labels) /\ IsFiniteSet(0..MaxId) /\ IsFiniteSet(1..MaxId + 1)
  <2>1. IsFiniteSet({"a"}) /\ IsFiniteSet({"b"})
    BY FS_Singleton
  <2>2. Labels = {"a"} \cup {"b"}
    BY DEF Labels
  <2>3. IsFiniteSet(Labels)
    BY <2>1, <2>2, FS_Union
  <2>4. IsFiniteSet(0..MaxId)
    BY <1>1, FS_Interval
  <2>5. IsFiniteSet(1..MaxId + 1)
    BY <1>1, FS_Interval
  <2> QED
    BY <2>3, <2>4, <2>5
<1>3. IsFiniteSet(Labels \X (0..MaxId))
  BY <1>2, FS_Product
<1>4. IsFiniteSet(Bundles)
  <2>1. Bundles = {"config"} \X (1..MaxId + 1)
    BY DEF Bundles
  <2>2. IsFiniteSet({"config"})
    BY FS_Singleton
  <2> QED
    BY <1>2, <2>1, <2>2, FS_Product
<1>5. IsFiniteSet({<<"answer.toml", 0>>, <<"ks.cfg", 0>>, <<"other.cfg", 0>>})
  <2>1. /\ IsFiniteSet({<<"answer.toml", 0>>}) /\ IsFiniteSet({<<"ks.cfg", 0>>})
        /\ IsFiniteSet({<<"other.cfg", 0>>})
    BY FS_Singleton
  <2>2. IsFiniteSet({<<"answer.toml", 0>>} \cup {<<"ks.cfg", 0>>})
    BY <2>1, FS_Union
  <2>3. IsFiniteSet(({<<"answer.toml", 0>>} \cup {<<"ks.cfg", 0>>}) \cup {<<"other.cfg", 0>>})
    BY <2>1, <2>2, FS_Union
  <2>4. ({<<"answer.toml", 0>>} \cup {<<"ks.cfg", 0>>}) \cup {<<"other.cfg", 0>>}
           = {<<"answer.toml", 0>>, <<"ks.cfg", 0>>, <<"other.cfg", 0>>}
    OBVIOUS
  <2> QED
    BY <2>3, <2>4
<1>6. IsFiniteSet(Labels \X (0..MaxId) \cup Bundles)
  BY <1>3, <1>4, FS_Union
<1> QED
  BY <1>5, <1>6, FS_Union DEF Paths

(* A set of naturals below a bound has a greatest element.                 *)
LEMMA MaxType ==
  ASSUME NEW n \in Nat, NEW S \in SUBSET (0..n), S # {}
  PROVE  Max(S) \in S /\ \A x \in S : x <= Max(S)
<1> DEFINE T == {m \in Nat : n - m \in S}
<1>1. T # {} /\ T \subseteq Nat
  <2>1. PICK x : x \in S
    OBVIOUS
  <2>2. x \in 0..n
    BY <2>1
  <2>3. n - x \in Nat /\ n - (n - x) = x
    BY <2>2
  <2> QED
    BY <2>1, <2>3
<1>2. PICK m \in T : \A y \in T : ~(y < m)
  <2> DEFINE R == OpToRel(<, Nat)
  <2>1. PICK m \in T : \A y \in T : ~(<<y, m>> \in R)
    BY <1>1, WFMin, NatLessThanWellFounded, Zenon
  <2>2. \A y \in T : ~(y < m)
    BY <1>1, <2>1, Zenon DEF OpToRel
  <2> QED
    BY <2>2
<1>3. \A x \in S : n - m >= x
  <2> SUFFICES ASSUME NEW x \in S PROVE n - m >= x
    OBVIOUS
  <2>1. x \in 0..n
    OBVIOUS
  <2>2. n - x \in Nat /\ n - (n - x) = x
    BY <2>1
  <2>3. n - x \in T
    BY <2>2
  <2>4. ~(n - x < m) /\ m \in Nat
    BY <1>2, <2>3
  <2> QED
    BY <2>1, <2>4
<1>4. \E x \in S : \A y \in S : x >= y
  BY <1>2, <1>3
<1>5. Max(S) \in S /\ \A y \in S : Max(S) >= y
  BY <1>4 DEF Max
<1> QED
  <2>1. \A y \in S : y \in Int
    OBVIOUS
  <2> QED
    BY <1>5, <2>1

(* SQLite's next id belongs to no row.                                     *)
LEMMA NewIdType ==
  ASSUME ConfigAssumption, RowsOK
  PROVE  NewId \in Nat /\ NewId \notin DOMAIN rows
<1>1. MaxId \in Nat
  BY DEF ConfigAssumption
<1>2. DOMAIN rows \cup {0} \in SUBSET (0..MaxId) /\ DOMAIN rows \cup {0} # {}
  BY <1>1 DEF RowsOK, Ids
<1> DEFINE m == Max(DOMAIN rows \cup {0})
<1>3. m \in DOMAIN rows \cup {0} /\ \A x \in DOMAIN rows \cup {0} : x <= m
  BY <1>1, <1>2, MaxType
<1> HIDE DEF m
<1>4. m \in Nat /\ NewId = m + 1
  BY <1>2, <1>3 DEF NewId, m
<1> QED
  BY <1>3, <1>4

(* There are at most MaxId rows.                                           *)
LEMMA RowsFinite ==
  ASSUME ConfigAssumption, RowsOK
  PROVE  IsFiniteSet(DOMAIN rows) /\ Cardinality(DOMAIN rows) \in 0..MaxId
<1>1. MaxId \in Nat \ {0}
  BY DEF ConfigAssumption
<1>2. IsFiniteSet(1..MaxId) /\ Cardinality(1..MaxId) = MaxId
  <2>1. 1 \in Int /\ MaxId \in Int /\ ~(1 > MaxId) /\ MaxId - 1 + 1 = MaxId
    BY <1>1
  <2> QED
    BY <2>1, FS_Interval, Zenon
<1>3. DOMAIN rows \in SUBSET (1..MaxId)
  BY DEF RowsOK, Ids
<1>4. IsFiniteSet(DOMAIN rows) /\ Cardinality(DOMAIN rows) <= MaxId
  BY <1>2, <1>3, FS_Subset
<1>5. Cardinality(DOMAIN rows) \in Nat
  BY <1>4, FS_CardinalityType
<1> QED
  BY <1>1, <1>4, <1>5

(* A forced name is a path.                                                *)
LEMMA PathKinds ==
  /\ NoPath \notin Paths
  /\ os \in {"proxmox", "esxi"} => ForcedName \in Paths
  /\ os = "proxmox" => ForcedName = AnswerPath
  BY DEF NoPath, Paths, Labels, Bundles, ForcedName, AnswerPath

----------------------------------------------------------------------------
(* Requests.                                                               *)

(* An idle process has a request of the right shape.                       *)
LEMMA NoReqType == NoReq \in Requests
<1>1. /\ "idle" \in Steps /\ "none" \in Kinds /\ 0 \in {0} \cup Ids /\ NoPath \in Paths \cup {NoPath}
      /\ {} \in SUBSET Paths
  BY DEF Steps, Kinds
<1> QED
  BY <1>1 DEF NoReq, Requests

(* The request of w becomes r.                                             *)
Becomes(w, r) ==
    /\ req' \in [Webs -> Requests]
    /\ req'[w] = r
    /\ \A v \in Webs \ {w} : req'[v] = req[v]

(* What an assignment to the request of w does.                            *)
LEMMA ReqBecomes ==
  ASSUME req \in [Webs -> Requests], NEW w \in Webs, NEW r \in Requests, req' = [req EXCEPT ![w] = r]
  PROVE  Becomes(w, r)
  BY DEF Becomes

(* What End does.                                                          *)
LEMMA EndMoves ==
  ASSUME req \in [Webs -> Requests], NEW w \in Webs, End(w)
  PROVE  Becomes(w, NoReq) /\ req'[w].at = "idle"
  BY NoReqType, ReqBecomes DEF End, NoReq

(* w goes on to place s with what it carries.                              *)
Goes(w, s) ==
    /\ req' \in [Webs -> Requests]
    /\ \A v \in Webs \ {w} : req'[v] = req[v]
    /\ req'[w].at = s
    /\ req'[w].kind = req[w].kind /\ req'[w].id = req[w].id /\ req'[w].path = req[w].path
    /\ req'[w].text = req[w].text

(* What Go does.                                                           *)
LEMMA GoMoves ==
  ASSUME req \in [Webs -> Requests], NEW w \in Webs, NEW s \in Steps, Go(w, s)
  PROVE  Goes(w, s)
<1>1. req[w] \in Requests
  OBVIOUS
<1>2. [req[w] EXCEPT !.at = s] \in Requests
  BY <1>1 DEF Requests
<1>3. /\ req'[w] = [req[w] EXCEPT !.at = s]
      /\ \A v \in Webs \ {w} : req'[v] = req[v]
      /\ req' \in [Webs -> Requests]
  BY <1>2 DEF Go
<1> QED
  BY <1>1, <1>3 DEF Goes, Requests

(* The requests that do not move keep their places.                        *)
LEMMA ReqKept ==
  ASSUME ReqOK, NEW w \in Webs, req' \in [Webs -> Requests], \A v \in Webs \ {w} : req'[v] = req[v],
         os' = os, PlaceOK(w)'
  PROVE  ReqOK'
<1>1. Texts' = Texts
  BY DEF Texts, ByHand
<1>2. \A v \in Webs \ {w} : PlaceOK(v)'
  BY <1>1 DEF ReqOK, PlaceOK
<1> QED
  BY <1>2 DEF ReqOK

(* A request that neither begins a push nor an upload, and holds no lock.  *)
Plain == {"idle", "publish", "pubmain", "pubmeta", "setactive", "answer", "upload", "unseed",
          "bootread", "truncate", "rewrite", "unset", "import", "unpack", "restore"}

(* Going to a plain place, the lock given back or not, keeps requests and lock. *)
LEMMA PlainKept ==
  ASSUME ReqOK, LockHeld, NEW w \in Webs, req' \in [Webs -> Requests],
         \A v \in Webs \ {w} : req'[v] = req[v], os' = os, req'[w].at \in Plain,
         lock' = lock \/ (lock' = {} /\ lock \subseteq {w})
  PROVE  ReqOK' /\ LockHeld'
<1>1. PlaceOK(w)'
  BY DEF PlaceOK, Plain, PushSteps
<1>2. ReqOK'
  BY <1>1, ReqKept
<1>3. \A v \in Webs : req'[v].at \in {"send", "record"} => v # w /\ lock = {v} /\ lock' = lock
  BY DEF LockHeld, Plain
<1>4. lock' = {} \/ \E v \in Webs : lock' = {v}
  BY DEF LockHeld
<1> QED
  BY <1>2, <1>3, <1>4 DEF LockHeld
----------------------------------------------------------------------------
(* The store. What a step leaves alone keeps its type.                     *)
LEMMA PartsKept ==
  ASSUME StoreInv, os' = os
  PROVE  /\ Texts' = Texts
         /\ files' = files => FilesOK'
         /\ UNCHANGED <<rows, active>> => RowsOK'
         /\ UNCHANGED <<seed, taken>> => SeedOK'
         /\ UNCHANGED <<pushes, spent, crossed>> => CountsOK'
<1>1. Texts' = Texts
  BY DEF Texts, ByHand
<1>2. files' = files => FilesOK'
  BY <1>1 DEF StoreInv, FilesOK, FileContent
<1>3. UNCHANGED <<rows, active>> => RowsOK'
  BY <1>1 DEF StoreInv, RowsOK
<1>4. UNCHANGED <<seed, taken>> => SeedOK'
  BY <1>1 DEF StoreInv, SeedOK
<1>5. UNCHANGED <<pushes, spent, crossed>> => CountsOK'
  BY DEF StoreInv, CountsOK
<1> QED
  BY <1>1, <1>2, <1>3, <1>4, <1>5

(* What Put does to the files.                                             *)
LEMMA PutTypes ==
  ASSUME FilesOK, os' = os, NEW p \in Paths, NEW n \in Texts, NEW f \in {"main", "meta"}, Put(p, f, n)
  PROVE  /\ FilesOK'
         /\ DOMAIN files' = DOMAIN files \cup {p}
         /\ f = "main" => files'[p].main = n
         /\ \A q \in DOMAIN files \ {p} : files'[q] = files[q]
<1> DEFINE old == IF p \in DOMAIN files THEN files[p] ELSE [main |-> 0, meta |-> 0]
<1>1. old \in FileContent
  BY DEF FilesOK, FileContent
<1>2. files' = [q \in DOMAIN files \cup {p} |-> IF q = p THEN [old EXCEPT ![f] = n] ELSE files[q]]
  BY DEF Put
<1> HIDE DEF old
<1>3. [old EXCEPT ![f] = n] \in FileContent /\ (f = "main" => [old EXCEPT ![f] = n].main = n)
  BY <1>1 DEF FileContent
<1>4. Texts' = Texts
  BY DEF Texts, ByHand
<1> DEFINE new == [old EXCEPT ![f] = n]
<1> HIDE DEF new
<1>5. /\ DOMAIN files' = DOMAIN files \cup {p} /\ files'[p] = new
      /\ \A q \in DOMAIN files \ {p} : files'[q] = files[q]
  BY <1>2 DEF new
<1>6. new \in FileContent /\ (f = "main" => new.main = n)
  BY <1>3 DEF new
<1>7. FilesOK'
  BY <1>4, <1>5, <1>6 DEF FilesOK, FileContent
<1> QED
  BY <1>5, <1>6, <1>7

(* A request begins.                                                       *)
LEMMA BeginTypes ==
  ASSUME ConfigAssumption, StoreInv, NEW w \in Webs, NEW r \in Requests, Begin(w, r),
         pushes' \in 0..MaxPushes[os], r.at \notin PushSteps \cup {"flush"} => r.at \in Plain \cup {"unlink"},
         r.at \in {"flush"} \cup PushSteps =>
             /\ r.kind \in {"create", "edit"} /\ r.path \in Paths /\ r.text \in Texts
             /\ os = "custom" => r.path \in Labels \X {0},
         r.at \in PushSteps => r.id \in Ids,
         r.at = "unlink" => r.kind = "delete", r.at = "flush" => r.kind = "create"
  PROVE  StoreInv'
<1>1. /\ UNCHANGED <<os, files, seed, taken, rows, active, lock>>
      /\ req' = [req EXCEPT ![w] = r] /\ spent' = spent + 1 /\ spent < MaxRequests[os]
      /\ crossed' \in BOOLEAN
  <2>1. crossed \in BOOLEAN
    BY DEF StoreInv, CountsOK
  <2> QED
    BY <2>1 DEF Begin, disk, base
<1>2. Becomes(w, r)
  BY <1>1, ReqBecomes DEF StoreInv, ReqOK
<1>3. FilesOK' /\ RowsOK' /\ SeedOK' /\ Texts' = Texts
  BY <1>1, PartsKept
<1>4. CountsOK'
  <2>1. MaxRequests[os] \in Nat /\ spent \in 0..MaxRequests[os]
    BY DEF StoreInv, CountsOK, ConfigAssumption, Systems
  <2>2. spent' \in 0..MaxRequests[os]
    BY <1>1, <2>1
  <2> QED
    BY <1>1, <2>2 DEF StoreInv, CountsOK
<1>5. PlaceOK(w)'
  BY <1>1, <1>2, <1>3 DEF PlaceOK, Becomes, Plain, PushSteps
<1>6. ReqOK'
  BY <1>1, <1>2, <1>5, ReqKept DEF StoreInv, Becomes
<1>7. LockHeld'
  <2>1. req'[w].at \notin {"send", "record"}
    BY <1>2 DEF Becomes, Plain, PushSteps
  <2> QED
    BY <1>1, <1>2, <2>1 DEF StoreInv, LockHeld, Becomes
<1> QED
  BY <1>3, <1>4, <1>6, <1>7 DEF StoreInv

(* Whatever request begins keeps the store.                                *)
LEMMA BeginsTypes ==
  ASSUME ConfigAssumption, StoreInv, NEW w \in Webs, Begins(w)
  PROVE  StoreInv'
<1>a. /\ pushes \in 0..MaxPushes[os] /\ MaxPushes[os] \in Nat
      /\ (pushes < MaxPushes[os] => pushes + 1 \in Texts /\ pushes + 1 \in 0..MaxPushes[os])
      /\ os \in Systems /\ pushes + 1 \in Nat
  <2>1. pushes \in 0..MaxPushes[os] /\ os \in Systems
    BY DEF StoreInv, CountsOK
  <2>2. MaxPushes[os] \in Nat
    BY <2>1 DEF ConfigAssumption, Systems
  <2> QED
    BY <2>1, <2>2 DEF Texts, ByHand
<1>b. \A i \in DOMAIN rows : i \in Ids /\ rows[i].path \in Paths
  BY DEF StoreInv, RowsOK
<1>c. {"idle", "flush", "write", "unlink", "publish", "setactive", "bootread", "unset", "import",
       "unpack"} \subseteq Steps
  BY DEF Steps
<1>d. {"none", "create", "edit", "delete", "activate", "clear", "scan", "extract", "refresh"} \subseteq Kinds
  BY DEF Kinds
<1>n. /\ NoReq \in Requests
      /\ NoReq = [at |-> "idle", kind |-> "none", id |-> 0, path |-> NoPath, text |-> 0,
                  was |-> FALSE, body |-> TRUE, known |-> {}]
  BY NoReqType DEF NoReq
<1>1. ASSUME NEW p \in Paths, os = "custom" => p \in Labels \X {0}, BeginCreate(w, p)
      PROVE  StoreInv'
  <2> DEFINE r == [NoReq EXCEPT !.at = "flush", !.kind = "create", !.path = p, !.text = pushes + 1]
  <2>1. pushes < MaxPushes[os] /\ pushes' = pushes + 1 /\ Begin(w, r)
    BY <1>1 DEF BeginCreate
  <2>2. r \in Requests
    BY <1>a, <1>c, <1>d, <1>n, <1>1 DEF Requests
  <2>3. r.at = "flush" /\ r.kind = "create" /\ r.path = p /\ r.text = pushes + 1
    BY DEF NoReq
  <2> HIDE DEF r
  <2> QED
    BY <1>a, <1>1, <2>1, <2>2, <2>3, BeginTypes DEF PushSteps
<1>2. ASSUME NEW i \in DOMAIN rows, NEW p, os # "ubuntu" => p \in Paths,
             os = "custom" => p \in Labels \X {0}, BeginEdit(w, i, p)
      PROVE  StoreInv'
  <2> DEFINE q == IF os = "ubuntu" THEN rows[i].path ELSE p
  <2> DEFINE r == [NoReq EXCEPT !.at = "write", !.kind = "edit", !.id = i, !.text = pushes + 1, !.path = q]
  <2>1. pushes < MaxPushes[os] /\ pushes' = pushes + 1 /\ Begin(w, r)
    BY <1>2 DEF BeginEdit
  <2>2. q \in Paths /\ (os = "custom" => q \in Labels \X {0})
    BY <1>b, <1>2
  <2> HIDE DEF q
  <2>3. r \in Requests
    BY <1>a, <1>b, <1>c, <1>d, <1>n, <2>2 DEF Requests
  <2>4. r.at = "write" /\ r.kind = "edit" /\ r.path = q /\ r.text = pushes + 1 /\ r.id = i
    BY DEF NoReq
  <2> HIDE DEF r
  <2> QED
    BY <1>a, <1>b, <2>1, <2>2, <2>3, <2>4, BeginTypes DEF PushSteps
<1>3. ASSUME NEW i \in DOMAIN rows, BeginDelete(w, i)
      PROVE  StoreInv'
  <2> DEFINE r == [NoReq EXCEPT !.at = "unlink", !.kind = "delete", !.id = i,
                                !.path = rows[i].path, !.was = (active = i)]
  <2>1. pushes' = pushes /\ Begin(w, r)
    BY <1>3 DEF BeginDelete
  <2>2. r \in Requests
    BY <1>b, <1>c, <1>d, <1>n DEF Requests
  <2>3. r.at = "unlink" /\ r.kind = "delete"
    BY DEF NoReq
  <2> HIDE DEF r
  <2> QED
    BY <1>a, <2>1, <2>2, <2>3, BeginTypes DEF PushSteps
<1>4. ASSUME NEW i \in DOMAIN rows, BeginActivate(w, i)
      PROVE  StoreInv'
  <2> DEFINE s == CASE os = "ubuntu" -> "publish" [] os = "proxmox" -> "setactive" [] OTHER -> "bootread"
  <2> DEFINE r == [NoReq EXCEPT !.kind = "activate", !.id = i, !.path = rows[i].path, !.at = s]
  <2>1. /\ Begin(w, r)
        /\ os = "proxmox" => pushes < MaxPushes[os]
        /\ pushes' = pushes + (IF os = "proxmox" THEN 1 ELSE 0)
    BY <1>4 DEF BeginActivate
  <2>2. s \in {"publish", "setactive", "bootread"}
    OBVIOUS
  <2> HIDE DEF s
  <2>3. r \in Requests
    BY <1>b, <1>c, <1>d, <1>n, <2>2 DEF Requests
  <2>4. r.at = s
    BY DEF NoReq
  <2>5. pushes' \in 0..MaxPushes[os]
    BY <1>a, <2>1
  <2> HIDE DEF r
  <2> QED
    BY <2>1, <2>2, <2>3, <2>4, <2>5, BeginTypes DEF PushSteps, Plain
<1>5. ASSUME BeginClear(w)
      PROVE  StoreInv'
  <2> DEFINE s == IF os = "esxi" THEN "bootread" ELSE "unset"
  <2> DEFINE r == [NoReq EXCEPT !.kind = "clear", !.at = s]
  <2>1. pushes' = pushes /\ Begin(w, r)
    BY <1>5 DEF BeginClear
  <2>2. s \in {"unset", "bootread"}
    OBVIOUS
  <2> HIDE DEF s
  <2>3. r \in Requests
    BY <1>c, <1>d, <1>n, <2>2 DEF Requests
  <2>4. r.at = s
    BY DEF NoReq
  <2> HIDE DEF r
  <2> QED
    BY <1>a, <2>1, <2>2, <2>3, <2>4, BeginTypes DEF PushSteps, Plain
<1>6. ASSUME BeginScan(w)
      PROVE  StoreInv'
  <2> DEFINE k == {rows[i].path : i \in DOMAIN rows}
  <2> DEFINE r == [NoReq EXCEPT !.kind = "scan", !.at = "import", !.known = k]
  <2>1. pushes' = pushes /\ Begin(w, r)
    BY <1>6 DEF BeginScan
  <2>2. k \in SUBSET Paths
    BY <1>b
  <2> HIDE DEF k
  <2>3. r \in Requests
    BY <1>c, <1>d, <1>n, <2>2 DEF Requests
  <2>4. r.at = "import"
    BY DEF NoReq
  <2> HIDE DEF r
  <2> QED
    BY <1>a, <2>1, <2>3, <2>4, BeginTypes DEF PushSteps, Plain
<1>10. ASSUME BeginExtract(w) \/ BeginRefresh(w)
       PROVE  StoreInv'
  <2>1. ASSUME NEW k \in Kinds, NEW s \in {"unpack", "bootread"}, pushes' = pushes,
               Begin(w, [NoReq EXCEPT !.kind = k, !.at = s])
        PROVE  StoreInv'
    <3> DEFINE r == [NoReq EXCEPT !.kind = k, !.at = s]
    <3>1. r \in Requests /\ r.at = s
      BY <1>c, <1>n DEF Requests
    <3> HIDE DEF r
    <3>2. Begin(w, r)
      BY <2>1 DEF r
    <3> QED
      BY <1>a, <2>1, <3>1, <3>2, BeginTypes DEF PushSteps, Plain
  <2> QED
    BY <1>d, <1>10, <2>1 DEF BeginExtract, BeginRefresh
<1>7. Labels \X {0} \subseteq Paths /\ <<"config", 2>> \in Paths \cup {NextSlug}
  <2>1. MaxId \in Nat
    BY DEF ConfigAssumption
  <2> QED
    BY <2>1 DEF Paths, Bundles
<1>8. NextSlug \in Paths
  <2>1. Cardinality(DOMAIN rows) + 1 \in 1..MaxId + 1
    BY RowsFinite DEF StoreInv, ConfigAssumption
  <2> QED
    BY <2>1 DEF NextSlug, Paths, Bundles
<1>9. ASSUME NEW p \in (CASE os = "custom" -> Labels \X {0}
                         [] os = "ubuntu" -> {NextSlug, <<"config", 2>>}
                         [] OTHER         -> {ForcedName})
      PROVE  p \in Paths /\ (os = "custom" => p \in Labels \X {0})
  <2>1. CASE os = "custom"
    BY <1>7, <1>9, <2>1
  <2>2. CASE os = "ubuntu"
    BY <1>7, <1>8, <1>9, <2>2
  <2>3. CASE os \in {"proxmox", "esxi"}
    BY <1>9, <2>3, PathKinds
  <2> QED
    BY <1>a, <2>1, <2>2, <2>3 DEF Systems
<1> QED
  BY <1>1, <1>2, <1>3, <1>4, <1>5, <1>6, <1>9, <1>10 DEF Begins
----------------------------------------------------------------------------
(* The steps of a push.                                                    *)

(* What a push carries at its places.                                      *)
LEMMA PushCarries ==
  ASSUME StoreInv, NEW w \in Webs, req[w].at \in {"flush"} \cup PushSteps
  PROVE  /\ req[w].kind \in {"create", "edit"}
         /\ req[w].path \in Paths /\ req[w].text \in Texts
         /\ os = "custom" /\ req[w].at \in {"flush", "write"} => req[w].path \in Labels \X {0}
         /\ req[w].at \in PushSteps => req[w].id \in Ids
  BY DEF StoreInv, ReqOK, PlaceOK

(* A push goes on to another place of its own.                             *)
LEMMA PushGoes ==
  ASSUME StoreInv, NEW w \in Webs, req[w].at \in PushSteps, NEW s \in {"meta", "mirror", "commit"},
         os' = os, lock' = lock, req' \in [Webs -> Requests], \A v \in Webs \ {w} : req'[v] = req[v],
         req'[w].at = s, req'[w].kind = req[w].kind, req'[w].id = req[w].id, req'[w].path \in Paths,
         req'[w].text = req[w].text
  PROVE  ReqOK' /\ LockHeld'
<1>1. Texts' = Texts
  BY DEF Texts, ByHand
<1>2. req[w].kind \in {"create", "edit"} /\ req[w].text \in Texts /\ req[w].id \in Ids
  BY PushCarries
<1>3. PlaceOK(w)'
  BY <1>1, <1>2 DEF PlaceOK, PushSteps
<1>4. ReqOK'
  BY <1>3, ReqKept DEF StoreInv
<1>5. LockHeld'
  BY DEF StoreInv, LockHeld
<1> QED
  BY <1>4, <1>5

(* Each step of a push keeps the store.                                    *)
LEMMA FlushTypes ==
  ASSUME ConfigAssumption, StoreInv, NEW w \in Webs, Flush(w)
  PROVE  StoreInv'
<1>1. /\ UNCHANGED <<os, files, seed, taken, rows, active, pushes, spent, crossed>>
      /\ lock = {} /\ lock' = {w} /\ req[w].at = "flush" /\ NewId \in Ids
      /\ req' = [req EXCEPT ![w].at = "write", ![w].id = NewId]
  BY DEF Flush, disk, Unlocked, At
<1>2. FilesOK' /\ RowsOK' /\ SeedOK' /\ CountsOK' /\ Texts' = Texts
  BY <1>1, PartsKept
<1>3. req[w] \in Requests /\ req \in [Webs -> Requests]
  BY DEF StoreInv, ReqOK
<1> DEFINE r == [req[w] EXCEPT !.at = "write", !.id = NewId]
<1>4. r \in Requests
  BY <1>1, <1>3 DEF Requests, Steps
<1>5. Becomes(w, r)
  BY <1>1, <1>3, <1>4, ReqBecomes DEF Becomes
<1>6. r.at = "write" /\ r.id = NewId /\ r.kind = req[w].kind /\ r.path = req[w].path /\ r.text = req[w].text
  BY <1>3 DEF Requests
<1> HIDE DEF r
<1>7. /\ req[w].kind \in {"create", "edit"} /\ req[w].path \in Paths /\ req[w].text \in Texts
      /\ os = "custom" => req[w].path \in Labels \X {0}
  BY <1>1, PushCarries
<1>8. PlaceOK(w)'
  BY <1>1, <1>2, <1>5, <1>6, <1>7 DEF PlaceOK, PushSteps, Becomes
<1>9. ReqOK'
  BY <1>1, <1>5, <1>8, ReqKept DEF StoreInv, Becomes
<1>10. LockHeld'
  <2>1. \A v \in Webs : req[v].at \notin {"send", "record"}
    BY <1>1 DEF StoreInv, LockHeld
  <2>2. \A v \in Webs : req'[v].at \notin {"send", "record"}
    BY <1>5, <1>6, <2>1 DEF Becomes
  <2> QED
    BY <1>1, <2>2 DEF LockHeld
<1> QED
  BY <1>2, <1>9, <1>10 DEF StoreInv

(* The name a push writes under is a path.                                 *)
LEMMA PathForType ==
  ASSUME ConfigAssumption, StoreInv, NEW w \in Webs, req[w].at = "write"
  PROVE  PathFor(req[w].path, req[w].id) \in Paths
<1>1. /\ req[w].path \in Paths /\ req[w].id \in Ids
      /\ os = "custom" => req[w].path \in Labels \X {0}
  BY PushCarries DEF PushSteps
<1>2. MaxId \in Nat
  BY DEF ConfigAssumption
<1>3. os = "custom" => <<req[w].path[1], req[w].id>> \in Paths
  BY <1>1, <1>2 DEF Paths, Ids
<1> QED
  BY <1>1, <1>3 DEF PathFor

LEMMA WriteMainTypes ==
  ASSUME ConfigAssumption, StoreInv, NEW w \in Webs, WriteMain(w)
  PROVE  StoreInv'
<1> DEFINE p == PathFor(req[w].path, req[w].id)
<1> DEFINE s == CASE os = "ubuntu" -> "meta" [] os = "proxmox" -> "mirror" [] OTHER -> "commit"
<1>1. /\ UNCHANGED <<os, seed, taken, rows, active, lock, pushes, spent, crossed>>
      /\ req[w].at = "write" /\ Put(p, "main", req[w].text)
      /\ req' = [req EXCEPT ![w].path = p, ![w].at = s]
  BY DEF WriteMain, base, At
<1>2. s \in {"meta", "mirror", "commit"} /\ s \in Steps
  BY DEF Steps
<1>3. p \in Paths
  BY <1>1, PathForType
<1> HIDE DEF p, s
<1>4. req[w].text \in Texts /\ req[w].at \in PushSteps
  BY <1>1, PushCarries DEF PushSteps
<1>5. FilesOK'
  BY <1>1, <1>3, <1>4, PutTypes DEF StoreInv
<1>6. RowsOK' /\ SeedOK' /\ CountsOK'
  BY <1>1, PartsKept
<1>7. req[w] \in Requests /\ req \in [Webs -> Requests]
  BY DEF StoreInv, ReqOK
<1> DEFINE r == [req[w] EXCEPT !.path = p, !.at = s]
<1>8. r \in Requests
  BY <1>2, <1>3, <1>7 DEF Requests
<1>9. Becomes(w, r)
  BY <1>1, <1>7, <1>8, ReqBecomes DEF Becomes
<1>10. r.at = s /\ r.id = req[w].id /\ r.kind = req[w].kind /\ r.path = p /\ r.text = req[w].text
  BY <1>7 DEF Requests
<1> HIDE DEF r
<1>11. ReqOK' /\ LockHeld'
  BY <1>1, <1>2, <1>3, <1>4, <1>9, <1>10, PushGoes DEF Becomes
<1> QED
  BY <1>5, <1>6, <1>11 DEF StoreInv

LEMMA WriteMetaTypes ==
  ASSUME StoreInv, NEW w \in Webs, WriteMeta(w)
  PROVE  StoreInv'
<1>1. /\ UNCHANGED <<os, seed, taken, rows, active, lock, pushes, spent, crossed>>
      /\ req[w].at = "meta" /\ Put(req[w].path, "meta", req[w].text) /\ Go(w, "commit")
  BY DEF WriteMeta, base, At
<1>2. req[w].at \in PushSteps /\ req[w].text \in Texts /\ req[w].path \in Paths
  BY <1>1, PushCarries DEF PushSteps
<1>3. FilesOK'
  BY <1>1, <1>2, PutTypes DEF StoreInv
<1>4. RowsOK' /\ SeedOK' /\ CountsOK'
  BY <1>1, PartsKept
<1>5. Goes(w, "commit")
  BY <1>1, GoMoves DEF StoreInv, ReqOK, Steps
<1>6. ReqOK' /\ LockHeld'
  BY <1>1, <1>2, <1>5, PushGoes DEF Goes
<1> QED
  BY <1>3, <1>4, <1>6 DEF StoreInv

LEMMA MirrorTypes ==
  ASSUME StoreInv, NEW w \in Webs, Mirror(w)
  PROVE  StoreInv'
<1>1. /\ UNCHANGED <<os, files, rows, active, lock, taken, pushes, spent, crossed>>
      /\ req[w].at = "mirror" /\ seed' = [seed EXCEPT !.main = req[w].text] /\ Go(w, "commit")
  BY DEF Mirror, base, At
<1>2. req[w].at \in PushSteps /\ req[w].text \in Texts /\ req[w].path \in Paths
  BY <1>1, PushCarries DEF PushSteps
<1>3. FilesOK' /\ RowsOK' /\ CountsOK' /\ Texts' = Texts
  BY <1>1, PartsKept
<1>4. SeedOK'
  BY <1>1, <1>2, <1>3 DEF StoreInv, SeedOK
<1>5. Goes(w, "commit")
  BY <1>1, GoMoves DEF StoreInv, ReqOK, Steps
<1>6. ReqOK' /\ LockHeld'
  BY <1>1, <1>2, <1>5, PushGoes DEF Goes
<1> QED
  BY <1>3, <1>4, <1>6 DEF StoreInv

LEMMA CommitPushTypes ==
  ASSUME StoreInv, NEW w \in Webs, CommitPush(w)
  PROVE  StoreInv'
<1> DEFINE i == req[w].id
<1> DEFINE gone == req[w].kind = "edit" /\ i \notin DOMAIN rows
<1>1. /\ UNCHANGED <<os, files, seed, taken, active, pushes, spent, crossed>>
      /\ req[w].at = "commit" /\ lock \subseteq {w} /\ lock' = {}
      /\ rows' = IF gone THEN rows
                 ELSE [j \in DOMAIN rows \cup {i} |->
                          IF j = i THEN [path |-> req[w].path, text |-> req[w].text] ELSE rows[j]]
      /\ End(w) \/ Go(w, "setactive") \/ Go(w, "publish")
  BY DEF CommitPush, disk, At, CanWrite
<1>2. req[w].at \in PushSteps /\ req[w].text \in Texts /\ req[w].path \in Paths /\ i \in Ids
  BY <1>1, PushCarries DEF PushSteps
<1>3. FilesOK' /\ SeedOK' /\ CountsOK' /\ Texts' = Texts
  BY <1>1, PartsKept
<1>4. RowsOK'
  <2>1. /\ DOMAIN rows' \subseteq Ids /\ active' \in {0} \cup DOMAIN rows'
        /\ \A j \in DOMAIN rows' : rows'[j] \in [path : Paths, text : {0} \cup Texts]
    BY <1>1, <1>2 DEF StoreInv, RowsOK
  <2> QED
    BY <1>3, <2>1 DEF RowsOK
<1>5. ReqOK' /\ LockHeld'
  <2>1. \/ Becomes(w, NoReq) /\ req'[w].at = "idle"
        \/ Goes(w, "setactive") \/ Goes(w, "publish")
    BY <1>1, EndMoves, GoMoves DEF StoreInv, ReqOK, Steps
  <2>2. /\ req' \in [Webs -> Requests] /\ req'[w].at \in Plain
        /\ \A v \in Webs \ {w} : req'[v] = req[v]
    BY <2>1 DEF Becomes, Goes, Plain
  <2> QED
    BY <1>1, <2>2, PlainKept DEF StoreInv
<1> QED
  BY <1>3, <1>4, <1>5 DEF StoreInv
----------------------------------------------------------------------------
(* The other steps of a request.                                           *)

(* The contents of a file are contents.                                    *)
LEMMA FilePart ==
  ASSUME FilesOK, NEW p \in DOMAIN files
  PROVE  files[p].main \in {0} \cup Texts /\ files[p].meta \in {0} \cup Texts
  BY DEF FilesOK, FileContent

(* The empty seed is a seed.                                               *)
LEMMA NoSeedType == NoSeed \in [main : {0} \cup Texts, meta : {0} \cup Texts, ks : Paths \cup {NoPath}, body : BOOLEAN]
  BY DEF NoSeed

(* A step that only writes the seed, and goes to a place without a lock.   *)
LEMMA SeedTypes ==
  ASSUME StoreInv, NEW w \in Webs, UNCHANGED <<os, base, files, pushes, spent, crossed>>, SeedOK',
         NEW s \in Plain, s \in Steps, End(w) \/ Go(w, s)
  PROVE  StoreInv'
<1>1. UNCHANGED <<rows, active, lock>>
  BY DEF base
<1>2. FilesOK' /\ RowsOK' /\ CountsOK'
  BY <1>1, PartsKept
<1>3. \/ Becomes(w, NoReq) /\ req'[w].at = "idle"
      \/ Goes(w, s)
  BY EndMoves, GoMoves DEF StoreInv, ReqOK
<1>4. /\ req' \in [Webs -> Requests] /\ req'[w].at \in Plain
      /\ \A v \in Webs \ {w} : req'[v] = req[v]
  BY <1>3 DEF Becomes, Goes, Plain
<1>5. ReqOK' /\ LockHeld'
  BY <1>1, <1>4, PlainKept DEF StoreInv
<1> QED
  BY <1>2, <1>5 DEF StoreInv

LEMMA PublishTypes ==
  ASSUME StoreInv, NEW w \in Webs, Publish(w)
  PROVE  StoreInv'
<1>1. /\ UNCHANGED <<os, base, files, taken, pushes, spent, crossed>>
      /\ seed' = NoSeed \/ seed' = seed
      /\ End(w) \/ Go(w, "pubmain")
  BY DEF Publish
<1>2. SeedOK'
  <2>1. Texts' = Texts
    BY <1>1 DEF Texts, ByHand
  <2> QED
    BY <1>1, <2>1, NoSeedType DEF StoreInv, SeedOK
<1> QED
  BY <1>1, <1>2, SeedTypes DEF Plain, Steps

LEMMA CopyMainTypes ==
  ASSUME StoreInv, NEW w \in Webs, CopyMain(w)
  PROVE  StoreInv'
<1> DEFINE p == req[w].path
<1>1. /\ UNCHANGED <<os, base, files, taken, pushes, spent, crossed>>
      /\ seed' = seed \/ (p \in DOMAIN files /\ seed' = [seed EXCEPT !.main = files[p].main])
      /\ End(w) \/ Go(w, "pubmeta")
  BY DEF CopyMain
<1>2. SeedOK'
  <2>1. Texts' = Texts
    BY <1>1 DEF Texts, ByHand
  <2>2. p \in DOMAIN files => files[p].main \in {0} \cup Texts
    BY FilePart DEF StoreInv
  <2> HIDE DEF p
  <2> QED
    BY <1>1, <2>1, <2>2 DEF StoreInv, SeedOK
<1> QED
  BY <1>1, <1>2, SeedTypes DEF Plain, Steps

LEMMA CopyMetaTypes ==
  ASSUME StoreInv, NEW w \in Webs, CopyMeta(w)
  PROVE  StoreInv'
<1> DEFINE p == req[w].path
<1>1. /\ UNCHANGED <<os, base, files, pushes, spent, crossed>>
      /\ seed' = seed \/ (p \in DOMAIN files /\ seed' = [seed EXCEPT !.meta = files[p].meta])
      /\ taken' \in {taken, "nothing"}
      /\ End(w) \/ Go(w, "setactive")
  BY DEF CopyMeta
<1>2. SeedOK'
  <2>1. Texts' = Texts
    BY <1>1 DEF Texts, ByHand
  <2>2. p \in DOMAIN files => files[p].meta \in {0} \cup Texts
    BY FilePart DEF StoreInv
  <2> HIDE DEF p
  <2> QED
    BY <1>1, <2>1, <2>2 DEF StoreInv, SeedOK, Losses
<1> QED
  BY <1>1, <1>2, SeedTypes DEF Plain, Steps

LEMMA AnswerTypes ==
  ASSUME StoreInv, NEW w \in Webs, Answer(w)
  PROVE  StoreInv'
<1> DEFINE i == req[w].id
<1> DEFINE n == IF rows[i].path \in DOMAIN files THEN files[rows[i].path].main ELSE rows[i].text
<1>1. /\ UNCHANGED <<os, base, files, taken, pushes, spent, crossed>>
      /\ seed' = seed \/ (i \in DOMAIN rows /\ seed' = [seed EXCEPT !.main = n])
      /\ End(w) \/ Go(w, "upload")
  BY DEF Answer
<1>2. SeedOK'
  <2>1. Texts' = Texts
    BY <1>1 DEF Texts, ByHand
  <2>2. i \in DOMAIN rows => n \in {0} \cup Texts
    <3>1. i \in DOMAIN rows => rows[i].text \in {0} \cup Texts
      BY DEF StoreInv, RowsOK
    <3> QED
      BY <3>1, FilePart DEF StoreInv
  <2> HIDE DEF n, i
  <2> QED
    BY <1>1, <2>1, <2>2 DEF StoreInv, SeedOK
<1> QED
  BY <1>1, <1>2, SeedTypes DEF Plain, Steps

LEMMA UnseedTypes ==
  ASSUME StoreInv, NEW w \in Webs, Unseed(w)
  PROVE  StoreInv'
<1>1. /\ UNCHANGED <<os, base, files, pushes, spent, crossed>>
      /\ seed' = NoSeed /\ taken' = "nothing" /\ End(w)
  BY DEF Unseed
<1>2. SeedOK'
  <2>1. Texts' = Texts
    BY <1>1 DEF Texts, ByHand
  <2> QED
    BY <1>1, <2>1, NoSeedType DEF StoreInv, SeedOK, Losses
<1> QED
  BY <1>1, <1>2, SeedTypes DEF Plain, Steps

LEMMA BootReadTypes ==
  ASSUME StoreInv, NEW w \in Webs, BootRead(w)
  PROVE  StoreInv'
<1> DEFINE s == IF Renames(w) THEN "truncate" ELSE "rewrite"
<1> DEFINE p == IF Renames(w) THEN req[w].path ELSE seed.ks
<1> DEFINE r == [req[w] EXCEPT !.at = s, !.path = p, !.body = seed.body]
<1>1. UNCHANGED <<os, base, rows, active, lock, files, seed, taken, pushes, spent, crossed>>
  BY DEF BootRead, base, disk
<1>2. FilesOK' /\ RowsOK' /\ SeedOK' /\ CountsOK'
  BY <1>1, PartsKept
<1>3. /\ req[w] \in Requests /\ req \in [Webs -> Requests]
      /\ seed.body \in BOOLEAN /\ seed.ks \in Paths \cup {NoPath}
  BY DEF StoreInv, ReqOK, SeedOK
<1>4. r \in Requests /\ r.at = s
  <2>1. s \in Steps /\ p \in Paths \cup {NoPath}
    BY <1>3 DEF Requests, Steps
  <2> HIDE DEF s, p
  <2> QED
    BY <1>3, <2>1 DEF Requests
<1>5. CASE End(w) \/ Go(w, "unset")
  BY <1>1, <1>2, <1>5, SeedTypes DEF Plain, Steps
<1>6. CASE req' = [req EXCEPT ![w] = r]
  <2>1. Becomes(w, r)
    BY <1>3, <1>4, <1>6, ReqBecomes
  <2>2. s \in Plain
    BY DEF Plain
  <2> HIDE DEF r, s
  <2>3. ReqOK' /\ LockHeld'
    BY <1>1, <1>4, <2>1, <2>2, PlainKept DEF StoreInv, Becomes
  <2> QED
    BY <1>2, <2>3 DEF StoreInv
<1>7. taken # "cfg" => req' = [req EXCEPT ![w] = r]
  <2>1. taken # "cfg" => req' = [req EXCEPT ![w].at = s, ![w].path = p, ![w].body = seed.body]
    BY DEF BootRead
  <2> HIDE DEF s, p
  <2> QED
    BY <1>3, <2>1 DEF Requests
<1>8. taken = "cfg" => End(w) \/ Go(w, "unset")
  BY DEF BootRead
<1> HIDE DEF r
<1> QED
  BY <1>5, <1>6, <1>7, <1>8

LEMMA BootTruncateTypes ==
  ASSUME StoreInv, NEW w \in Webs, BootTruncate(w)
  PROVE  StoreInv'
<1>1. /\ UNCHANGED <<os, base, files, pushes, spent, crossed>>
      /\ seed' = [seed EXCEPT !.body = FALSE, !.ks = NoPath] /\ Go(w, "rewrite")
      /\ taken' \in {taken, "ks"}
  BY DEF BootTruncate
<1>2. SeedOK'
  <2>1. Texts' = Texts
    BY <1>1 DEF Texts, ByHand
  <2> QED
    BY <1>1, <2>1 DEF StoreInv, SeedOK, Losses
<1> QED
  BY <1>1, <1>2, SeedTypes DEF Plain, Steps

LEMMA BootRewriteTypes ==
  ASSUME StoreInv, NEW w \in Webs, BootRewrite(w)
  PROVE  StoreInv'
<1> DEFINE k == IF req[w].kind \in {"activate", "refresh"} THEN req[w].path ELSE NoPath
<1>1. /\ UNCHANGED <<os, base, files, pushes, spent, crossed>>
      /\ seed' = [seed EXCEPT !.body = req[w].body, !.ks = k]
      /\ taken' \in {"nothing", taken, "ks"}
      /\ End(w) \/ Go(w, "setactive") \/ Go(w, "unset")
  BY DEF BootRewrite
<1>2. SeedOK'
  <2>1. Texts' = Texts
    BY <1>1 DEF Texts, ByHand
  <2>2. req[w] \in Requests
    BY DEF StoreInv, ReqOK
  <2>3. k \in Paths \cup {NoPath} /\ req[w].body \in BOOLEAN
    BY <2>2 DEF Requests
  <2> HIDE DEF k
  <2> QED
    BY <1>1, <2>1, <2>3 DEF StoreInv, SeedOK, Losses
<1> QED
  BY <1>1, <1>2, SeedTypes DEF Plain, Steps

(* Another extraction.                                                     *)
LEMMA UnpackTypes ==
  ASSUME StoreInv, NEW w \in Webs, Unpack(w)
  PROVE  StoreInv'
<1>1. /\ UNCHANGED <<os, base, files, pushes, spent, crossed>>
      /\ seed' \in {seed, NoSeed, [NoSeed EXCEPT !.body = FALSE]}
      /\ taken' \in {taken, "seed", "cfg"}
      /\ End(w) \/ Go(w, "truncate") \/ Go(w, "restore")
  BY DEF Unpack, Wipe
<1>2. SeedOK'
  <2>1. Texts' = Texts
    BY <1>1 DEF Texts, ByHand
  <2> QED
    BY <1>1, <2>1, NoSeedType DEF StoreInv, SeedOK, Losses
<1> QED
  BY <1>1, <1>2, SeedTypes DEF Plain, Steps

LEMMA RestoreTypes ==
  ASSUME StoreInv, NEW w \in Webs, Restore(w)
  PROVE  StoreInv'
<1> DEFINE p == rows[active].path
<1> DEFINE r == [req[w] EXCEPT !.at = "publish", !.id = active, !.path = p]
<1>1. UNCHANGED <<os, base, rows, active, lock, files, seed, taken, pushes, spent, crossed>>
  BY DEF Restore, base, disk
<1>2. FilesOK' /\ RowsOK' /\ SeedOK' /\ CountsOK'
  BY <1>1, PartsKept
<1>3. req[w] \in Requests /\ req \in [Webs -> Requests]
  BY DEF StoreInv, ReqOK
<1>4. CASE active = 0
  BY <1>1, <1>2, <1>4, SeedTypes DEF Restore, Plain, Steps
<1>5. CASE active # 0
  <2>1. p \in Paths /\ active \in Ids
    BY <1>5 DEF StoreInv, RowsOK
  <2>2. req' = [req EXCEPT ![w].at = "publish", ![w].id = active, ![w].path = p]
    BY <1>5 DEF Restore
  <2> HIDE DEF p
  <2>3. req' = [req EXCEPT ![w] = r] /\ r \in Requests /\ r.at = "publish"
    BY <1>3, <2>1, <2>2 DEF Requests, Steps
  <2> HIDE DEF r
  <2>4. Becomes(w, r)
    BY <1>3, <2>3, ReqBecomes
  <2>5. ReqOK' /\ LockHeld'
    BY <1>1, <2>3, <2>4, PlainKept DEF StoreInv, Becomes, Plain
  <2> QED
    BY <1>2, <2>5 DEF StoreInv
<1> QED
  BY <1>4, <1>5

(* A step that only writes rows, and goes to a place without a lock.       *)
LEMMA BaseTypes ==
  ASSUME StoreInv, NEW w \in Webs, UNCHANGED <<os, disk, pushes, spent, crossed>>, RowsOK',
         lock' = lock, NEW s \in Plain, s \in Steps, End(w) \/ Go(w, s)
  PROVE  StoreInv'
<1>1. UNCHANGED <<files, seed, taken>>
  BY DEF disk
<1>2. FilesOK' /\ SeedOK' /\ CountsOK'
  BY <1>1, PartsKept
<1>3. \/ Becomes(w, NoReq) /\ req'[w].at = "idle"
      \/ Goes(w, s)
  BY EndMoves, GoMoves DEF StoreInv, ReqOK
<1>4. /\ req' \in [Webs -> Requests] /\ req'[w].at \in Plain
      /\ \A v \in Webs \ {w} : req'[v] = req[v]
  BY <1>3 DEF Becomes, Goes, Plain
<1>5. ReqOK' /\ LockHeld'
  BY <1>4, PlainKept DEF StoreInv
<1> QED
  BY <1>2, <1>5 DEF StoreInv

LEMMA SetActiveTypes ==
  ASSUME StoreInv, NEW w \in Webs, SetActive(w)
  PROVE  StoreInv'
<1>1. /\ UNCHANGED <<os, disk, rows, lock, pushes, spent, crossed>>
      /\ active' = active \/ (req[w].id \in DOMAIN rows /\ active' = req[w].id)
      /\ End(w) \/ Go(w, "answer")
  BY DEF SetActive
<1>2. RowsOK'
  <2>1. Texts' = Texts
    BY <1>1 DEF Texts, ByHand
  <2> QED
    BY <1>1, <2>1 DEF StoreInv, RowsOK
<1> QED
  BY <1>1, <1>2, BaseTypes DEF Plain, Steps

LEMMA DropTypes ==
  ASSUME StoreInv, NEW w \in Webs, Drop(w)
  PROVE  StoreInv'
<1> DEFINE i == req[w].id
<1>1. /\ UNCHANGED <<os, disk, lock, pushes, spent, crossed>>
      /\ \/ UNCHANGED <<rows, active>>
         \/ /\ rows' = [j \in DOMAIN rows \ {i} |-> rows[j]]
            /\ active' = 0 \/ (active' = active /\ active # i)
      /\ End(w) \/ Go(w, "bootread") \/ Go(w, "unseed")
  <2>1. CASE active = i /\ ~req[w].was
    BY <2>1 DEF Drop
  <2>2. CASE ~(active = i /\ ~req[w].was)
    <3>1. /\ UNCHANGED <<os, disk, lock, pushes, spent, crossed>>
          /\ rows' = [j \in DOMAIN rows \ {i} |-> rows[j]]
          /\ active' = IF req[w].was THEN 0 ELSE active
      BY <2>2 DEF Drop
    <3>2. End(w) \/ Go(w, "bootread") \/ Go(w, "unseed")
      BY <2>2 DEF Drop
    <3> QED
      BY <2>2, <3>1, <3>2
  <2> QED
    BY <2>1, <2>2
<1>2. RowsOK'
  <2>1. Texts' = Texts
    BY <1>1 DEF Texts, ByHand
  <2>2. CASE UNCHANGED <<rows, active>>
    BY <2>1, <2>2 DEF StoreInv, RowsOK
  <2>3. CASE /\ rows' = [j \in DOMAIN rows \ {i} |-> rows[j]]
             /\ active' = 0 \/ (active' = active /\ active # i)
    BY <2>1, <2>3 DEF StoreInv, RowsOK
  <2> QED
    BY <1>1, <2>2, <2>3
<1> QED
  BY <1>1, <1>2, BaseTypes DEF Plain, Steps

LEMMA UnsetTypes ==
  ASSUME StoreInv, NEW w \in Webs, Unset(w)
  PROVE  StoreInv'
<1>1. /\ UNCHANGED <<os, disk, rows, lock, pushes, spent, crossed>>
      /\ active' = 0
      /\ End(w) \/ Go(w, "unseed")
  BY DEF Unset
<1>2. RowsOK'
  <2>1. Texts' = Texts
    BY <1>1 DEF Texts, ByHand
  <2> QED
    BY <1>1, <2>1 DEF StoreInv, RowsOK
<1> QED
  BY <1>1, <1>2, BaseTypes DEF Plain, Steps

LEMMA UnlinkTypes ==
  ASSUME StoreInv, NEW w \in Webs, Unlink(w)
  PROVE  StoreInv'
<1>1. /\ UNCHANGED <<os, rows, active, lock, seed, taken, pushes, spent, crossed>>
      /\ req[w].at = "unlink" /\ Go(w, "drop")
      /\ files' = [p \in DOMAIN files \ {req[w].path} |-> files[p]]
  BY DEF Unlink, base, At
<1>2. RowsOK' /\ SeedOK' /\ CountsOK' /\ Texts' = Texts
  BY <1>1, PartsKept
<1>3. FilesOK'
  BY <1>1, <1>2 DEF StoreInv, FilesOK, FileContent
<1>4. Goes(w, "drop")
  BY <1>1, GoMoves DEF StoreInv, ReqOK, Steps
<1>5. PlaceOK(w)'
  <2>1. req[w].kind = "delete"
    BY <1>1 DEF StoreInv, ReqOK, PlaceOK
  <2> QED
    BY <1>4, <2>1 DEF Goes, PlaceOK, PushSteps
<1>6. ReqOK'
  BY <1>1, <1>4, <1>5, ReqKept DEF StoreInv, Goes
<1>7. LockHeld'
  BY <1>1, <1>4 DEF StoreInv, LockHeld, Goes
<1> QED
  BY <1>2, <1>3, <1>6, <1>7 DEF StoreInv

LEMMA ImportTypes ==
  ASSUME ConfigAssumption, StoreInv, NEW w \in Webs, Import(w)
  PROVE  StoreInv'
<1> DEFINE found == {p \in DOMAIN files : Whole(p) /\ p \notin req[w].known}
<1> DEFINE order == SetToSeq(found)
<1> DEFINE c == Cardinality(found)
<1> DEFINE ids == NewId..NewId + c - 1
<1>1. /\ UNCHANGED <<os, disk, active, lock, pushes, spent, crossed>>
      /\ ids \subseteq Ids /\ End(w)
      /\ rows' = [i \in DOMAIN rows \cup ids |->
                   IF i \in ids
                   THEN [path |-> order[i - NewId + 1], text |-> files[order[i - NewId + 1]].main]
                   ELSE rows[i]]
  BY DEF Import
<1>2. IsFiniteSet(found) /\ found \subseteq DOMAIN files /\ DOMAIN files \subseteq Paths
  <2>1. DOMAIN files \subseteq Paths
    BY DEF StoreInv, FilesOK
  <2>2. found \in SUBSET Paths
    BY <2>1
  <2> HIDE DEF found
  <2>3. IsFiniteSet(found)
    BY <2>2, PathsFinite, FS_Subset
  <2> QED
    BY <2>1, <2>3 DEF found
<1> HIDE DEF found
<1>3. order \in [1..c -> found]
  BY <1>2, SetToSeqType
<1>4. c \in Nat
  BY <1>2, FS_CardinalityType
<1> HIDE DEF order, c
<1>5. NewId \in Nat
  BY NewIdType DEF StoreInv
<1>6. \A i \in ids : i - NewId + 1 \in 1..c
  BY <1>4, <1>5
<1>7. \A i \in ids : /\ order[i - NewId + 1] \in Paths
                     /\ files[order[i - NewId + 1]].main \in {0} \cup Texts
  <2> SUFFICES ASSUME NEW i \in ids
               PROVE  /\ order[i - NewId + 1] \in Paths
                      /\ files[order[i - NewId + 1]].main \in {0} \cup Texts
    OBVIOUS
  <2>1. order[i - NewId + 1] \in found
    BY <1>3, <1>6
  <2>2. order[i - NewId + 1] \in DOMAIN files /\ order[i - NewId + 1] \in Paths
    BY <1>2, <2>1
  <2> QED
    BY <2>2, FilePart DEF StoreInv
<1> HIDE DEF ids
<1>8. RowsOK'
  <2>1. Texts' = Texts
    BY <1>1 DEF Texts, ByHand
  <2>2. \A i \in DOMAIN rows : rows[i] \in [path : Paths, text : {0} \cup Texts]
    BY DEF StoreInv, RowsOK
  <2>3. DOMAIN rows' = DOMAIN rows \cup ids
    BY <1>1
  <2>4. \A i \in DOMAIN rows' : rows'[i] \in [path : Paths, text : {0} \cup Texts]
    <3> SUFFICES ASSUME NEW i \in DOMAIN rows \cup ids
                 PROVE  rows'[i] \in [path : Paths, text : {0} \cup Texts]
      BY <2>3
    <3>1. CASE i \in ids
      BY <1>1, <1>7, <3>1
    <3>2. CASE i \notin ids
      BY <1>1, <2>2, <3>2
    <3> QED
      BY <3>1, <3>2
  <2> QED
    BY <1>1, <2>1, <2>3, <2>4 DEF StoreInv, RowsOK
<1> QED
  BY <1>1, <1>8, BaseTypes DEF Plain, Steps

(* Every step of a request keeps the store.                                *)
LEMMA WebTypes ==
  ASSUME ConfigAssumption, StoreInv, NEW w \in Webs, WebStep(w)
  PROVE  StoreInv'
  BY BeginsTypes, FlushTypes, WriteMainTypes, WriteMetaTypes, MirrorTypes, CommitPushTypes, PublishTypes,
     CopyMainTypes, CopyMetaTypes, SetActiveTypes, AnswerTypes, UnlinkTypes, DropTypes, UnseedTypes,
     UnsetTypes, UnpackTypes, RestoreTypes, BootReadTypes, BootTruncateTypes, BootRewriteTypes, ImportTypes
     DEF WebStep
----------------------------------------------------------------------------
(* What a step of a request leaves alone.                                  *)

(* Only the steps of an upload go to its last places.                      *)
WebMoves(w) ==
    /\ os' = os /\ req'[w].at \notin {"send", "record"}
    /\ \A v \in Webs \ {w} : req'[v] = req[v]

(* Only the upload of a request goes to its last places: the steps one by one. *)
LEMMA BeginMoves ==
  ASSUME StoreInv, NEW w \in Webs, NEW r, Begin(w, r), r.at \notin {"send", "record"}
  PROVE  WebMoves(w)
  BY DEF StoreInv, ReqOK, Begin, WebMoves

LEMMA BeginsMove ==
  ASSUME StoreInv, NEW w \in Webs, Begins(w)
  PROVE  WebMoves(w)
<1>1. ASSUME NEW p, BeginCreate(w, p) PROVE WebMoves(w)
  BY <1>1, BeginMoves DEF BeginCreate, NoReq
<1>2. ASSUME NEW i, NEW p, BeginEdit(w, i, p) PROVE WebMoves(w)
  BY <1>2, BeginMoves DEF BeginEdit, NoReq
<1>3. ASSUME NEW i, BeginDelete(w, i) PROVE WebMoves(w)
  BY <1>3, BeginMoves DEF BeginDelete, NoReq
<1>4. ASSUME NEW i, BeginActivate(w, i) PROVE WebMoves(w)
  <2> DEFINE s == CASE os = "ubuntu" -> "publish" [] os = "proxmox" -> "setactive" [] OTHER -> "bootread"
  <2> DEFINE r == [NoReq EXCEPT !.kind = "activate", !.id = i, !.path = rows[i].path, !.at = s]
  <2>1. Begin(w, r)
    BY <1>4 DEF BeginActivate
  <2>2. s \notin {"send", "record"}
    OBVIOUS
  <2> HIDE DEF s
  <2>3. r.at = s
    BY DEF NoReq
  <2> HIDE DEF r
  <2> QED
    BY <2>1, <2>2, <2>3, BeginMoves
<1>5. ASSUME BeginClear(w) PROVE WebMoves(w)
  <2> DEFINE s == IF os = "esxi" THEN "bootread" ELSE "unset"
  <2> DEFINE r == [NoReq EXCEPT !.kind = "clear", !.at = s]
  <2>1. Begin(w, r)
    BY <1>5 DEF BeginClear
  <2>2. s \notin {"send", "record"}
    OBVIOUS
  <2> HIDE DEF s
  <2>3. r.at = s
    BY DEF NoReq
  <2> HIDE DEF r
  <2> QED
    BY <2>1, <2>2, <2>3, BeginMoves
<1>6. ASSUME BeginScan(w) PROVE WebMoves(w)
  <2> DEFINE r == [NoReq EXCEPT !.kind = "scan", !.at = "import", !.known = {rows[i].path : i \in DOMAIN rows}]
  <2>1. Begin(w, r)
    BY <1>6 DEF BeginScan
  <2>2. r.at = "import"
    BY DEF NoReq
  <2> HIDE DEF r
  <2> QED
    BY <2>1, <2>2, BeginMoves
<1>7. ASSUME NEW k, NEW s \in {"unpack", "bootread"}, Begin(w, [NoReq EXCEPT !.kind = k, !.at = s])
      PROVE  WebMoves(w)
  <2> DEFINE r == [NoReq EXCEPT !.kind = k, !.at = s]
  <2>1. r.at = s
    BY DEF NoReq
  <2> HIDE DEF r
  <2>2. Begin(w, r)
    BY <1>7 DEF r
  <2> QED
    BY <1>7, <2>1, <2>2, BeginMoves
<1>8. BeginExtract(w) \/ BeginRefresh(w) => WebMoves(w)
  BY <1>7 DEF BeginExtract, BeginRefresh
<1> QED
  BY <1>1, <1>2, <1>3, <1>4, <1>5, <1>6, <1>8 DEF Begins

LEMMA EndOrGo ==
  ASSUME StoreInv, NEW w \in Webs, os' = os, NEW s, s \notin {"send", "record"}, End(w) \/ Go(w, s)
  PROVE  WebMoves(w)
<1>1. req \in [Webs -> Requests]
  BY DEF StoreInv, ReqOK
<1>2. CASE End(w)
  BY <1>1, <1>2, EndMoves DEF WebMoves, Becomes
<1>3. CASE Go(w, s)
  <2>1. req[w] \in Requests
    BY <1>1
  <2>2. [req[w] EXCEPT !.at = s].at = s
    BY <2>1 DEF Requests
  <2> QED
    BY <1>1, <1>3, <2>2 DEF Go, WebMoves
<1> QED
  BY <1>2, <1>3

(* No step of WebStep sends a task.                                        *)
LEMMA WebStepMoves ==
  ASSUME StoreInv, NEW w \in Webs, WebStep(w)
  PROVE  WebMoves(w)
<1>0. req \in [Webs -> Requests] /\ req[w] \in Requests
  BY DEF StoreInv, ReqOK
<1>1. CASE Flush(w)
  BY <1>0, <1>1 DEF Flush, WebMoves, Requests
<1>2. CASE WriteMain(w)
  <2> DEFINE s == CASE os = "ubuntu" -> "meta" [] os = "proxmox" -> "mirror" [] OTHER -> "commit"
  <2> DEFINE p == PathFor(req[w].path, req[w].id)
  <2>1. os' = os /\ req' = [req EXCEPT ![w].path = p, ![w].at = s]
    BY <1>2 DEF WriteMain
  <2>2. s \notin {"send", "record"}
    OBVIOUS
  <2> HIDE DEF s, p
  <2> QED
    BY <1>0, <2>1, <2>2 DEF WebMoves, Requests
<1>3. CASE WriteMeta(w) \/ Mirror(w)
  BY <1>3, EndOrGo DEF WriteMeta, Mirror
<1>4. CASE CommitPush(w)
  <2>1. os' = os /\ (End(w) \/ Go(w, "setactive") \/ Go(w, "publish"))
    BY <1>4 DEF CommitPush
  <2> QED
    BY <2>1, EndOrGo
<1>5. CASE Publish(w) \/ CopyMain(w) \/ CopyMeta(w)
  <2>1. os' = os /\ (End(w) \/ Go(w, "pubmain") \/ Go(w, "pubmeta") \/ Go(w, "setactive"))
    BY <1>5 DEF Publish, CopyMain, CopyMeta
  <2> QED
    BY <2>1, EndOrGo
<1>6. CASE SetActive(w) \/ Answer(w)
  <2>1. os' = os /\ (End(w) \/ Go(w, "answer") \/ Go(w, "upload"))
    BY <1>6 DEF SetActive, Answer
  <2> QED
    BY <2>1, EndOrGo
<1>7. CASE Unlink(w) \/ Unseed(w)
  BY <1>7, EndOrGo DEF Unlink, Unseed
<1>8. CASE Drop(w)
  <2>1. os' = os /\ (End(w) \/ Go(w, "bootread") \/ Go(w, "unseed"))
    BY <1>8 DEF Drop
  <2> QED
    BY <2>1, EndOrGo
<1>9. CASE Unset(w)
  <2>1. os' = os /\ (End(w) \/ Go(w, "unseed"))
    BY <1>9 DEF Unset
  <2> QED
    BY <2>1, EndOrGo
<1>10. CASE BootRead(w)
  <2> DEFINE s == IF Renames(w) THEN "truncate" ELSE "rewrite"
  <2> DEFINE p == IF Renames(w) THEN req[w].path ELSE seed.ks
  <2>1. /\ os' = os
        /\ \/ End(w) \/ Go(w, "unset")
           \/ req' = [req EXCEPT ![w].at = s, ![w].path = p, ![w].body = seed.body]
    BY <1>10 DEF BootRead
  <2>2. s \notin {"send", "record"}
    OBVIOUS
  <2> HIDE DEF s, p
  <2>3. CASE req' = [req EXCEPT ![w].at = s, ![w].path = p, ![w].body = seed.body]
    BY <1>0, <2>1, <2>2, <2>3 DEF WebMoves, Requests
  <2> QED
    BY <2>1, <2>3, EndOrGo
<1>11. CASE BootTruncate(w) \/ BootRewrite(w)
  <2>1. os' = os /\ (End(w) \/ Go(w, "rewrite") \/ Go(w, "setactive") \/ Go(w, "unset"))
    BY <1>11 DEF BootTruncate, BootRewrite
  <2> QED
    BY <2>1, EndOrGo
<1>13. CASE Unpack(w)
  <2>1. os' = os /\ (End(w) \/ Go(w, "truncate") \/ Go(w, "restore"))
    BY <1>13 DEF Unpack
  <2> QED
    BY <2>1, EndOrGo
<1>14. CASE Restore(w)
  <2> DEFINE p == rows[active].path
  <2>1. /\ os' = os
        /\ End(w) \/ req' = [req EXCEPT ![w].at = "publish", ![w].id = active, ![w].path = p]
    BY <1>14 DEF Restore
  <2> HIDE DEF p
  <2>2. CASE req' = [req EXCEPT ![w].at = "publish", ![w].id = active, ![w].path = p]
    BY <1>0, <2>1, <2>2 DEF WebMoves, Requests
  <2> QED
    BY <2>1, <2>2, EndOrGo
<1>12. CASE Import(w)
  <2>1. os' = os /\ End(w)
    BY <1>12 DEF Import
  <2> QED
    BY <1>0, <2>1, EndMoves DEF WebMoves, Becomes
<1> QED
  BY <1>1, <1>2, <1>3, <1>4, <1>5, <1>6, <1>7, <1>8, <1>9, <1>10, <1>11, <1>12, <1>13, <1>14, BeginsMove
     DEF WebStep

----------------------------------------------------------------------------
(* The upload of a request and its task.                                   *)

(* Each step of the upload keeps the store.                                *)
LEMMA FlushUploadTypes ==
  ASSUME StoreInv, NEW w \in Webs, FlushUpload(w)
  PROVE  StoreInv'
<1>1. /\ UNCHANGED <<os, files, seed, taken, rows, active, pushes, spent, crossed>>
      /\ lock = {} /\ lock' = {w} /\ Go(w, "send")
  BY DEF FlushUpload, disk, Unlocked
<1>2. FilesOK' /\ RowsOK' /\ SeedOK' /\ CountsOK'
  BY <1>1, PartsKept
<1>3. Goes(w, "send")
  BY <1>1, GoMoves DEF StoreInv, ReqOK, Steps
<1>4. PlaceOK(w)'
  BY <1>3 DEF Goes, PlaceOK, PushSteps
<1>5. ReqOK'
  BY <1>1, <1>3, <1>4, ReqKept DEF StoreInv, Goes
<1>6. LockHeld'
  BY <1>1, <1>3 DEF StoreInv, LockHeld, Goes
<1> QED
  BY <1>2, <1>5, <1>6 DEF StoreInv

(* The number of the task that is sent next.                               *)
LEMMA SendsNext ==
  ASSUME InjectAssumption, SentInOrder, Cardinality(Sent) + 1 \in Tasks
  PROVE  \E n \in 0..MaxTasks : Sent = 1..n /\ Cardinality(Sent) + 1 = n + 1 /\ n + 1 \in Tasks
<1>1. PICK n \in 0..MaxTasks : Sent = 1..n
  BY DEF SentInOrder
<1>2. n \in Nat /\ MaxTasks \in Nat
  BY DEF InjectAssumption
<1>3. Cardinality(1..n) = n
  <2>1. Cardinality(1..n) = IF 1 > n THEN 0 ELSE n - 1 + 1
    <3>1. 1 \in Int /\ n \in Int
      BY <1>2
    <3> QED
      BY <3>1, FS_Interval, Zenon
  <2> QED
    BY <1>2, <2>1
<1> QED
  BY <1>1, <1>3

LEMMA SendTypes ==
  ASSUME InjectAssumption, StoreInv, SentInOrder, NEW w \in Webs, Send(w)
  PROVE  StoreInv'
<1> DEFINE t == Cardinality(Sent) + 1
<1>1. /\ UNCHANGED <<os, files, seed, taken, rows, active, lock, pushes, spent, crossed>>
      /\ req[w].at = "send" /\ req' = [req EXCEPT ![w].at = "record", ![w].text = t] /\ t \in Tasks
  BY DEF Send, disk, base, At
<1>2. FilesOK' /\ RowsOK' /\ SeedOK' /\ CountsOK'
  BY <1>1, PartsKept
<1>3. t \in Nat
  BY <1>1 DEF Tasks
<1> HIDE DEF t
<1>4. req[w] \in Requests /\ req \in [Webs -> Requests]
  BY DEF StoreInv, ReqOK
<1> DEFINE r == [req[w] EXCEPT !.at = "record", !.text = t]
<1>5. r \in Requests /\ r.at = "record"
  BY <1>3, <1>4 DEF Requests, Steps
<1>6. Becomes(w, r)
  BY <1>1, <1>4, <1>5, ReqBecomes DEF Becomes
<1> HIDE DEF r
<1>7. PlaceOK(w)'
  BY <1>5, <1>6 DEF Becomes, PlaceOK, PushSteps
<1>8. ReqOK'
  BY <1>1, <1>6, <1>7, ReqKept DEF StoreInv, Becomes
<1>9. LockHeld'
  BY <1>1, <1>5, <1>6 DEF StoreInv, LockHeld, Becomes
<1> QED
  BY <1>2, <1>8, <1>9 DEF StoreInv

(* A request that holds the lock ends.                                     *)
LEMMA ReleaseTypes ==
  ASSUME StoreInv, NEW w \in Webs, req[w].at \in {"send", "record"}, lock' = {}, End(w),
         UNCHANGED <<os, disk, rows, active, pushes, spent, crossed>>
  PROVE  StoreInv' /\ lock = {w} /\ WebMoves(w)
<1>1. UNCHANGED <<files, seed, taken>> /\ lock = {w}
  BY DEF disk, StoreInv, LockHeld
<1>2. FilesOK' /\ RowsOK' /\ SeedOK' /\ CountsOK'
  BY <1>1, PartsKept
<1>3. Becomes(w, NoReq) /\ req'[w].at = "idle"
  BY EndMoves DEF StoreInv, ReqOK
<1>4. ReqOK' /\ LockHeld'
  BY <1>1, <1>3, PlainKept DEF StoreInv, Becomes, Plain
<1> QED
  BY <1>1, <1>2, <1>3, <1>4 DEF StoreInv, WebMoves, Becomes

(* Redis does not answer: the lock is given back.                          *)
LEMMA SendFailsTypes ==
  ASSUME StoreInv, NEW w \in Webs, SendFails(w)
  PROVE  StoreInv' /\ lock = {w} /\ WebMoves(w)
  BY ReleaseTypes DEF SendFails, At

(* The row is committed: the lock is given back.                           *)
LEMMA RecordTypes ==
  ASSUME StoreInv, NEW w \in Webs, Record(w)
  PROVE  StoreInv' /\ lock = {w} /\ WebMoves(w)
  BY ReleaseTypes DEF Record, At

(* A step of a task leaves the store alone.                                *)
LEMMA StoreStill ==
  ASSUME StoreInv, UNCHANGED cvars
  PROVE  StoreInv'
<1>1. UNCHANGED <<os, rows, files, active, seed, taken, lock, req, pushes, spent, crossed>>
  BY DEF cvars
<1>2. FilesOK' /\ RowsOK' /\ SeedOK' /\ CountsOK' /\ Texts' = Texts
  BY <1>1, PartsKept
<1>3. ReqOK' /\ LockHeld'
  BY <1>1, <1>2 DEF StoreInv, ReqOK, PlaceOK, LockHeld
<1> QED
  BY <1>2, <1>3 DEF StoreInv
----------------------------------------------------------------------------
(* The steps of a task.                                                    *)

(* Task t goes to place s; the others stay.                                *)
Moves(t, s) ==
    /\ task' \in [Tasks -> TaskState] /\ task'[t].at = s
    /\ \A u \in Tasks \ {t} : task'[u] = task[u]

(* What TGo does.                                                          *)
LEMMA TGoMoves ==
  ASSUME TasksTyped, NEW t \in Tasks, NEW s \in TaskSteps, TGo(t, s)
  PROVE  /\ Moves(t, s)
         /\ task'[t].path = task[t].path /\ task'[t].ino = task[t].ino /\ task'[t].id = task[t].id
<1>1. task \in [Tasks -> TaskState] /\ task[t] \in TaskState
  BY DEF TasksTyped
<1> DEFINE r == [task[t] EXCEPT !.at = s]
<1>2. r \in TaskState /\ r.at = s /\ r.path = task[t].path /\ r.ino = task[t].ino /\ r.id = task[t].id
  BY <1>1 DEF TaskState
<1>3. task' = [task EXCEPT ![t] = r]
  BY <1>1 DEF TGo
<1> HIDE DEF r
<1> QED
  BY <1>1, <1>2, <1>3 DEF Moves

(* The row of t after its step: as before, or updated once it is there.    *)
RowMoves(t) ==
    \/ /\ upload' = upload /\ strayed \subseteq strayed' /\ strayed' \subseteq Tasks
       /\ task'[t].at = "ended" => t \in strayed'
    \/ /\ upload[t] # "none" /\ strayed' = strayed
       /\ \E x \in {"processing", "done", "error"} :
              /\ upload' = [upload EXCEPT ![t] = x]
              /\ task'[t].at = "ended" => x # "processing"

(* update_upload_status settles the row, or the task strays.               *)
LEMMA SetStatusMoves ==
  ASSUME TasksTyped, NEW t \in Tasks, NEW x \in {"done", "error"}, SetStatus(t, x)
  PROVE  RowMoves(t)
  BY DEF SetStatus, RowMoves, TasksTyped

(* A task that moves was sent and stays so.                                *)
LEMMA SentStays ==
  ASSUME SentInOrder, NEW t \in Sent, NEW s, s # "none", Moves(t, s)
  PROVE  Sent' = Sent /\ SentInOrder'
<1>1. Sent' = Sent
  BY DEF Sent, Moves
<1> QED
  BY <1>1 DEF SentInOrder

(* The rows of the uploads follow a step of a task.                        *)
LEMMA RowsKept ==
  ASSUME TasksTyped, RowsOfTasks, NEW t \in Sent, NEW s, s # "none", Moves(t, s), Sent' = Sent, RowMoves(t),
         req' = req
  PROVE  RowsOfTasks'
<1>1. t \in Tasks /\ upload \in [Tasks -> {"none", "processing", "done", "error"}]
  BY DEF Sent, TasksTyped
<1>2. /\ \A u \in Tasks \ {t} : upload'[u] = upload[u]
      /\ upload[t] = "none" => upload'[t] = "none"
      /\ strayed \subseteq strayed'
      /\ task'[t].at = "ended" /\ upload'[t] \in {"none", "processing"} => t \in strayed'
  BY <1>1 DEF RowMoves
<1>3. \A u \in Tasks : u \notin Sent => upload'[u] = "none"
  BY <1>1, <1>2 DEF RowsOfTasks
<1>4. \A w \in Webs : At(w, "record") => req[w].text \in Sent /\ upload'[req[w].text] = "none"
  <2> SUFFICES ASSUME NEW w \in Webs, At(w, "record")
               PROVE  req[w].text \in Sent /\ upload'[req[w].text] = "none"
    OBVIOUS
  <2>1. req[w].text \in Sent /\ upload[req[w].text] = "none"
    BY DEF RowsOfTasks
  <2>2. req[w].text \in Tasks
    BY <2>1 DEF Sent
  <2> QED
    BY <1>2, <2>1, <2>2
<1>5. \A u \in Tasks : task'[u].at = "ended" /\ upload'[u] \in {"none", "processing"} => u \in strayed'
  <2> SUFFICES ASSUME NEW u \in Tasks, task'[u].at = "ended", upload'[u] \in {"none", "processing"}
               PROVE  u \in strayed'
    OBVIOUS
  <2>1. CASE u = t
    BY <1>2, <2>1
  <2>2. CASE u # t
    <3>1. task[u].at = "ended" /\ upload[u] \in {"none", "processing"}
      BY <1>2, <2>2 DEF Moves
    <3> QED
      BY <1>2, <3>1 DEF RowsOfTasks, TAt
  <2> QED
    BY <2>1, <2>2
<1> QED
  BY <1>3, <1>4, <1>5 DEF RowsOfTasks, At, TAt

(* A step that creates no image keeps who created which.                   *)
LEMMA PrepareKept ==
  ASSUME TasksTyped, CreatedByPrepare, NEW t \in Tasks, NEW s, Moves(t, s), born' = born,
         task[t].at \in Unprepared \/ s \notin Unprepared,
         s = "preparing" => task'[t].ino \in Tasks,
         \A u \in Tasks : image'[u].shared => image[u].shared
  PROVE  CreatedByPrepare'
<1>1. Created' = Created
  BY DEF Created
<1>2. \A u \in Tasks : task'[u].at \in Unprepared => task[u].at \in Unprepared
  BY DEF Moves
<1>3. Created' \subseteq {u \in Tasks : task'[u].at \notin Unprepared}
  BY <1>1, <1>2 DEF CreatedByPrepare
<1>4. \A u \in Tasks : task'[u].at = "preparing" => task'[u].ino \in Tasks
  BY DEF Moves, CreatedByPrepare, TAt
<1> QED
  BY <1>1, <1>3, <1>4 DEF CreatedByPrepare, TAt

(* The newest image is one that was created.                               *)
LEMMA LastCreated ==
  ASSUME TasksTyped, born # <<>>
  PROVE  Last(born) \in Created /\ Last(born) \in Tasks /\ Len(born) \in DOMAIN born
<1>1. born \in Seq(Tasks) /\ Len(born) \in Nat /\ Len(born) # 0
  BY DEF TasksTyped
<1>2. Len(born) \in 1..Len(born)
  BY <1>1
<1>3. born[Len(born)] \in Created
  BY <1>2 DEF Created
<1> QED
  BY <1>1, <1>2, <1>3 DEF Last

(* Unlinking the temporary name, or renaming it, keeps the newest there.   *)
LEMMA NamesKept ==
  ASSUME TasksTyped, TmpIsNewest, born' = born, tmp' \in {tmp, 0},
         iso' = iso \/ (tmp # 0 /\ iso' = tmp /\ tmp' = 0)
  PROVE  TmpIsNewest'
<1>1. Created' = Created
  BY DEF Created
<1>2. tmp' # 0 => born' # <<>> /\ tmp' = Last(born)
  BY DEF TmpIsNewest
<1>3. tmp # 0 => tmp \in Created
  BY LastCreated DEF TmpIsNewest
<1>4. iso' # 0 => iso' \in Created' /\ iso' # tmp'
  BY <1>1, <1>3 DEF TmpIsNewest
<1>5. Last(born') = Last(born)
  OBVIOUS
<1> QED
  BY <1>2, <1>4, <1>5 DEF TmpIsNewest

(* What a step of t does that creates no image.                            *)
Ordinary(t) ==
    /\ t \in Sent
    /\ \E s \in TaskSteps \ {"none", "preparing"} :
          Moves(t, s) /\ (task[t].at \in Unprepared \/ s \notin Unprepared)
    /\ RowMoves(t) /\ UNCHANGED cvars
    /\ UNCHANGED <<invalid, unsent, born>>
    /\ image' \in [Tasks -> [answer : {0} \cup Texts, whole : BOOLEAN, shared : BOOLEAN]]
    /\ \A u \in Tasks : /\ image'[u].shared = image[u].shared
                        /\ image'[u].answer = image[u].answer
                        /\ image[u].whole => image'[u].whole
    /\ tmp' \in {tmp, 0}
    /\ iso' = iso \/ (tmp # 0 /\ iso' = tmp /\ tmp' = 0)

(* An ordinary step keeps the types.                                       *)
LEMMA TypesKept ==
  ASSUME TasksTyped, NEW t \in Tasks, Ordinary(t)
  PROVE  TasksTyped'
<1>1. UNCHANGED <<os, pushes>>
  BY DEF Ordinary, cvars
<1>2. Texts' = Texts
  BY <1>1 DEF Texts, ByHand
<1>3. task' \in [Tasks -> TaskState]
  BY DEF Ordinary, Moves
<1>4. upload' \in [Tasks -> {"none", "processing", "done", "error"}] /\ strayed' \subseteq Tasks
  <2>1. RowMoves(t) /\ upload \in [Tasks -> {"none", "processing", "done", "error"}] /\ strayed \subseteq Tasks
    BY DEF Ordinary, TasksTyped
  <2>2. CASE upload' = upload /\ strayed' \subseteq Tasks
    BY <2>1, <2>2
  <2>3. CASE /\ strayed' = strayed
             /\ \E x \in {"processing", "done", "error"} : upload' = [upload EXCEPT ![t] = x]
    BY <2>1, <2>3
  <2> QED
    BY <2>1, <2>2, <2>3 DEF RowMoves
<1>5. tmp' \in {0} \cup Tasks /\ iso' \in {0} \cup Tasks
  BY DEF Ordinary, TasksTyped
<1>6. born' \in Seq(Tasks) /\ invalid' \subseteq Texts /\ unsent' \in BOOLEAN
  BY DEF Ordinary, TasksTyped
<1>7. image' \in [Tasks -> [answer : {0} \cup Texts, whole : BOOLEAN, shared : BOOLEAN]]
  BY DEF Ordinary
<1> QED
  BY <1>2, <1>3, <1>4, <1>5, <1>6, <1>7 DEF TasksTyped

(* An ordinary step keeps what holds of the tasks.                         *)
LEMMA OrdinaryKept ==
  ASSUME TaskInv, NEW t \in Tasks, Ordinary(t)
  PROVE  TaskInv'
<1>1. PICK s \in TaskSteps \ {"none", "preparing"} :
          Moves(t, s) /\ (task[t].at \in Unprepared \/ s \notin Unprepared)
  BY DEF Ordinary
<1>2. t \in Sent /\ RowMoves(t) /\ UNCHANGED <<req, born>>
  BY DEF Ordinary, cvars
<1>3. TasksTyped'
  BY TypesKept DEF TaskInv
<1>4. Sent' = Sent /\ SentInOrder'
  BY <1>1, <1>2, SentStays DEF TaskInv
<1>5. RowsOfTasks'
  BY <1>1, <1>2, <1>4, RowsKept DEF TaskInv
<1>6. CreatedByPrepare'
  BY <1>1, <1>2, PrepareKept DEF TaskInv, Ordinary
<1>7. TmpIsNewest'
  BY NamesKept DEF TaskInv, Ordinary
<1>8. IsInjective(born)'
  BY <1>2 DEF TaskInv, IsInjective
<1> QED
  BY <1>3, <1>4, <1>5, <1>6, <1>7, <1>8 DEF TaskInv
----------------------------------------------------------------------------
(* Every step of a task but the creation of an image is ordinary.          *)

(* A task that moves was sent.                                             *)
LEMMA TaskRuns ==
  ASSUME NEW t \in Tasks, task[t].at # "none"
  PROVE  t \in Sent
  BY DEF Sent

(* A step that changes nothing but the place of the task.                  *)
LEMMA GoesOrdinary ==
  ASSUME TaskInv, NEW t \in Tasks, NEW s \in TaskSteps \ {"none", "preparing", "ended"}, t \in Sent, TGo(t, s),
         task[t].at \in Unprepared \/ s \notin Unprepared,
         UNCHANGED <<cvars, invalid, unsent, upload, image, born, strayed>>, tmp' \in {tmp, 0},
         iso' = iso \/ (tmp # 0 /\ iso' = tmp /\ tmp' = 0)
  PROVE  Ordinary(t)
<1>1. Moves(t, s)
  BY TGoMoves DEF TaskInv
<1>2. RowMoves(t)
  BY <1>1 DEF RowMoves, Moves, TaskInv, TasksTyped
<1>3. /\ image' \in [Tasks -> [answer : {0} \cup Texts, whole : BOOLEAN, shared : BOOLEAN]]
      /\ image' = image
  BY DEF TaskInv, TasksTyped
<1> QED
  BY <1>1, <1>2, <1>3 DEF Ordinary

(* The steps one by one.                                                   *)
LEMMA StartOrdinary ==
  ASSUME TaskInv, NEW t \in Tasks, Start(t)
  PROVE  Ordinary(t)
<1>1. /\ task[t].at = "queued" /\ TGo(t, "load")
      /\ upload' = IF upload[t] = "none" THEN upload ELSE [upload EXCEPT ![t] = "processing"]
      /\ UNCHANGED <<cvars, invalid, unsent, image, tmp, iso, born, strayed>>
  BY DEF Start, TaskFrame, TAt
<1>2. Moves(t, "load") /\ "load" \in TaskSteps
  BY <1>1, TGoMoves DEF TaskInv, TaskSteps
<1>3. RowMoves(t)
  BY <1>1, <1>2 DEF RowMoves, Moves, TaskInv, TasksTyped
<1>4. image' \in [Tasks -> [answer : {0} \cup Texts, whole : BOOLEAN, shared : BOOLEAN]]
  BY <1>1 DEF TaskInv, TasksTyped
<1>5. t \in Sent /\ task[t].at \in Unprepared
  BY <1>1, TaskRuns DEF Unprepared
<1> QED
  BY <1>1, <1>2, <1>3, <1>4, <1>5 DEF Ordinary

(* A task that ends without a row that says so has strayed.                *)
LEMMA StraysOrdinary ==
  ASSUME TaskInv, NEW t \in Tasks, t \in Sent, TGo(t, "ended"), strayed' = strayed \cup {t},
         UNCHANGED <<cvars, invalid, unsent, upload, image, tmp, iso, born>>
  PROVE  Ordinary(t)
<1>1. Moves(t, "ended") /\ "ended" \in TaskSteps /\ "ended" \notin Unprepared
  BY TGoMoves DEF TaskInv, TaskSteps, Unprepared
<1>2. RowMoves(t)
  BY <1>1 DEF RowMoves, Moves, TaskInv, TasksTyped
<1>3. /\ image' \in [Tasks -> [answer : {0} \cup Texts, whole : BOOLEAN, shared : BOOLEAN]]
      /\ image' = image
  BY DEF TaskInv, TasksTyped
<1> QED
  BY <1>1, <1>2, <1>3 DEF Ordinary

LEMMA LoadOrdinary ==
  ASSUME StoreInv, TaskInv, NEW t \in Tasks, Load(t)
  PROVE  Ordinary(t)
<1> DEFINE i == task[t].id
<1>1. /\ task[t].at = "load" /\ UNCHANGED <<cvars, invalid, unsent, upload, image, tmp, iso, born>>
      /\ IF i \in DOMAIN rows
         THEN /\ task' = [task EXCEPT ![t].at = "check", ![t].path = rows[i].path]
              /\ UNCHANGED strayed
         ELSE TGo(t, "ended") /\ strayed' = strayed \cup {t}
  BY DEF Load, TaskFrame, TAt
<1>2. t \in Sent /\ task[t].at \in Unprepared
  BY <1>1, TaskRuns DEF Unprepared
<1>3. CASE i \notin DOMAIN rows
  BY <1>1, <1>2, <1>3, StraysOrdinary
<1>4. CASE i \in DOMAIN rows
  <2>1. rows[i].path \in Paths
    BY <1>4 DEF StoreInv, RowsOK
  <2>2. task \in [Tasks -> TaskState] /\ task[t] \in TaskState
    BY DEF TaskInv, TasksTyped
  <2> DEFINE r == [task[t] EXCEPT !.at = "check", !.path = rows[i].path]
  <2>3. r \in TaskState /\ r.at = "check"
    BY <2>1, <2>2 DEF TaskState, TaskSteps
  <2>4. task' = [task EXCEPT ![t] = r]
    BY <1>1, <1>4, <2>2
  <2> HIDE DEF r
  <2>5. Moves(t, "check") /\ "check" \in TaskSteps
    BY <2>2, <2>3, <2>4 DEF Moves, TaskSteps
  <2>6. RowMoves(t)
    BY <1>1, <1>4, <2>5 DEF RowMoves, Moves, TaskInv, TasksTyped
  <2>7. image' \in [Tasks -> [answer : {0} \cup Texts, whole : BOOLEAN, shared : BOOLEAN]]
    BY <1>1 DEF TaskInv, TasksTyped
  <2> QED
    BY <1>1, <1>2, <2>5, <2>6, <2>7 DEF Ordinary
<1> QED
  BY <1>3, <1>4

LEMMA CheckOrdinary ==
  ASSUME TaskInv, NEW t \in Tasks, Check(t)
  PROVE  Ordinary(t)
<1>1. /\ task[t].at = "check" /\ tmp' \in {tmp, 0} /\ iso' = iso
      /\ UNCHANGED <<cvars, invalid, unsent, upload, image, born, strayed>>
      /\ TGo(t, "prepare") \/ TGo(t, "fail")
  BY DEF Check, TaskFrame, TAt
<1>2. t \in Sent /\ task[t].at \in Unprepared
  BY <1>1, TaskRuns DEF Unprepared
<1> QED
  BY <1>1, <1>2, GoesOrdinary DEF TaskSteps

LEMMA PreparedOrdinary ==
  ASSUME TaskInv, NEW t \in Tasks, Prepared(t)
  PROVE  Ordinary(t) /\ image'[task[t].ino].whole
<1> DEFINE u == task[t].ino
<1>1. /\ task[t].at = "preparing" /\ TGo(t, "measure") /\ image' = [image EXCEPT ![u].whole = TRUE]
      /\ UNCHANGED <<cvars, invalid, unsent, upload, tmp, iso, born, strayed>>
  BY DEF Prepared, TaskFrame, TAt
<1>2. t \in Sent /\ Moves(t, "measure") /\ "measure" \in TaskSteps /\ "measure" \notin Unprepared
  BY <1>1, TaskRuns, TGoMoves DEF TaskInv, Unprepared, TaskSteps
<1>3. u \in Tasks
  BY <1>1 DEF TaskInv, CreatedByPrepare, TAt
<1> HIDE DEF u
<1>4. image \in [Tasks -> [answer : {0} \cup Texts, whole : BOOLEAN, shared : BOOLEAN]] /\ Texts' = Texts
  <2>1. os' = os
    BY <1>1 DEF cvars
  <2> QED
    BY <2>1 DEF TaskInv, TasksTyped, Texts, ByHand
<1>5. /\ image' \in [Tasks -> [answer : {0} \cup Texts, whole : BOOLEAN, shared : BOOLEAN]]
      /\ \A v \in Tasks : /\ image'[v].shared = image[v].shared /\ image'[v].answer = image[v].answer
                          /\ image[v].whole => image'[v].whole
      /\ image'[u].whole
  BY <1>1, <1>3, <1>4
<1>6. RowMoves(t)
  BY <1>1, <1>2 DEF RowMoves, Moves, TaskInv, TasksTyped
<1> QED
  BY <1>1, <1>2, <1>5, <1>6 DEF Ordinary, u

LEMMA AssistantFailsOrdinary ==
  ASSUME TaskInv, NEW t \in Tasks, AssistantFails(t)
  PROVE  Ordinary(t)
<1>1. /\ task[t].at = "preparing" /\ TGo(t, "fail")
      /\ UNCHANGED <<cvars, invalid, unsent, upload, image, tmp, iso, born, strayed>>
  BY DEF AssistantFails, TaskFrame, TAt
<1> QED
  BY <1>1, TaskRuns, GoesOrdinary DEF TaskSteps, Unprepared

LEMMA MeasureOrdinary ==
  ASSUME TaskInv, NEW t \in Tasks, Measure(t)
  PROVE  Ordinary(t)
<1>1. /\ task[t].at = "measure" /\ tmp' \in {tmp, 0} /\ iso' = iso
      /\ UNCHANGED <<cvars, invalid, unsent, upload, image, born, strayed>>
      /\ TGo(t, "fail") \/ TGo(t, "replace")
  BY DEF Measure, TaskFrame, TAt
<1> QED
  BY <1>1, TaskRuns, GoesOrdinary DEF TaskSteps, Unprepared

LEMMA ReplaceOrdinary ==
  ASSUME TaskInv, NEW t \in Tasks, Replace(t)
  PROVE  Ordinary(t)
<1>1. /\ task[t].at = "replace" /\ tmp' \in {tmp, 0}
      /\ iso' = iso \/ (tmp # 0 /\ iso' = tmp /\ tmp' = 0)
      /\ UNCHANGED <<cvars, invalid, unsent, upload, image, born, strayed>>
      /\ TGo(t, "fail") \/ TGo(t, "menus")
  BY DEF Replace, TaskFrame, TAt
<1> QED
  BY <1>1, TaskRuns, GoesOrdinary DEF TaskSteps, Unprepared

(* A step that ends the task with a status is ordinary.                    *)
LEMMA EndsOrdinary ==
  ASSUME TaskInv, NEW t \in Tasks, NEW x \in {"done", "error"}, t \in Sent, TGo(t, "ended"), SetStatus(t, x),
         UNCHANGED <<cvars, invalid, unsent, image, tmp, iso, born>>
  PROVE  Ordinary(t)
<1>1. Moves(t, "ended") /\ "ended" \in TaskSteps /\ "ended" \notin Unprepared
  BY TGoMoves DEF TaskInv, TaskSteps, Unprepared
<1>2. RowMoves(t)
  BY SetStatusMoves DEF TaskInv
<1>3. /\ image' \in [Tasks -> [answer : {0} \cup Texts, whole : BOOLEAN, shared : BOOLEAN]]
      /\ image' = image
  BY DEF TaskInv, TasksTyped
<1> QED
  BY <1>1, <1>2, <1>3 DEF Ordinary

LEMMA FailOrdinary ==
  ASSUME TaskInv, NEW t \in Tasks, Fail(t)
  PROVE  Ordinary(t)
  BY TaskRuns, EndsOrdinary DEF Fail, TaskFrame, TAt

LEMMA DoneOrdinary ==
  ASSUME TaskInv, NEW t \in Tasks, Done(t)
  PROVE  Ordinary(t)
  BY TaskRuns, EndsOrdinary DEF Done, TaskFrame, TAt

LEMMA MenusOrdinary ==
  ASSUME TaskInv, NEW t \in Tasks, Menus(t)
  PROVE  Ordinary(t)
<1>1. /\ task[t].at = "menus" /\ UNCHANGED <<cvars, invalid, unsent, upload, image, tmp, iso, born>>
      /\ \/ TGo(t, "done") /\ UNCHANGED strayed
         \/ TGo(t, "ended") /\ strayed' = strayed \cup {t}
  BY DEF Menus, TaskFrame, TAt
<1>2. t \in Sent
  BY <1>1, TaskRuns
<1>3. CASE TGo(t, "done") /\ UNCHANGED strayed
  BY <1>1, <1>2, <1>3, GoesOrdinary DEF TaskSteps, Unprepared
<1>4. CASE TGo(t, "ended") /\ strayed' = strayed \cup {t}
  BY <1>1, <1>2, <1>4, StraysOrdinary
<1> QED
  BY <1>1, <1>3, <1>4

LEMMA KilledOrdinary ==
  ASSUME TaskInv, NEW t \in Tasks, Killed(t)
  PROVE  Ordinary(t)
  BY StraysOrdinary DEF Killed, TaskFrame, Running

----------------------------------------------------------------------------
(* An image is created, or one that another task creates is written.       *)

Creates(t, n) ==
    /\ tmp = 0 /\ tmp' = t /\ born' = Append(born, t)
    /\ image' = [image EXCEPT ![t] = [answer |-> n, whole |-> FALSE, shared |-> FALSE]]
    /\ task' = [task EXCEPT ![t].at = "preparing", ![t].ino = t]

Shares(t, n) ==
    /\ tmp # 0 /\ tmp' = tmp /\ born' = born
    /\ image' = [image EXCEPT ![tmp] = [answer |-> n, whole |-> FALSE, shared |-> TRUE]]
    /\ task' = [task EXCEPT ![t].at = "preparing", ![t].ino = tmp]

PrepareFrame(t) ==
    /\ task[t].at = "prepare" /\ UNCHANGED <<cvars, invalid, unsent, upload, iso, strayed>>

(* What the assistant reads is a content.                                  *)
LEMMA FoundType ==
  ASSUME StoreInv, NEW p
  PROVE  Found(p) \in {0} \cup Texts
<1>1. p \in DOMAIN files => files[p].main \in {0} \cup Texts
  BY FilePart DEF StoreInv
<1>2. seed.main \in {0} \cup Texts
  BY DEF StoreInv, SeedOK
<1> QED
  BY <1>1, <1>2 DEF Found

(* Preparing fails, creates an image or writes into the one that is there. *)
LEMMA PrepareCases ==
  ASSUME TaskInv, NEW t \in Tasks, Prepare(t)
  PROVE  \/ Ordinary(t) /\ TGo(t, "fail") /\ UNCHANGED <<upload, image, iso, tmp>>
         \/ PrepareFrame(t) /\ (Creates(t, Found(task[t].path)) \/ Shares(t, Found(task[t].path)))
<1> DEFINE n == Found(task[t].path)
<1>1. /\ task[t].at = "prepare" /\ UNCHANGED <<cvars, invalid, unsent, upload, iso, strayed>>
      /\ \/ TGo(t, "fail") /\ UNCHANGED <<image, tmp, born>>
         \/ Creates(t, n) \/ Shares(t, n)
  BY DEF Prepare, TaskFrame, TAt, Creates, Shares
<1> HIDE DEF n
<1>2. CASE TGo(t, "fail") /\ UNCHANGED <<image, tmp, born>>
  <2>1. t \in Sent /\ task[t].at \in Unprepared
    BY <1>1, TaskRuns DEF Unprepared
  <2>2. Ordinary(t)
    BY <1>1, <1>2, <2>1, GoesOrdinary DEF TaskSteps
  <2> QED
    BY <1>1, <1>2, <2>2
<1> QED
  BY <1>1, <1>2 DEF PrepareFrame, n
(* The task goes to "preparing" with the inode u.                          *)
LEMMA PreparingMoves ==
  ASSUME TasksTyped, NEW t \in Tasks, NEW u \in Tasks,
         task' = [task EXCEPT ![t].at = "preparing", ![t].ino = u]
  PROVE  /\ Moves(t, "preparing") /\ task'[t].ino = u
         /\ task'[t].path = task[t].path /\ task'[t].id = task[t].id
<1>1. task \in [Tasks -> TaskState] /\ task[t] \in TaskState
  BY DEF TasksTyped
<1> DEFINE r == [task[t] EXCEPT !.at = "preparing", !.ino = u]
<1>2. r \in TaskState /\ r.at = "preparing" /\ r.ino = u /\ r.path = task[t].path /\ r.id = task[t].id
  BY <1>1 DEF TaskState, TaskSteps
<1>3. task' = [task EXCEPT ![t] = r]
  BY <1>1
<1> HIDE DEF r
<1>4. r \in TaskState
  BY <1>2
<1>5. task'[t] = r /\ \A v \in Tasks \ {t} : task'[v] = task[v]
  BY <1>1, <1>3
<1>6. task' \in [Tasks -> TaskState]
  BY <1>1, <1>3, <1>4
<1> QED
  BY <1>2, <1>5, <1>6 DEF Moves

(* The image that t creates is a new one.                                  *)
LEMMA BornGrows ==
  ASSUME TaskInv, NEW t \in Tasks, PrepareFrame(t), born' = Append(born, t)
  PROVE  /\ t \notin Created /\ Created' = Created \cup {t}
         /\ born' \in Seq(Tasks) /\ born' # <<>> /\ Last(born') = t /\ IsInjective(born)'
<1>1. t \notin Created
  BY DEF TaskInv, CreatedByPrepare, PrepareFrame, Unprepared
<1>2. born \in Seq(Tasks) /\ Len(born) \in Nat
  BY DEF TaskInv, TasksTyped
<1>3. /\ born' \in Seq(Tasks) /\ Len(born') = Len(born) + 1 /\ born'[Len(born) + 1] = t
      /\ \A k \in 1..Len(born) : born'[k] = born[k]
  BY <1>2
<1>4. Created' = Created \cup {t}
  <2>1. 1..Len(born') = 1..Len(born) \cup {Len(born) + 1}
    BY <1>2, <1>3
  <2> QED
    BY <1>3, <2>1 DEF Created
<1>5. born' # <<>> /\ Last(born') = t
  BY <1>2, <1>3 DEF Last
<1>6. IsInjective(born)'
  <2>1. DOMAIN born = 1..Len(born) /\ DOMAIN born' = 1..Len(born')
    BY <1>2, <1>3
  <2>2. \A j, k \in 1..Len(born) : born[j] = born[k] => j = k
    BY <2>1 DEF TaskInv, IsInjective
  <2>3. \A k \in 1..Len(born) : born[k] # t
    BY <1>1 DEF Created
  <2>4. \A j, k \in 1..Len(born') : born'[j] = born'[k] => j = k
    <3> SUFFICES ASSUME NEW j \in 1..Len(born'), NEW k \in 1..Len(born'), born'[j] = born'[k]
                 PROVE  j = k
      OBVIOUS
    <3>1. /\ j \in 1..Len(born) \/ j = Len(born) + 1
          /\ k \in 1..Len(born) \/ k = Len(born) + 1
      BY <1>2, <1>3
    <3> QED
      BY <1>3, <2>2, <2>3, <3>1
  <2> QED
    BY <2>1, <2>4 DEF IsInjective
<1> QED
  BY <1>1, <1>3, <1>4, <1>5, <1>6

(* What creating or sharing an image changes.                              *)
LEMMA PrepareTypes ==
  ASSUME StoreInv, TaskInv, NEW t \in Tasks, NEW n \in {0} \cup Texts, PrepareFrame(t),
         Creates(t, n) \/ Shares(t, n)
  PROVE  /\ TasksTyped' /\ Moves(t, "preparing") /\ task'[t].path = task[t].path
         /\ task'[t].ino = tmp' /\ tmp' \in Tasks
         /\ image'[tmp'] = [answer |-> n, whole |-> FALSE, shared |-> (tmp # 0)]
         /\ \A u \in Tasks \ {tmp'} : image'[u] = image[u]
<1> DEFINE u == tmp'
<1>1. u \in Tasks /\ task' = [task EXCEPT ![t].at = "preparing", ![t].ino = u]
  BY DEF Creates, Shares, TaskInv, TasksTyped
<1>2. Moves(t, "preparing") /\ task'[t].ino = u /\ task'[t].path = task[t].path
  BY <1>1, PreparingMoves DEF TaskInv
<1>3. image' = [image EXCEPT ![u] = [answer |-> n, whole |-> FALSE, shared |-> (tmp # 0)]]
  BY DEF Creates, Shares
<1>4. image \in [Tasks -> [answer : {0} \cup Texts, whole : BOOLEAN, shared : BOOLEAN]] /\ Texts' = Texts
  <2>1. os' = os
    BY DEF PrepareFrame, cvars
  <2> QED
    BY <2>1 DEF TaskInv, TasksTyped, Texts, ByHand
<1> HIDE DEF u
<1>5. /\ image' \in [Tasks -> [answer : {0} \cup Texts, whole : BOOLEAN, shared : BOOLEAN]]
      /\ image'[u] = [answer |-> n, whole |-> FALSE, shared |-> (tmp # 0)]
      /\ \A v \in Tasks \ {u} : image'[v] = image[v]
  BY <1>1, <1>3, <1>4
<1>6. born' \in Seq(Tasks)
  BY BornGrows DEF Creates, Shares, TaskInv, TasksTyped
<1>7. TasksTyped'
  BY <1>1, <1>2, <1>4, <1>5, <1>6 DEF TasksTyped, TaskInv, Moves, PrepareFrame, u
<1> QED
  BY <1>1, <1>2, <1>5, <1>7 DEF u

(* Creating or sharing an image keeps what holds of the tasks.             *)
LEMMA PrepareKeeps ==
  ASSUME StoreInv, TaskInv, NEW t \in Tasks, NEW n \in {0} \cup Texts, PrepareFrame(t),
         Creates(t, n) \/ Shares(t, n)
  PROVE  TaskInv'
<1>1. /\ TasksTyped' /\ Moves(t, "preparing") /\ task'[t].ino = tmp' /\ tmp' \in Tasks
      /\ image'[tmp'] = [answer |-> n, whole |-> FALSE, shared |-> (tmp # 0)]
      /\ \A u \in Tasks \ {tmp'} : image'[u] = image[u]
  BY PrepareTypes
<1>2. t \in Sent
  BY TaskRuns DEF PrepareFrame
<1>3. Sent' = Sent /\ SentInOrder'
  BY <1>1, <1>2, SentStays DEF TaskInv
<1>4. RowsOfTasks'
  <2>1. RowMoves(t) /\ req' = req
    <3>1. UNCHANGED <<upload, strayed, req>>
      BY DEF PrepareFrame, cvars
    <3> QED
      BY <1>1, <3>1 DEF RowMoves, Moves, TaskInv, TasksTyped
  <2> QED
    BY <1>1, <1>2, <1>3, <2>1, RowsKept DEF TaskInv
<1>5. \A u \in Tasks : task'[u].at \in Unprepared => task[u].at \in Unprepared /\ u # t
  BY <1>1 DEF Moves, Unprepared
<1>6. \A u \in Tasks : task'[u].at = "preparing" => task'[u].ino \in Tasks
  BY <1>1 DEF Moves, TaskInv, CreatedByPrepare, TAt
<1>7. CASE Creates(t, n)
  <2>1. tmp = 0 /\ tmp' = t /\ born' = Append(born, t) /\ iso' = iso
    BY <1>7 DEF Creates, PrepareFrame
  <2>2. /\ t \notin Created /\ Created' = Created \cup {t}
        /\ born' # <<>> /\ Last(born') = t /\ IsInjective(born)'
    BY <2>1, BornGrows
  <2>3. TmpIsNewest'
    <3>1. iso # 0 => iso \in Created
      BY DEF TaskInv, TmpIsNewest
    <3> QED
      BY <2>1, <2>2, <3>1 DEF TmpIsNewest
  <2>4. CreatedByPrepare'
    <3>1. \A u \in Tasks : image'[u].shared => u \in Created'
      <4>1. ~image'[t].shared
        BY <1>7 DEF Creates, TaskInv, TasksTyped
      <4>2. \A u \in Tasks \ {t} : image'[u].shared => u \in Created
        BY <1>1, <2>1 DEF TaskInv, CreatedByPrepare
      <4> QED
        BY <2>2, <4>1, <4>2
    <3>2. Created' \subseteq {u \in Tasks : task'[u].at \notin Unprepared}
      BY <1>5, <2>2 DEF TaskInv, CreatedByPrepare
    <3> QED
      BY <1>6, <3>1, <3>2 DEF CreatedByPrepare, TAt
  <2> QED
    BY <1>1, <1>3, <1>4, <2>2, <2>3, <2>4 DEF TaskInv
<1>8. CASE Shares(t, n)
  <2>1. tmp # 0 /\ tmp' = tmp /\ born' = born /\ iso' = iso
    BY <1>8 DEF Shares, PrepareFrame
  <2>2. Created' = Created /\ Last(born') = Last(born)
    BY <2>1 DEF Created
  <2>3. TmpIsNewest'
    BY <2>1, <2>2 DEF TaskInv, TmpIsNewest
  <2>4. tmp \in Created
    BY <2>1, LastCreated DEF TaskInv, TmpIsNewest
  <2>5. CreatedByPrepare'
    <3>1. \A u \in Tasks : image'[u].shared => u \in Created'
      <4>1. \A u \in Tasks \ {tmp} : image'[u].shared => u \in Created
        BY <1>1, <2>1 DEF TaskInv, CreatedByPrepare
      <4> QED
        BY <2>2, <2>4, <4>1
    <3>2. Created' \subseteq {u \in Tasks : task'[u].at \notin Unprepared}
      BY <1>5, <2>2 DEF TaskInv, CreatedByPrepare
    <3> QED
      BY <1>6, <3>1, <3>2 DEF CreatedByPrepare, TAt
  <2>6. IsInjective(born)'
    BY <2>1 DEF TaskInv, IsInjective
  <2> QED
    BY <1>1, <1>3, <1>4, <2>3, <2>5, <2>6 DEF TaskInv
<1> QED
  BY <1>7, <1>8

(* So does every step of a task.                                           *)
LEMMA TaskStepKeeps ==
  ASSUME StoreInv, TaskInv, NEW t \in Tasks, TaskStep(t)
  PROVE  StoreInv' /\ TaskInv'
<1>1. CASE Ordinary(t)
  BY <1>1, OrdinaryKept, StoreStill DEF Ordinary
<1>2. CASE Prepare(t) /\ ~Ordinary(t)
  <2>1. PrepareFrame(t) /\ (Creates(t, Found(task[t].path)) \/ Shares(t, Found(task[t].path)))
    BY <1>2, PrepareCases
  <2>2. Found(task[t].path) \in {0} \cup Texts
    BY FoundType
  <2> QED
    BY <2>1, <2>2, PrepareKeeps, StoreStill DEF PrepareFrame
<1> QED
  BY <1>1, <1>2, StartOrdinary, LoadOrdinary, CheckOrdinary, PreparedOrdinary, AssistantFailsOrdinary,
     MeasureOrdinary, ReplaceOrdinary, FailOrdinary, MenusOrdinary, DoneOrdinary, KilledOrdinary DEF TaskStep

----------------------------------------------------------------------------
(* The tasks across the steps of a request.                                *)

(* A step of a request keeps the types of the tasks.                       *)
LEMMA TypesStill ==
  ASSUME TasksTyped, UNCHANGED tvars, os' = os
  PROVE  TasksTyped'
<1>1. Texts' = Texts
  BY DEF Texts, ByHand
<1> QED
  BY <1>1 DEF TasksTyped, tvars

(* A step of a request keeps what holds of the tasks.                      *)
LEMMA RequestKeeps ==
  ASSUME TaskInv, NEW w \in Webs, WebMoves(w), UNCHANGED tvars
  PROVE  TaskInv'
<1>1. TasksTyped'
  BY TypesStill DEF TaskInv, WebMoves
<1>2. Sent' = Sent /\ Created' = Created
  BY DEF Sent, Created, tvars
<1>3. RowsOfTasks'
  BY <1>2 DEF TaskInv, RowsOfTasks, tvars, WebMoves, At, TAt
<1>4. CreatedByPrepare' /\ TmpIsNewest'
  BY <1>2 DEF TaskInv, CreatedByPrepare, TmpIsNewest, tvars, TAt
<1>5. SentInOrder' /\ IsInjective(born)'
  BY <1>2 DEF TaskInv, SentInOrder, IsInjective, tvars
<1> QED
  BY <1>1, <1>3, <1>4, <1>5 DEF TaskInv

(* The steps of the upload, one by one.                                    *)
LEMMA FlushUploadKeeps ==
  ASSUME StoreInv, TaskInv, NEW w \in Webs, FlushUpload(w)
  PROVE  TaskInv'
<1>1. UNCHANGED tvars /\ os' = os /\ Go(w, "send")
  BY DEF FlushUpload
<1>2. Goes(w, "send")
  BY <1>1, GoMoves DEF StoreInv, ReqOK, Steps
<1>3. TasksTyped'
  BY <1>1, TypesStill DEF TaskInv
<1>4. Sent' = Sent /\ Created' = Created
  BY <1>1 DEF Sent, Created, tvars
<1>5. RowsOfTasks'
  BY <1>1, <1>2, <1>4 DEF TaskInv, RowsOfTasks, tvars, Goes, At, TAt
<1>6. CreatedByPrepare' /\ TmpIsNewest'
  BY <1>1, <1>4 DEF TaskInv, CreatedByPrepare, TmpIsNewest, tvars, TAt
<1>7. SentInOrder' /\ IsInjective(born)'
  BY <1>1, <1>4 DEF TaskInv, SentInOrder, IsInjective, tvars
<1> QED
  BY <1>3, <1>5, <1>6, <1>7 DEF TaskInv

LEMMA SendFailsKeeps ==
  ASSUME StoreInv, TaskInv, NEW w \in Webs, SendFails(w)
  PROVE  TaskInv'
<1>1. UNCHANGED <<os, invalid, upload, task, image, tmp, iso, born, strayed>> /\ unsent' = TRUE /\ WebMoves(w)
  BY SendFailsTypes DEF SendFails
<1>2. Sent' = Sent /\ Created' = Created
  BY <1>1 DEF Sent, Created
<1>3. TasksTyped'
  <2>1. Texts' = Texts
    BY <1>1 DEF Texts, ByHand
  <2> QED
    BY <1>1, <2>1 DEF TaskInv, TasksTyped
<1>4. RowsOfTasks'
  BY <1>1, <1>2 DEF TaskInv, RowsOfTasks, WebMoves, At, TAt
<1>5. CreatedByPrepare' /\ TmpIsNewest'
  BY <1>1, <1>2 DEF TaskInv, CreatedByPrepare, TmpIsNewest, TAt
<1>6. SentInOrder' /\ IsInjective(born)'
  BY <1>1, <1>2 DEF TaskInv, SentInOrder, IsInjective
<1> QED
  BY <1>3, <1>4, <1>5, <1>6 DEF TaskInv

(* The row of the task is committed; only the holder of the lock does it.  *)
LEMMA RecordKeeps ==
  ASSUME StoreInv, TaskInv, NEW w \in Webs, Record(w)
  PROVE  TaskInv'
<1> DEFINE t == req[w].text
<1>1. /\ UNCHANGED <<os, invalid, task, image, tmp, iso, born, unsent, strayed>>
      /\ upload' = [upload EXCEPT ![t] = "processing"]
      /\ WebMoves(w) /\ lock = {w} /\ At(w, "record")
  BY RecordTypes DEF Record
<1>2. t \in Sent /\ t \in Tasks /\ upload[t] = "none"
  BY <1>1 DEF TaskInv, RowsOfTasks, Sent
<1>3. Sent' = Sent /\ Created' = Created
  BY <1>1 DEF Sent, Created
<1> HIDE DEF t
<1>4. TasksTyped'
  <2>1. Texts' = Texts
    BY <1>1 DEF Texts, ByHand
  <2> QED
    BY <1>1, <1>2, <2>1 DEF TaskInv, TasksTyped
<1>5. RowsOfTasks'
  <2>1. upload \in [Tasks -> {"none", "processing", "done", "error"}]
    BY DEF TaskInv, TasksTyped
  <2>2. \A v \in Webs : req'[v].at # "record"
    BY <1>1 DEF StoreInv, LockHeld, WebMoves
  <2>3. \A u \in Tasks : u \notin Sent' => upload'[u] = "none"
    BY <1>1, <1>2, <1>3, <2>1 DEF TaskInv, RowsOfTasks
  <2>4. \A u \in Tasks : task'[u].at = "ended" /\ upload'[u] \in {"none", "processing"} => u \in strayed'
    <3> SUFFICES ASSUME NEW u \in Tasks, task[u].at = "ended", upload'[u] \in {"none", "processing"}
                 PROVE  u \in strayed
      BY <1>1
    <3>1. upload[u] \in {"none", "processing"}
      BY <1>1, <1>2, <2>1
    <3> QED
      BY <3>1 DEF TaskInv, RowsOfTasks, TAt
  <2> QED
    BY <2>2, <2>3, <2>4 DEF RowsOfTasks, At, TAt
<1>6. CreatedByPrepare' /\ TmpIsNewest'
  BY <1>1, <1>3 DEF TaskInv, CreatedByPrepare, TmpIsNewest, TAt
<1>7. SentInOrder' /\ IsInjective(born)'
  BY <1>1, <1>3 DEF TaskInv, SentInOrder, IsInjective
<1> QED
  BY <1>4, <1>5, <1>6, <1>7 DEF TaskInv

(* What sending task t does.                                               *)
Sends(w, t) ==
    /\ UNCHANGED <<os, rows, files, active, lock, crossed, invalid, upload, image, tmp, iso, born, strayed>>
    /\ unsent' = FALSE /\ At(w, "send")
    /\ t \in Tasks \ Sent /\ Sent' = Sent \cup {t}
    /\ Moves(t, "queued") /\ task'[t].id = req[w].id
    /\ \A v \in Webs \ {w} : req'[v] = req[v]
    /\ req'[w].at = "record" /\ req'[w].text = t /\ req'[w].kind = req[w].kind /\ req'[w].id = req[w].id

(* Sending starts a task that was not there.                               *)
LEMMA SendEffect ==
  ASSUME InjectAssumption, StoreInv, TaskInv, NEW w \in Webs, Send(w)
  PROVE  SentInOrder' /\ \E t \in Tasks : Sends(w, t)
<1> DEFINE t == Cardinality(Sent) + 1
<1>1. /\ UNCHANGED <<os, rows, files, active, lock, crossed, invalid, upload, image, tmp, iso, born, strayed>>
      /\ unsent' = FALSE /\ At(w, "send") /\ t \in Tasks
      /\ task' = [task EXCEPT ![t] = [NoTask EXCEPT !.at = "queued", !.id = req[w].id]]
      /\ req' = [req EXCEPT ![w].at = "record", ![w].text = t]
  BY DEF Send, disk, base
<1>2. PICK n \in 0..MaxTasks : Sent = 1..n /\ t = n + 1 /\ n + 1 \in Tasks
  BY <1>1, SendsNext DEF TaskInv
<1> HIDE DEF t
<1>3. n \in Nat /\ MaxTasks \in Nat /\ n + 1 \in 0..MaxTasks /\ n + 1 \notin 1..n
  BY <1>2 DEF InjectAssumption, Tasks
<1>4. req[w] \in Requests /\ req \in [Webs -> Requests]
  BY DEF StoreInv, ReqOK
<1>5. task \in [Tasks -> TaskState]
  BY DEF TaskInv, TasksTyped
<1> DEFINE r == [NoTask EXCEPT !.at = "queued", !.id = req[w].id]
<1>6. r \in TaskState /\ r.at = "queued" /\ r.id = req[w].id
  BY <1>4 DEF NoTask, TaskState, TaskSteps, Requests
<1> HIDE DEF r
<1>7. Moves(t, "queued") /\ task'[t].id = req[w].id
  BY <1>1, <1>5, <1>6 DEF Moves, r
<1>8. Sent' = Sent \cup {t}
  BY <1>1, <1>7 DEF Moves, Sent
<1>9. SentInOrder'
  <2>1. 1..n \cup {n + 1} = 1..(n + 1)
    BY <1>3
  <2>2. Sent' = 1..(n + 1)
    BY <1>2, <1>8, <2>1
  <2> QED
    BY <1>3, <2>2 DEF SentInOrder
<1>10. /\ \A v \in Webs \ {w} : req'[v] = req[v]
       /\ req'[w].at = "record" /\ req'[w].text = t /\ req'[w].kind = req[w].kind /\ req'[w].id = req[w].id
  BY <1>1, <1>4 DEF Requests
<1>11. Sends(w, t)
  BY <1>1, <1>2, <1>3, <1>7, <1>8, <1>10 DEF Sends
<1> QED
  BY <1>1, <1>9, <1>11

(* A task that is new has no row and no image.                             *)
LEMMA SendKeeps ==
  ASSUME InjectAssumption, StoreInv, TaskInv, NEW w \in Webs, Send(w)
  PROVE  TaskInv'
<1>1. PICK t \in Tasks : Sends(w, t)
  BY SendEffect
<1>2. SentInOrder'
  BY SendEffect
<1>3. UNCHANGED <<os, invalid, upload, image, tmp, iso, born, strayed>> /\ Moves(t, "queued")
  BY <1>1 DEF Sends
<1>4. TasksTyped'
  <2>1. Texts' = Texts
    BY <1>3 DEF Texts, ByHand
  <2>2. unsent' \in BOOLEAN
    BY <1>1 DEF Sends
  <2> QED
    BY <1>3, <2>1, <2>2 DEF TaskInv, TasksTyped, Moves
<1>5. task[t].at = "none" /\ task[t].at \in Unprepared
  BY <1>1 DEF Sends, Sent, Unprepared
<1>6. CreatedByPrepare'
  BY <1>3, <1>5, PrepareKept DEF TaskInv
<1>7. TmpIsNewest'
  BY <1>3, NamesKept DEF TaskInv
<1>8. IsInjective(born)'
  BY <1>3 DEF TaskInv, IsInjective
<1>9. RowsOfTasks'
  <2>1. \A u \in Tasks : u \notin Sent' => upload'[u] = "none"
    BY <1>1, <1>3 DEF Sends, TaskInv, RowsOfTasks
  <2>2. upload[t] = "none"
    BY <1>1 DEF Sends, TaskInv, RowsOfTasks
  <2>3. \A v \in Webs : At(v, "record")' => req'[v].text \in Sent' /\ upload'[req'[v].text] = "none"
    <3> SUFFICES ASSUME NEW v \in Webs, req'[v].at = "record"
                 PROVE  req'[v].text \in Sent' /\ upload[req'[v].text] = "none"
      BY <1>3 DEF At
    <3>1. CASE v = w
      BY <1>1, <2>2, <3>1 DEF Sends
    <3>2. CASE v # w
      <4>1. req'[v] = req[v] /\ Sent \subseteq Sent'
        BY <1>1, <3>2 DEF Sends
      <4>2. req[v].text \in Sent /\ upload[req[v].text] = "none"
        BY <4>1 DEF TaskInv, RowsOfTasks, At
      <4> QED
        BY <4>1, <4>2
    <3> QED
      BY <3>1, <3>2
  <2>4. \A u \in Tasks : task'[u].at = "ended" /\ upload'[u] \in {"none", "processing"} => u \in strayed'
    BY <1>3 DEF Moves, TaskInv, RowsOfTasks, TAt
  <2> QED
    BY <2>1, <2>3, <2>4 DEF RowsOfTasks, TAt
<1> QED
  BY <1>2, <1>4, <1>6, <1>7, <1>8, <1>9 DEF TaskInv

(* Stuttering.                                                             *)
LEMMA TasksStill ==
  ASSUME StoreInv, TaskInv, UNCHANGED vars
  PROVE  StoreInv' /\ TaskInv'
<1>1. StoreInv' /\ UNCHANGED <<os, req>>
  BY StoreStill DEF vars, cvars
<1>2. UNCHANGED tvars
  BY DEF vars
<1>3. TasksTyped'
  BY <1>1, <1>2, TypesStill DEF TaskInv
<1>4. Sent' = Sent /\ Created' = Created
  BY <1>2 DEF Sent, Created, tvars
<1>5. RowsOfTasks'
  BY <1>1, <1>2, <1>4 DEF TaskInv, RowsOfTasks, tvars, At, TAt
<1>6. CreatedByPrepare' /\ TmpIsNewest'
  BY <1>2, <1>4 DEF TaskInv, CreatedByPrepare, TmpIsNewest, tvars, TAt
<1>7. SentInOrder' /\ IsInjective(born)'
  BY <1>2, <1>4 DEF TaskInv, SentInOrder, IsInjective, tvars
<1> QED
  BY <1>1, <1>3, <1>5, <1>6, <1>7 DEF TaskInv

(* Every step keeps what holds of the store and the tasks.                 *)
LEMMA NextKeeps ==
  ASSUME ConfigAssumption, InjectAssumption, StoreInv, TaskInv, [Next]_vars
  PROVE  StoreInv' /\ TaskInv'
<1>1. ASSUME NEW w \in Webs, WebStep(w), UNCHANGED tvars PROVE StoreInv' /\ TaskInv'
  BY <1>1, WebTypes, WebStepMoves, RequestKeeps
<1>2. ASSUME NEW w \in Webs, FlushUpload(w) PROVE StoreInv' /\ TaskInv'
  BY <1>2, FlushUploadTypes, FlushUploadKeeps
<1>3. ASSUME NEW w \in Webs, Send(w) PROVE StoreInv' /\ TaskInv'
  BY <1>3, SendTypes, SendKeeps DEF TaskInv
<1>4. ASSUME NEW w \in Webs, SendFails(w) PROVE StoreInv' /\ TaskInv'
  BY <1>4, SendFailsTypes, SendFailsKeeps
<1>5. ASSUME NEW w \in Webs, Record(w) PROVE StoreInv' /\ TaskInv'
  BY <1>5, RecordTypes, RecordKeeps
<1>6. ASSUME NEW t \in Tasks, TaskStep(t) PROVE StoreInv' /\ TaskInv'
  BY <1>6, TaskStepKeeps
<1>7. ASSUME UNCHANGED vars PROVE StoreInv' /\ TaskInv'
  BY <1>7, TasksStill
<1> QED
  BY <1>1, <1>2, <1>3, <1>4, <1>5, <1>6, <1>7 DEF Next, Rest
----------------------------------------------------------------------------
(* The initial states; and the images advance.                             *)

(* The invariant holds at first.                                           *)
LEMMA InitHolds ==
  ASSUME ConfigAssumption, InjectAssumption, Init
  PROVE  StoreInv /\ TaskInv
<1>1. /\ os \in Systems /\ files \in InitFiles
      /\ rows = [i \in {} |-> 0] /\ active = 0 /\ seed = NoSeed /\ taken = "nothing"
      /\ lock = {} /\ req = [w \in Webs |-> NoReq]
      /\ pushes = 0 /\ spent = 0 /\ crossed = FALSE
  BY DEF Init, ConfigInit
<1>2. MaxPushes[os] \in Nat /\ MaxRequests[os] \in Nat /\ MaxId \in Nat \ {0} /\ MaxTasks \in Nat
  BY <1>1 DEF ConfigAssumption, Systems, InjectAssumption
<1>3. FilesOK
  <2>1. ByHand \in Texts
    BY <1>2 DEF Texts, ByHand
  <2>2. {<<"config", 2>>, <<"other.cfg", 0>>} \subseteq Paths
    BY <1>2 DEF Paths, Bundles
  <2>3. [main |-> ByHand, meta |-> ByHand] \in FileContent
    BY <2>1 DEF FileContent
  <2>4. CASE files = [p \in {} |-> NoPath]
    BY <2>4 DEF FilesOK
  <2>5. ASSUME NEW q \in {<<"config", 2>>, <<"other.cfg", 0>>},
               files = [p \in {q} |-> [main |-> ByHand, meta |-> ByHand]]
        PROVE  FilesOK
    BY <2>2, <2>3, <2>5 DEF FilesOK
  <2>6. \/ files = [p \in {} |-> NoPath]
        \/ \E q \in {<<"config", 2>>, <<"other.cfg", 0>>} :
              files = [p \in {q} |-> [main |-> ByHand, meta |-> ByHand]]
    <3> DEFINE Q == CASE os = "ubuntu" -> {<<"config", 2>>} [] os = "esxi" -> {<<"other.cfg", 0>>} [] OTHER -> {}
    <3>1. Q \subseteq {<<"config", 2>>, <<"other.cfg", 0>>}
      OBVIOUS
    <3>2. files \in {[p \in {} |-> NoPath]} \cup {[p \in {q} |-> [main |-> ByHand, meta |-> ByHand]] : q \in Q}
      BY <1>1 DEF InitFiles
    <3> HIDE DEF Q
    <3> QED
      BY <3>1, <3>2
  <2> QED
    BY <2>4, <2>5, <2>6
<1>4. RowsOK
  BY <1>1 DEF RowsOK
<1>5. SeedOK
  BY <1>1, NoSeedType DEF SeedOK, Losses
<1>6. CountsOK
  <2>1. crossed \in BOOLEAN
    BY <1>1
  <2>2. pushes \in 0..MaxPushes[os] /\ spent \in 0..MaxRequests[os]
    BY <1>1, <1>2
  <2> QED
    BY <1>1, <2>1, <2>2 DEF CountsOK
<1>7. \A w \in Webs : req[w] = NoReq /\ req[w].at = "idle"
  BY <1>1 DEF NoReq
<1>8. ReqOK
  BY <1>1, <1>7, NoReqType DEF ReqOK, PlaceOK, PushSteps
<1>9. LockHeld
  BY <1>1, <1>7 DEF LockHeld
<1>10. /\ upload = [t \in Tasks |-> "none"] /\ task = [t \in Tasks |-> NoTask]
       /\ image = [t \in Tasks |-> NoImage] /\ tmp = 0 /\ iso = 0 /\ born = <<>>
       /\ unsent = FALSE /\ strayed = {}
       /\ invalid \subseteq Texts
  BY DEF Init
<1>11. TasksTyped
  <2>1. NoTask \in TaskState /\ NoImage \in [answer : {0} \cup Texts, whole : BOOLEAN, shared : BOOLEAN]
    BY DEF NoTask, NoImage, TaskState, TaskSteps
  <2>2. task \in [Tasks -> TaskState] /\ upload \in [Tasks -> {"none", "processing", "done", "error"}]
    BY <1>10, <2>1
  <2>3. image \in [Tasks -> [answer : {0} \cup Texts, whole : BOOLEAN, shared : BOOLEAN]]
    BY <1>10, <2>1
  <2>4. born \in Seq(Tasks)
    BY <1>10
  <2>5. unsent \in BOOLEAN
    BY <1>10
  <2> QED
    BY <1>10, <2>2, <2>3, <2>4, <2>5 DEF TasksTyped
<1>12. Sent = {} /\ Created = {}
  BY <1>10 DEF Sent, Created, NoTask
<1>13. SentInOrder
  <2>1. 0 \in 0..MaxTasks /\ 1..0 = {}
    BY <1>2
  <2> QED
    BY <1>12, <2>1 DEF SentInOrder
<1>14. CreatedByPrepare /\ TmpIsNewest
  BY <1>10, <1>12 DEF CreatedByPrepare, TmpIsNewest, TAt, NoTask, NoImage
<1>15. RowsOfTasks
  BY <1>7, <1>10, <1>12 DEF RowsOfTasks, At, TAt, NoTask
<1>16. IsInjective(born)
  BY <1>10 DEF IsInjective
<1> QED
  BY <1>3, <1>4, <1>5, <1>6, <1>8, <1>9, <1>11, <1>13, <1>14, <1>15, <1>16 DEF StoreInv, TaskInv

(* A step that publishes replaces the image by one created later.          *)
LEMMA PublishesLater ==
  ASSUME StoreInv, TaskInv, [Next]_vars, iso # 0, iso' # iso
  PROVE  Before(iso, iso')
<1>1. PICK t \in Tasks : TaskStep(t)
  <2>1. ~(UNCHANGED tvars)
    BY DEF tvars
  <2>2. \A w \in Webs : ~FlushUpload(w) /\ ~Send(w) /\ ~SendFails(w) /\ ~Record(w)
    BY <2>1 DEF FlushUpload, Send, SendFails, Record
  <2> QED
    BY <2>1, <2>2 DEF Next, Rest, vars
<1>2. tmp # 0 /\ iso' = tmp
  <2>1. CASE Ordinary(t)
    BY <2>1 DEF Ordinary
  <2>2. CASE Prepare(t)
    BY <2>2 DEF Prepare, TaskFrame
  <2> QED
    BY <1>1, <2>1, <2>2, StartOrdinary, LoadOrdinary, CheckOrdinary, PreparedOrdinary, AssistantFailsOrdinary,
       MeasureOrdinary, ReplaceOrdinary, FailOrdinary, MenusOrdinary, DoneOrdinary, KilledOrdinary DEF TaskStep
<1>3. born # <<>> /\ iso' = Last(born) /\ iso \in Created /\ iso # Last(born)
  BY <1>2 DEF TaskInv, TmpIsNewest
<1>4. born \in Seq(Tasks) /\ Len(born) \in Nat /\ DOMAIN born = 1..Len(born)
  BY DEF TaskInv, TasksTyped
<1>5. PICK j \in 1..Len(born) : born[j] = iso
  BY <1>3 DEF Created
<1>6. iso' = born[Len(born)]
  BY <1>3 DEF Last
<1>7. j < Len(born) /\ j \in DOMAIN born /\ Len(born) \in DOMAIN born
  BY <1>3, <1>4, <1>5, <1>6
<1> DEFINE u == iso'
<1>8. u = born[Len(born)]
  BY <1>6
<1> HIDE DEF u
<1>9. Before(iso, u)
  BY <1>5, <1>7, <1>8 DEF Before
<1> QED
  BY <1>9 DEF u

----------------------------------------------------------------------------
(* The last image is published.                                            *)

PublishInv == SettledHasEnded /\ OwnImage /\ LastIsPublished

(* The tasks and the images as they were; a row may be committed.          *)
LEMMA PublishStill ==
  ASSUME TaskInv, PublishInv, UNCHANGED <<image, iso, born>>,
         \A t \in Tasks : /\ upload'[t] = upload[t] \/ (upload'[t] = "processing" /\ upload[t] = "none")
                          /\ task'[t] = task[t] \/ (task[t].at = "none" /\ task'[t].at = "queued")
  PROVE  PublishInv'
<1>1. Created' = Created /\ SharedSome' = SharedSome /\ Last(born') = Last(born)
  BY DEF Created, SharedSome
<1>2. SettledHasEnded'
  BY DEF PublishInv, SettledHasEnded, TAt
<1>3. OwnImage'
  BY <1>1 DEF PublishInv, OwnImage, PreparedAlone, TAt
<1>4. LastIsPublished'
  <2> SUFFICES ASSUME born # <<>>
               PROVE  LastIsPublished'
    BY DEF LastIsPublished
  <2>1. Last(born) \in Tasks
    BY LastCreated DEF TaskInv
  <2> QED
    BY <1>1, <2>1 DEF PublishInv, LastIsPublished
<1> QED
  BY <1>2, <1>3, <1>4 DEF PublishInv

(* What a step of t does to what is published.                             *)
PublishMoves(t) ==
    /\ upload[t] \in {"none", "processing"}
    /\ \/ upload'[t] \in {"none", "processing"}
       \/ upload'[t] = "error" /\ task[t].at = "fail" /\ task'[t].at = "ended"
       \/ upload'[t] = "done" /\ task[t].at = "done" /\ task'[t].at = "ended"
    /\ \A u \in Tasks \ {t} : upload'[u] = upload[u] /\ task'[u] = task[u]
    /\ task'[t].at \in PreparedAlone => task[t].at \in PreparedAlone
    /\ task'[t].at = "preparing" => task'[t] = task[t]
    /\ task'[t].at \in {"menus", "done"} => task[t].at \in {"menus", "done"} \/ iso' = Last(born)
    /\ task'[t].at \in {"measure", "replace", "menus", "done"} =>
          \/ task[t].at \in {"measure", "replace", "menus", "done"}
          \/ task[t].at = "preparing" /\ image'[task[t].ino].whole

(* An ordinary step keeps what is published.                               *)
LEMMA PublishKept ==
  ASSUME TaskInv, PublishInv, NEW t \in Tasks, Ordinary(t), PublishMoves(t)
  PROVE  PublishInv'
<1>1. /\ born' = born /\ Created' = Created
      /\ \A u \in Tasks : image'[u].shared = image[u].shared /\ (image[u].whole => image'[u].whole)
      /\ iso' = iso \/ iso' = Last(born)
  BY DEF Ordinary, Created, TaskInv, TmpIsNewest
<1>2. SharedSome' <=> SharedSome
  BY <1>1 DEF SharedSome
<1>3. SettledHasEnded'
  BY DEF PublishInv, SettledHasEnded, TAt, PublishMoves
<1>4. OwnImage'
  <2> SUFFICES ASSUME NEW u \in Tasks
               PROVE  /\ task'[u].at \in PreparedAlone \/ upload'[u] = "done" => SharedSome \/ u \in Created
                      /\ task'[u].at = "preparing" /\ u \in Created => task'[u].ino = u
    BY <1>1, <1>2 DEF OwnImage, TAt
  <2>1. CASE u # t
    <3>1. upload'[u] = upload[u] /\ task'[u] = task[u]
      BY <2>1 DEF PublishMoves
    <3> QED
      BY <3>1 DEF PublishInv, OwnImage, TAt
  <2>2. CASE u = t
    <3>1. task'[t].at \in PreparedAlone \/ upload'[t] = "done" => task[t].at \in PreparedAlone
      BY DEF PublishMoves, PreparedAlone
    <3>2. task'[t].at = "preparing" => task'[t] = task[t]
      BY DEF PublishMoves
    <3> QED
      BY <2>2, <3>1, <3>2 DEF PublishInv, OwnImage, TAt
  <2> QED
    BY <2>1, <2>2
<1>5. LastIsPublished'
  <2> SUFFICES ASSUME born # <<>>
               PROVE  LastIsPublished'
    BY <1>1 DEF LastIsPublished
  <2> DEFINE u == Last(born)
  <2>1. u \in Tasks /\ u \in Created
    BY LastCreated DEF TaskInv
  <2>2. Last(born') = u
    BY <1>1
  <2>3. /\ task[u].at \in {"menus", "done"} \/ upload[u] = "done" => iso = u
        /\ task[u].at \in {"measure", "replace", "menus", "done"} \/ upload[u] = "done"
               => image[u].whole \/ image[u].shared
    BY DEF PublishInv, LastIsPublished
  <2>4. iso' = iso \/ iso' = u
    BY <1>1
  <2> HIDE DEF u
  <2>5. CASE u # t
    <3>1. upload'[u] = upload[u] /\ task'[u] = task[u]
      BY <2>1, <2>5 DEF PublishMoves
    <3> QED
      BY <1>1, <2>1, <2>2, <2>3, <2>4, <3>1 DEF LastIsPublished
  <2>6. CASE u = t
    <3>1. task'[u].at \in {"menus", "done"} \/ upload'[u] = "done" => iso' = u
      BY <2>3, <2>4, <2>6 DEF PublishMoves, u
    <3>2. task'[u].at \in {"measure", "replace", "menus", "done"} \/ upload'[u] = "done"
             => \/ task[u].at \in {"measure", "replace", "menus", "done"}
                \/ task[u].at = "preparing" /\ image'[task[u].ino].whole
      BY <2>6 DEF PublishMoves
    <3>3. task[u].at = "preparing" => task[u].ino = u
      BY <2>1 DEF PublishInv, OwnImage, TAt
    <3>4. task'[u].at \in {"measure", "replace", "menus", "done"} \/ upload'[u] = "done"
             => image'[u].whole \/ image'[u].shared
      BY <1>1, <2>1, <2>3, <3>2, <3>3
    <3> QED
      BY <2>2, <3>1, <3>4 DEF LastIsPublished
  <2> QED
    BY <2>5, <2>6
<1> QED
  BY <1>3, <1>4, <1>5 DEF PublishInv

(* A task that runs has not settled its row.                               *)
LEMMA RunsUnsettled ==
  ASSUME TasksTyped, SettledHasEnded, NEW t \in Tasks, task[t].at # "ended"
  PROVE  upload[t] \in {"none", "processing"}
  BY DEF TasksTyped, SettledHasEnded, TAt

(* A step that only goes to another place.                                 *)
LEMMA ByGoing ==
  ASSUME TaskInv, PublishInv, NEW t \in Tasks, NEW s \in TaskSteps, TGo(t, s), upload' = upload,
         task[t].at # "ended",
         s \in PreparedAlone => task[t].at \in PreparedAlone /\ s # "preparing",
         s \in {"menus", "done"} => task[t].at \in {"menus", "done"} \/ iso' = Last(born),
         s \in {"measure", "replace", "menus", "done"} =>
             \/ task[t].at \in {"measure", "replace", "menus", "done"}
             \/ task[t].at = "preparing" /\ image'[task[t].ino].whole
  PROVE  PublishMoves(t)
<1>1. Moves(t, s)
  BY TGoMoves DEF TaskInv
<1>2. upload[t] \in {"none", "processing"}
  BY RunsUnsettled DEF TaskInv, PublishInv
<1> QED
  BY <1>1, <1>2 DEF Moves, PublishMoves, PreparedAlone

(* The steps one by one.                                                   *)
LEMMA TaskStepPublishes ==
  ASSUME StoreInv, TaskInv, PublishInv, NEW t \in Tasks, TaskStep(t), Ordinary(t)
  PROVE  PublishMoves(t)
<1>1. CASE Start(t)
  <2>1. task[t].at = "queued" /\ TGo(t, "load") /\ "load" \in TaskSteps
    BY <1>1 DEF Start, TAt, TaskSteps
  <2>2. upload[t] \in {"none", "processing"} /\ Moves(t, "load")
    BY <2>1, RunsUnsettled, TGoMoves DEF TaskInv, PublishInv
  <2>3. upload' = IF upload[t] = "none" THEN upload ELSE [upload EXCEPT ![t] = "processing"]
    BY <1>1 DEF Start
  <2>4. /\ upload'[t] \in {"none", "processing"}
        /\ \A u \in Tasks \ {t} : upload'[u] = upload[u]
    BY <2>2, <2>3 DEF TaskInv, TasksTyped
  <2>5. PublishMoves(t)
    BY <2>1, <2>2, <2>4 DEF PublishMoves, Moves, PreparedAlone
  <2> QED
    BY <2>5
<1>2. CASE Load(t)
  <2>1. task[t].at = "load" /\ upload' = upload
    BY <1>2 DEF Load, TAt
  <2>2. upload[t] \in {"none", "processing"}
    BY <2>1, RunsUnsettled DEF TaskInv, PublishInv
  <2>3. task'[t].at \in {"check", "ended"} /\ \A u \in Tasks \ {t} : task'[u] = task[u]
    <3>1. task \in [Tasks -> TaskState] /\ task[t] \in TaskState
      BY DEF TaskInv, TasksTyped
    <3>2. CASE TGo(t, "ended")
      BY <3>2, TGoMoves DEF TaskInv, Moves, TaskSteps
    <3>3. ASSUME NEW p, task' = [task EXCEPT ![t].at = "check", ![t].path = p]
          PROVE  task'[t].at = "check" /\ \A u \in Tasks \ {t} : task'[u] = task[u]
      BY <3>1, <3>3 DEF TaskState
    <3> QED
      BY <1>2, <3>2, <3>3 DEF Load
  <2>4. PublishMoves(t)
    BY <2>1, <2>2, <2>3 DEF PublishMoves, PreparedAlone
  <2> QED
    BY <2>4
<1>3. CASE Check(t)
  <2>1. task[t].at = "check" /\ upload' = upload /\ (TGo(t, "prepare") \/ TGo(t, "fail"))
    BY <1>3 DEF Check, TAt
  <2>2. PublishMoves(t)
    BY <2>1, ByGoing DEF TaskSteps, PreparedAlone
  <2> QED
    BY <2>2
<1>4. CASE Prepare(t)
  <2>1. task[t].at = "prepare" /\ upload' = upload
    BY <1>4 DEF Prepare, TAt
  <2>2. TGo(t, "fail")
    <3>1. \E s \in TaskSteps \ {"none", "preparing"} : Moves(t, s)
      BY DEF Ordinary
    <3>2. task'[t].at # "preparing"
      BY <3>1 DEF Moves
    <3>3. ASSUME NEW u, task' = [task EXCEPT ![t].at = "preparing", ![t].ino = u]
          PROVE  task'[t].at = "preparing"
      BY <3>3 DEF TaskInv, TasksTyped, TaskState
    <3> QED
      BY <1>4, <3>2, <3>3 DEF Prepare
  <2>3. PublishMoves(t)
    BY <2>1, <2>2, ByGoing DEF TaskSteps, PreparedAlone
  <2> QED
    BY <2>3
<1>5. CASE Prepared(t)
  <2>1. task[t].at = "preparing" /\ upload' = upload /\ TGo(t, "measure")
    BY <1>5 DEF Prepared, TAt
  <2>2. image'[task[t].ino].whole
    BY <1>5, PreparedOrdinary
  <2>3. PublishMoves(t)
    BY <2>1, <2>2, ByGoing DEF TaskSteps, PreparedAlone
  <2> QED
    BY <2>3
<1>6. CASE AssistantFails(t)
  <2>1. task[t].at = "preparing" /\ upload' = upload /\ TGo(t, "fail")
    BY <1>6 DEF AssistantFails, TAt
  <2>2. PublishMoves(t)
    BY <2>1, ByGoing DEF TaskSteps, PreparedAlone
  <2> QED
    BY <2>2
<1>7. CASE Measure(t)
  <2>1. task[t].at = "measure" /\ upload' = upload /\ (TGo(t, "replace") \/ TGo(t, "fail"))
    BY <1>7 DEF Measure, TAt
  <2>2. PublishMoves(t)
    BY <2>1, ByGoing DEF TaskSteps, PreparedAlone
  <2> QED
    BY <2>2
<1>8. CASE Replace(t)
  <2>1. /\ task[t].at = "replace" /\ upload' = upload
        /\ TGo(t, "fail") \/ (TGo(t, "menus") /\ tmp # 0 /\ iso' = tmp)
    BY <1>8 DEF Replace, TAt
  <2>2. tmp # 0 => tmp = Last(born)
    BY DEF TaskInv, TmpIsNewest
  <2>3. PublishMoves(t)
    BY <2>1, <2>2, ByGoing DEF TaskSteps, PreparedAlone
  <2> QED
    BY <2>3
<1>9. CASE Menus(t)
  <2>1. task[t].at = "menus" /\ upload' = upload /\ (TGo(t, "done") \/ TGo(t, "ended"))
    BY <1>9 DEF Menus, TAt
  <2>2. PublishMoves(t)
    BY <2>1, ByGoing DEF TaskSteps, PreparedAlone
  <2> QED
    BY <2>2
<1>10. CASE Killed(t)
  <2>1. task[t].at # "ended" /\ upload' = upload /\ TGo(t, "ended")
    BY <1>10 DEF Killed, Running
  <2>2. PublishMoves(t)
    BY <2>1, ByGoing DEF TaskSteps, PreparedAlone
  <2> QED
    BY <2>2
<1>11. ASSUME NEW s \in {"fail", "done"}, NEW x \in {"error", "done"}, x = "done" <=> s = "done",
              task[t].at = s, TGo(t, "ended"), SetStatus(t, x)
       PROVE  PublishMoves(t)
  <2>1. Moves(t, "ended")
    BY <1>11, TGoMoves DEF TaskInv, TaskSteps
  <2>2. upload[t] \in {"none", "processing"}
    BY <1>11, RunsUnsettled DEF TaskInv, PublishInv
  <2>3. /\ upload'[t] \in {"none", x}
        /\ \A u \in Tasks \ {t} : upload'[u] = upload[u]
    BY <1>11 DEF SetStatus, TaskInv, TasksTyped
  <2>4. PublishMoves(t)
    BY <1>11, <2>1, <2>2, <2>3 DEF PublishMoves, Moves, PreparedAlone
  <2> QED
    BY <2>4
<1>12. CASE Fail(t)
  BY <1>11, <1>12 DEF Fail, TAt
<1>13. CASE Done(t)
  BY <1>11, <1>13 DEF Done, TAt
<1> QED
  BY <1>1, <1>2, <1>3, <1>4, <1>5, <1>6, <1>7, <1>8, <1>9, <1>10, <1>12, <1>13 DEF TaskStep

(* A new image is not settled; one that is shared says so.                 *)
LEMMA PreparePublishes ==
  ASSUME StoreInv, TaskInv, PublishInv, NEW t \in Tasks, NEW n \in {0} \cup Texts, PrepareFrame(t),
         Creates(t, n) \/ Shares(t, n)
  PROVE  PublishInv'
<1>1. /\ Moves(t, "preparing") /\ task'[t].ino = tmp' /\ tmp' \in Tasks
      /\ image'[tmp'] = [answer |-> n, whole |-> FALSE, shared |-> (tmp # 0)]
      /\ \A u \in Tasks \ {tmp'} : image'[u] = image[u]
  BY PrepareTypes
<1>2. /\ UNCHANGED <<upload, iso>> /\ task[t].at = "prepare"
      /\ upload[t] \in {"none", "processing"} /\ \A u \in Tasks \ {t} : task'[u] = task[u]
  BY <1>1, RunsUnsettled DEF PrepareFrame, TaskInv, PublishInv, Moves
<1>3. task'[t].at = "preparing"
  BY <1>1 DEF Moves
<1>4. SettledHasEnded'
  BY <1>2, <1>3 DEF PublishInv, SettledHasEnded, TAt
<1>5. CASE Creates(t, n)
  <2>1. tmp' = t /\ born' = Append(born, t)
    BY <1>5 DEF Creates
  <2>2. t \notin Created /\ Created' = Created \cup {t} /\ Last(born') = t
    BY <2>1, BornGrows
  <2>3. SharedSome => SharedSome'
    <3>1. ~image[t].shared
      BY <2>2 DEF TaskInv, CreatedByPrepare
    <3> QED
      BY <1>1, <2>1, <3>1 DEF SharedSome
  <2>4. OwnImage'
    <3> SUFFICES ASSUME NEW u \in Tasks
                 PROVE  /\ task'[u].at \in PreparedAlone \/ upload'[u] = "done" => SharedSome' \/ u \in Created'
                        /\ task'[u].at = "preparing" /\ u \in Created' => task'[u].ino = u
      BY DEF OwnImage, TAt
    <3>1. CASE u = t
      BY <1>1, <2>1, <2>2, <3>1
    <3>2. CASE u # t
      BY <1>2, <2>2, <2>3, <3>2 DEF PublishInv, OwnImage, TAt
    <3> QED
      BY <3>1, <3>2
  <2>5. LastIsPublished'
    BY <1>2, <1>3, <2>2 DEF LastIsPublished
  <2> QED
    BY <1>4, <2>4, <2>5 DEF PublishInv
<1>6. CASE Shares(t, n)
  <2>1. tmp' = tmp /\ born' = born /\ tmp # 0 /\ image' = [image EXCEPT ![tmp] = [answer |-> n, whole |-> FALSE, shared |-> TRUE]]
    BY <1>6 DEF Shares
  <2>2. image'[tmp].shared
    BY <1>1, <2>1 DEF TaskInv, TasksTyped
  <2>3. SharedSome' /\ Created' = Created /\ Last(born') = Last(born) /\ tmp = Last(born) /\ born # <<>>
    BY <1>1, <2>1, <2>2 DEF SharedSome, Created, TaskInv, TmpIsNewest
  <2>4. t \notin Created
    BY <1>2 DEF TaskInv, CreatedByPrepare, Unprepared
  <2>5. OwnImage'
    <3> SUFFICES ASSUME NEW u \in Tasks
                 PROVE  task'[u].at = "preparing" /\ u \in Created => task'[u].ino = u
      BY <2>3 DEF OwnImage, TAt
    <3> QED
      BY <1>2, <2>4 DEF PublishInv, OwnImage, TAt
  <2>6. LastIsPublished'
    <3>1. tmp \in Tasks /\ tmp # t
      BY <1>1, <2>1, <2>3, <2>4, LastCreated DEF TaskInv
    <3>2. task'[tmp] = task[tmp] /\ upload'[tmp] = upload[tmp] /\ iso' = iso
      BY <1>2, <3>1
    <3> QED
      BY <2>2, <2>3, <3>2 DEF PublishInv, LastIsPublished
  <2> QED
    BY <1>4, <2>5, <2>6 DEF PublishInv
<1> QED
  BY <1>5, <1>6
----------------------------------------------------------------------------
(* What the requests do under Proxmox.                                     *)

Keeps(r) == \/ r.at \in {"setactive", "answer", "upload", "send", "record"}
            \/ r.at \in PushSteps /\ r.kind = "edit"

(* A request goes on as what it is, ends, or begins beside none that it    *)
(* disturbs.                                                               *)
KindMoves(w) ==
    \/ req'[w].at = "idle" /\ crossed' = crossed
    \/ crossed' = crossed /\ req[w].at # "idle" /\ req'[w].kind = req[w].kind
    \/ /\ crossed => crossed'
       /\ ~crossed' => \A v \in Webs \ {w} :
             ~At(v, "idle") => req[v].kind # "delete" /\ req'[w].kind # "delete"

(* The paths of a step of w, and the rows that it leaves.                  *)
WebShape(w) ==
    /\ os' = os /\ \A v \in Webs \ {w} : req'[v] = req[v]
    /\ DOMAIN files' \subseteq {AnswerPath}
    /\ \A i \in DOMAIN rows' : rows'[i].path = AnswerPath
    /\ req'[w].at \in {"flush"} \cup PushSteps => req'[w].path = AnswerPath
    /\ req'[w].at \notin OtherSteps
    /\ DOMAIN rows \subseteq DOMAIN rows' \/ (req[w].kind = "delete" /\ req[w].at # "idle")
    /\ (KeepsRow(w) => req[w].id \in DOMAIN rows) => (Keeps(req'[w]) => req'[w].id \in DOMAIN rows')
    /\ KindMoves(w)

ToSendSteps == {"mirror", "commit", "setactive", "answer", "upload", "send"}

SameAnswer ==
    AnswerPath \in DOMAIN files' => AnswerPath \in DOMAIN files /\ files'[AnswerPath] = files[AnswerPath]

(* The file that a step of w writes is one whose task it will send.        *)
WebSends(w) ==
    /\ SameAnswer \/ req'[w].at \in ToSendSteps
    /\ ToSend(w) => \/ req'[w].at \in ToSendSteps
                    \/ KeepsRow(w) /\ req[w].id \notin DOMAIN rows

OneName == os = "proxmox" /\ OnePath

(* What one name means for w.                                              *)
LEMMA OneNameHas ==
  ASSUME OneName, NEW w \in Webs
  PROVE  /\ os = "proxmox" /\ DOMAIN files \subseteq {AnswerPath}
         /\ \A i \in DOMAIN rows : rows[i].path = AnswerPath
         /\ req[w].at \in {"flush"} \cup PushSteps => req[w].path = AnswerPath
         /\ req[w].at \notin OtherSteps
  BY DEF OneName, OnePath, RequestPaths

(* A request that begins with r.                                           *)
LEMMA BeginShape ==
  ASSUME StoreInv, OneName, NEW w \in Webs, NEW r, Begin(w, r), r.at \notin OtherSteps \cup {"send", "record"},
         r.at \in {"flush"} \cup PushSteps => r.path = AnswerPath,
         Keeps(r) => r.id \in DOMAIN rows
  PROVE  WebShape(w) /\ WebSends(w)
<1>1. /\ UNCHANGED <<os, files, rows>> /\ req[w].at = "idle" /\ req' = [req EXCEPT ![w] = r]
      /\ crossed' = (crossed \/ \E v \in Webs \ {w} : ~At(v, "idle") /\ ~Benign(req[v].kind, r.kind))
  BY DEF Begin, base, disk, At
<1>2. req'[w] = r /\ \A v \in Webs \ {w} : req'[v] = req[v]
  BY <1>1 DEF StoreInv, ReqOK
<1>3. \A j, k : Benign(j, k) => j # "delete" /\ k # "delete"
  BY DEF OneName, Benign
<1>4. KindMoves(w)
  BY <1>1, <1>2, <1>3 DEF KindMoves
<1>5. /\ DOMAIN files' \subseteq {AnswerPath} /\ \A i \in DOMAIN rows' : rows'[i].path = AnswerPath
      /\ DOMAIN rows \subseteq DOMAIN rows'
  BY <1>1, OneNameHas
<1>6. Keeps(req'[w]) => req'[w].id \in DOMAIN rows'
  BY <1>1, <1>2
<1>7. WebShape(w)
  BY <1>1, <1>2, <1>4, <1>5, <1>6 DEF WebShape
<1>8. WebSends(w)
  BY <1>1 DEF WebSends, SameAnswer, ToSend
<1> QED
  BY <1>7, <1>8

(* Whatever request begins under Proxmox.                                  *)
LEMMA BeginsShape ==
  ASSUME StoreInv, OneName, NEW w \in Webs, Begins(w)
  PROVE  WebShape(w) /\ WebSends(w)
<1>n. /\ os = "proxmox" /\ ForcedName = AnswerPath
      /\ NoReq = [at |-> "idle", kind |-> "none", id |-> 0, path |-> NoPath, text |-> 0,
                  was |-> FALSE, body |-> TRUE, known |-> {}]
  BY PathKinds DEF OneName, NoReq
<1>1. ASSUME NEW p, p = AnswerPath, BeginCreate(w, p) PROVE WebShape(w) /\ WebSends(w)
  <2> DEFINE r == [NoReq EXCEPT !.at = "flush", !.kind = "create", !.path = p, !.text = pushes + 1]
  <2>1. Begin(w, r)
    BY <1>1 DEF BeginCreate
  <2>2. r.at = "flush" /\ r.kind = "create" /\ r.path = AnswerPath
    BY <1>n, <1>1
  <2> HIDE DEF r
  <2> QED
    BY <2>1, <2>2, BeginShape DEF OtherSteps, PushSteps, Keeps
<1>2. ASSUME NEW i \in DOMAIN rows, NEW p, p = AnswerPath, BeginEdit(w, i, p) PROVE WebShape(w) /\ WebSends(w)
  <2> DEFINE q == IF os = "ubuntu" THEN rows[i].path ELSE p
  <2> DEFINE r == [NoReq EXCEPT !.at = "write", !.kind = "edit", !.id = i, !.text = pushes + 1, !.path = q]
  <2>1. Begin(w, r)
    BY <1>2 DEF BeginEdit
  <2>2. q = AnswerPath
    BY <1>n, <1>2
  <2> HIDE DEF q
  <2>3. r.at = "write" /\ r.path = AnswerPath /\ r.id = i
    BY <1>n, <2>2
  <2> HIDE DEF r
  <2> QED
    BY <2>1, <2>3, BeginShape DEF OtherSteps, PushSteps, Keeps
<1>3. ASSUME NEW i \in DOMAIN rows, BeginDelete(w, i) PROVE WebShape(w) /\ WebSends(w)
  <2> DEFINE r == [NoReq EXCEPT !.at = "unlink", !.kind = "delete", !.id = i,
                                !.path = rows[i].path, !.was = (active = i)]
  <2>1. Begin(w, r)
    BY <1>3 DEF BeginDelete
  <2>2. r.at = "unlink"
    BY <1>n
  <2> HIDE DEF r
  <2> QED
    BY <2>1, <2>2, BeginShape DEF OtherSteps, PushSteps, Keeps
<1>4. ASSUME NEW i \in DOMAIN rows, BeginActivate(w, i) PROVE WebShape(w) /\ WebSends(w)
  <2> DEFINE s == CASE os = "ubuntu" -> "publish" [] os = "proxmox" -> "setactive" [] OTHER -> "bootread"
  <2> DEFINE r == [NoReq EXCEPT !.kind = "activate", !.id = i, !.path = rows[i].path, !.at = s]
  <2>1. Begin(w, r)
    BY <1>4 DEF BeginActivate
  <2>2. s = "setactive"
    BY <1>n
  <2> HIDE DEF s
  <2>3. r.at = "setactive" /\ r.id = i
    BY <1>n, <2>2
  <2> HIDE DEF r
  <2> QED
    BY <2>1, <2>3, BeginShape DEF OtherSteps, PushSteps, Keeps
<1>5. ASSUME BeginClear(w) PROVE WebShape(w) /\ WebSends(w)
  <2> DEFINE s == IF os = "esxi" THEN "bootread" ELSE "unset"
  <2> DEFINE r == [NoReq EXCEPT !.kind = "clear", !.at = s]
  <2>1. Begin(w, r)
    BY <1>5 DEF BeginClear
  <2>2. s = "unset"
    BY <1>n
  <2> HIDE DEF s
  <2>3. r.at = "unset"
    BY <1>n, <2>2
  <2> HIDE DEF r
  <2> QED
    BY <2>1, <2>3, BeginShape DEF OtherSteps, PushSteps, Keeps
<1>6. ASSUME BeginScan(w) PROVE WebShape(w) /\ WebSends(w)
  <2> DEFINE r == [NoReq EXCEPT !.kind = "scan", !.at = "import", !.known = {rows[i].path : i \in DOMAIN rows}]
  <2>1. Begin(w, r)
    BY <1>6 DEF BeginScan
  <2>2. r.at = "import"
    BY <1>n
  <2> HIDE DEF r
  <2> QED
    BY <2>1, <2>2, BeginShape DEF OtherSteps, PushSteps, Keeps
<1>7. ASSUME NEW p \in (CASE os = "custom" -> Labels \X {0}
                         [] os = "ubuntu" -> {NextSlug, <<"config", 2>>}
                         [] OTHER         -> {ForcedName})
      PROVE  p = AnswerPath
  BY <1>n, <1>7
<1>8. ~BeginExtract(w) /\ ~BeginRefresh(w)
  BY <1>n DEF BeginExtract, BeginRefresh
<1> QED
  BY <1>1, <1>2, <1>3, <1>4, <1>5, <1>6, <1>7, <1>8 DEF Begins

(* A step that ends the request or goes to s with what it carries.         *)
LEMMA StepShape ==
  ASSUME StoreInv, OneName, NEW w \in Webs, req[w].at # "idle", os' = os, crossed' = crossed,
         NEW s \in Steps \ OtherSteps, End(w) \/ Go(w, s),
         DOMAIN files' \subseteq {AnswerPath}, \A i \in DOMAIN rows' : rows'[i].path = AnswerPath,
         s \in {"flush"} \cup PushSteps => req[w].path = AnswerPath,
         DOMAIN rows \subseteq DOMAIN rows' \/ req[w].kind = "delete",
         Go(w, s) /\ (s \in {"setactive", "answer", "upload", "send", "record"}
                        \/ (s \in PushSteps /\ req[w].kind = "edit")) =>
             ((KeepsRow(w) => req[w].id \in DOMAIN rows) => req[w].id \in DOMAIN rows')
  PROVE  WebShape(w)
<1>1. req \in [Webs -> Requests]
  BY DEF StoreInv, ReqOK
<1>2. CASE End(w)
  <2>1. Becomes(w, NoReq) /\ req'[w].at = "idle"
    BY <1>1, <1>2, EndMoves
  <2> QED
    BY <2>1 DEF WebShape, KindMoves, Becomes, Keeps, OtherSteps, PushSteps
<1>3. CASE Go(w, s)
  <2>1. Goes(w, s)
    BY <1>1, <1>3, GoMoves
  <2>2. KindMoves(w)
    BY <2>1 DEF KindMoves, Goes
  <2>3. (KeepsRow(w) => req[w].id \in DOMAIN rows) => (Keeps(req'[w]) => req'[w].id \in DOMAIN rows')
    BY <1>3, <2>1 DEF Keeps, Goes
  <2> QED
    BY <2>1, <2>2, <2>3 DEF WebShape, Goes
<1> QED
  BY <1>2, <1>3

(* The place of a request after End or Go.                                 *)
LEMMA PlaceAfter ==
  ASSUME StoreInv, NEW w \in Webs, NEW s \in Steps
  PROVE  (End(w) => req'[w].at = "idle") /\ (Go(w, s) => req'[w].at = s)
  BY EndMoves, GoMoves DEF StoreInv, ReqOK, Goes

(* The steps under Proxmox, one by one.                                    *)
LEMMA FlushShape ==
  ASSUME StoreInv, OneName, NEW w \in Webs, Flush(w)
  PROVE  WebShape(w) /\ WebSends(w)
<1>1. /\ UNCHANGED <<os, files, rows, crossed>> /\ req[w].at = "flush"
      /\ req' = [req EXCEPT ![w].at = "write", ![w].id = NewId]
  BY DEF Flush, disk, At
<1>2. req[w] \in Requests /\ req \in [Webs -> Requests]
  BY DEF StoreInv, ReqOK
<1>3. /\ req'[w].at = "write" /\ req'[w].kind = req[w].kind /\ req'[w].path = req[w].path
      /\ \A v \in Webs \ {w} : req'[v] = req[v]
  BY <1>1, <1>2 DEF Requests
<1>4. /\ DOMAIN files' \subseteq {AnswerPath} /\ \A i \in DOMAIN rows' : rows'[i].path = AnswerPath
      /\ req[w].path = AnswerPath
  BY <1>1, OneNameHas
<1>5. KindMoves(w)
  BY <1>1, <1>3 DEF KindMoves
<1>6. ~Keeps(req'[w])
  <2>1. req[w].kind = "create"
    BY <1>1 DEF StoreInv, ReqOK, PlaceOK
  <2> QED
    BY <1>3, <2>1 DEF Keeps, PushSteps
<1>7. WebShape(w)
  BY <1>1, <1>3, <1>4, <1>5, <1>6 DEF WebShape, OtherSteps
<1>8. WebSends(w)
  BY <1>1 DEF WebSends, SameAnswer, ToSend
<1> QED
  BY <1>7, <1>8
(* Writing answer.toml adds no other file.                                 *)
LEMMA PutShape ==
  ASSUME NEW n, DOMAIN files \subseteq {AnswerPath}, Put(AnswerPath, "main", n)
  PROVE  DOMAIN files' \subseteq {AnswerPath}
  BY DEF Put

LEMMA WriteMainShape ==
  ASSUME StoreInv, OneName, NEW w \in Webs, WriteMain(w)
  PROVE  WebShape(w) /\ WebSends(w)
<1>1. req[w].at = "write"
  BY DEF WriteMain, At
<1>2. /\ os = "proxmox" /\ DOMAIN files \subseteq {AnswerPath} /\ req[w].path = AnswerPath
      /\ \A i \in DOMAIN rows : rows[i].path = AnswerPath
  BY <1>1, OneNameHas DEF PushSteps
<1>3. PathFor(req[w].path, req[w].id) = AnswerPath
  BY <1>2 DEF PathFor
<1> DEFINE s == CASE os = "ubuntu" -> "meta" [] os = "proxmox" -> "mirror" [] OTHER -> "commit"
<1>4. /\ UNCHANGED <<os, rows, crossed>> /\ Put(AnswerPath, "main", req[w].text)
      /\ req' = [req EXCEPT ![w].path = AnswerPath, ![w].at = s]
  BY <1>3 DEF WriteMain, base
<1>5. s = "mirror"
  BY <1>2
<1> HIDE DEF s
<1>6. req[w] \in Requests /\ req \in [Webs -> Requests]
  BY DEF StoreInv, ReqOK
<1>7. /\ req'[w].at = "mirror" /\ req'[w].kind = req[w].kind /\ req'[w].path = AnswerPath /\ req'[w].id = req[w].id
      /\ \A v \in Webs \ {w} : req'[v] = req[v]
  BY <1>4, <1>5, <1>6 DEF Requests
<1>8. DOMAIN files' \subseteq {AnswerPath}
  BY <1>2, <1>4, PutShape
<1>9. KindMoves(w)
  BY <1>1, <1>4, <1>7 DEF KindMoves
<1>10. Keeps(req'[w]) => KeepsRow(w)
  BY <1>1, <1>7 DEF Keeps, KeepsRow, PushSteps
<1>11. WebShape(w)
  BY <1>2, <1>4, <1>7, <1>8, <1>9, <1>10 DEF WebShape, OtherSteps
<1>12. WebSends(w)
  BY <1>7 DEF WebSends, SameAnswer, ToSendSteps
<1> QED
  BY <1>11, <1>12

LEMMA MirrorShape ==
  ASSUME StoreInv, OneName, NEW w \in Webs, Mirror(w)
  PROVE  WebShape(w) /\ WebSends(w)
<1>1. req[w].at = "mirror" /\ UNCHANGED <<os, files, rows, crossed>> /\ Go(w, "commit")
  BY DEF Mirror, base, At
<1>2. /\ DOMAIN files \subseteq {AnswerPath} /\ req[w].path = AnswerPath
      /\ \A i \in DOMAIN rows : rows[i].path = AnswerPath
  BY <1>1, OneNameHas DEF PushSteps
<1>3. "commit" \in Steps \ OtherSteps
  BY DEF Steps, OtherSteps
<1>4. req[w].kind = "edit" => KeepsRow(w)
  BY <1>1 DEF KeepsRow, PushSteps
<1>5. WebShape(w)
  BY <1>1, <1>2, <1>3, <1>4, StepShape
<1>6. req'[w].at = "commit"
  BY <1>1, <1>3, PlaceAfter
<1> QED
  BY <1>5, <1>6 DEF WebSends, SameAnswer, ToSendSteps

LEMMA CommitPushShape ==
  ASSUME StoreInv, OneName, NEW w \in Webs, CommitPush(w)
  PROVE  WebShape(w) /\ WebSends(w)
<1> DEFINE i == req[w].id
<1> DEFINE gone == req[w].kind = "edit" /\ i \notin DOMAIN rows
<1>1. /\ req[w].at = "commit" /\ UNCHANGED <<os, files, crossed>>
      /\ \/ gone /\ rows' = rows /\ End(w)
         \/ /\ ~gone /\ Go(w, "setactive")
            /\ rows' = [j \in DOMAIN rows \cup {i} |->
                           IF j = i THEN [path |-> req[w].path, text |-> req[w].text] ELSE rows[j]]
  BY OneNameHas DEF CommitPush, disk, At
<1>2. /\ DOMAIN files \subseteq {AnswerPath} /\ req[w].path = AnswerPath
      /\ \A j \in DOMAIN rows : rows[j].path = AnswerPath
  BY <1>1, OneNameHas DEF PushSteps
<1>3. "setactive" \in Steps \ OtherSteps
  BY DEF Steps, OtherSteps
<1>4. CASE gone /\ rows' = rows /\ End(w)
  <2>1. req'[w].at = "idle" /\ \A v \in Webs \ {w} : req'[v] = req[v]
    BY <1>4, EndMoves DEF StoreInv, ReqOK, Becomes
  <2>2. WebShape(w)
    BY <1>1, <1>2, <1>4, <2>1 DEF WebShape, KindMoves, Keeps, PushSteps, OtherSteps
  <2>3. KeepsRow(w) /\ i \notin DOMAIN rows
    BY <1>1, <1>4 DEF KeepsRow, PushSteps
  <2> QED
    BY <1>1, <2>2, <2>3 DEF WebSends, SameAnswer
<1>5. CASE /\ ~gone /\ Go(w, "setactive")
           /\ rows' = [j \in DOMAIN rows \cup {i} |->
                          IF j = i THEN [path |-> req[w].path, text |-> req[w].text] ELSE rows[j]]
  <2>1. /\ DOMAIN rows' = DOMAIN rows \cup {i}
        /\ \A j \in DOMAIN rows' : rows'[j].path = AnswerPath
    BY <1>2, <1>5
  <2>2. WebShape(w)
    BY <1>1, <1>2, <1>3, <1>5, <2>1, StepShape DEF PushSteps
  <2>3. req'[w].at = "setactive"
    BY <1>3, <1>5, PlaceAfter
  <2> QED
    BY <1>1, <2>2, <2>3 DEF WebSends, SameAnswer, ToSendSteps
<1> QED
  BY <1>1, <1>4, <1>5

(* Activation: both steps fail only without the row.                       *)
LEMMA ActivateShape ==
  ASSUME StoreInv, OneName, NEW w \in Webs, SetActive(w) \/ Answer(w)
  PROVE  WebShape(w) /\ WebSends(w)
<1>1. /\ req[w].at \in {"setactive", "answer"} /\ UNCHANGED <<os, files, rows, crossed>>
      /\ \/ req[w].id \notin DOMAIN rows /\ End(w)
         \/ req[w].id \in DOMAIN rows /\ (Go(w, "answer") \/ Go(w, "upload"))
  BY OneNameHas DEF SetActive, Answer, disk, base, At
<1>2. /\ DOMAIN files \subseteq {AnswerPath} /\ \A j \in DOMAIN rows : rows[j].path = AnswerPath
  BY OneNameHas
<1>3. {"answer", "upload"} \subseteq Steps \ OtherSteps
  BY DEF Steps, OtherSteps
<1>4. KeepsRow(w)
  BY <1>1 DEF KeepsRow
<1>5. ASSUME NEW s \in {"answer", "upload"}, End(w) \/ Go(w, s)
      PROVE  WebShape(w)
  BY <1>1, <1>2, <1>3, <1>4, <1>5, StepShape DEF PushSteps
<1>6. WebShape(w)
  BY <1>1, <1>5
<1>7. req[w].id \in DOMAIN rows => req'[w].at \in {"answer", "upload"}
  BY <1>1, <1>3, PlaceAfter
<1> QED
  BY <1>1, <1>4, <1>6, <1>7 DEF WebSends, SameAnswer, ToSendSteps

(* Deleting the file leaves no answer, or the one that was there.          *)
LEMMA UnlinkShape ==
  ASSUME StoreInv, OneName, NEW w \in Webs, Unlink(w)
  PROVE  WebShape(w) /\ WebSends(w)
<1>1. /\ req[w].at = "unlink" /\ UNCHANGED <<os, rows, crossed>> /\ Go(w, "drop")
      /\ files' = [p \in DOMAIN files \ {req[w].path} |-> files[p]]
  BY DEF Unlink, base, At
<1>2. /\ DOMAIN files \subseteq {AnswerPath} /\ \A j \in DOMAIN rows : rows[j].path = AnswerPath
  BY OneNameHas
<1>3. "drop" \in Steps \ OtherSteps /\ "drop" \notin {"flush"} \cup PushSteps
  BY DEF Steps, OtherSteps, PushSteps
<1>4. DOMAIN files' \subseteq {AnswerPath}
  BY <1>1, <1>2
<1>5. WebShape(w)
  BY <1>1, <1>2, <1>3, <1>4, StepShape
<1>6. SameAnswer
  BY <1>1 DEF SameAnswer
<1> QED
  BY <1>1, <1>5, <1>6 DEF WebSends, SameAnswer, ToSend

LEMMA DropShape ==
  ASSUME StoreInv, OneName, NEW w \in Webs, Drop(w)
  PROVE  WebShape(w) /\ WebSends(w)
<1>1. req[w].at = "drop" /\ UNCHANGED <<os, files, crossed>>
  BY DEF Drop, disk, At
<1>2. /\ os = "proxmox" /\ DOMAIN files \subseteq {AnswerPath}
      /\ \A j \in DOMAIN rows : rows[j].path = AnswerPath
  BY OneNameHas
<1>3. req[w].kind = "delete"
  BY <1>1 DEF StoreInv, ReqOK, PlaceOK
<1>4. rows' = rows \/ rows' = [j \in DOMAIN rows \ {req[w].id} |-> rows[j]]
  BY DEF Drop
<1>5. End(w) \/ Go(w, "unseed")
  <2>1. CASE active = req[w].id /\ ~req[w].was
    BY <2>1 DEF Drop
  <2>2. CASE ~(active = req[w].id /\ ~req[w].was)
    BY <1>2, <2>2 DEF Drop
  <2> QED
    BY <2>1, <2>2
<1>6. "unseed" \in Steps \ OtherSteps /\ "unseed" \notin {"flush"} \cup PushSteps
  BY DEF Steps, OtherSteps, PushSteps
<1>7. \A j \in DOMAIN rows' : rows'[j].path = AnswerPath
  BY <1>2, <1>4
<1>8. WebShape(w)
  BY <1>1, <1>2, <1>3, <1>5, <1>6, <1>7, StepShape
<1> QED
  BY <1>1, <1>8 DEF WebSends, SameAnswer, ToSend

LEMMA UnseedShape ==
  ASSUME StoreInv, OneName, NEW w \in Webs, Unseed(w) \/ Unset(w)
  PROVE  WebShape(w) /\ WebSends(w)
<1>1. /\ req[w].at \in {"unseed", "unset"} /\ UNCHANGED <<os, files, rows, crossed>>
      /\ End(w) \/ Go(w, "unseed")
  BY DEF Unseed, Unset, disk, base, At
<1>2. /\ DOMAIN files \subseteq {AnswerPath} /\ \A j \in DOMAIN rows : rows[j].path = AnswerPath
  BY OneNameHas
<1>3. "unseed" \in Steps \ OtherSteps /\ "unseed" \notin {"flush"} \cup PushSteps
  BY DEF Steps, OtherSteps, PushSteps
<1>4. WebShape(w)
  BY <1>1, <1>2, <1>3, StepShape
<1> QED
  BY <1>1, <1>4 DEF WebSends, SameAnswer, ToSend

LEMMA ImportShape ==
  ASSUME ConfigAssumption, StoreInv, OneName, NEW w \in Webs, Import(w)
  PROVE  WebShape(w) /\ WebSends(w)
<1> DEFINE found == {p \in DOMAIN files : Whole(p) /\ p \notin req[w].known}
<1> DEFINE order == SetToSeq(found)
<1> DEFINE c == Cardinality(found)
<1> DEFINE ids == NewId..NewId + c - 1
<1>1. /\ req[w].at = "import" /\ UNCHANGED <<os, files, crossed>> /\ End(w)
      /\ rows' = [i \in DOMAIN rows \cup ids |->
                   IF i \in ids
                   THEN [path |-> order[i - NewId + 1], text |-> files[order[i - NewId + 1]].main]
                   ELSE rows[i]]
  BY DEF Import, disk, At
<1>2. /\ DOMAIN files \subseteq {AnswerPath} /\ \A j \in DOMAIN rows : rows[j].path = AnswerPath
  BY OneNameHas
<1>3. IsFiniteSet(found) /\ found \subseteq {AnswerPath}
  <2>1. IsFiniteSet({AnswerPath}) /\ found \in SUBSET {AnswerPath}
    BY <1>2, FS_Singleton
  <2> HIDE DEF found
  <2> QED
    BY <2>1, FS_Subset
<1> HIDE DEF found
<1>4. order \in [1..c -> found]
  BY <1>3, SetToSeqType
<1>5. c \in Nat /\ NewId \in Nat
  BY <1>3, FS_CardinalityType, NewIdType DEF StoreInv
<1> HIDE DEF order, c
<1>6. \A i \in ids : i - NewId + 1 \in 1..c
  BY <1>5
<1>7. \A i \in ids : order[i - NewId + 1] = AnswerPath
  BY <1>3, <1>4, <1>6
<1> HIDE DEF ids
<1>8. DOMAIN rows \subseteq DOMAIN rows' /\ \A i \in DOMAIN rows' : rows'[i].path = AnswerPath
  BY <1>1, <1>2, <1>7
<1>9. "unseed" \in Steps \ OtherSteps /\ "unseed" \notin {"flush"} \cup PushSteps
  BY DEF Steps, OtherSteps, PushSteps
<1>10. WebShape(w)
  <2>1. req'[w].at = "idle" /\ \A v \in Webs \ {w} : req'[v] = req[v]
    BY <1>1, EndMoves DEF StoreInv, ReqOK, Becomes
  <2> QED
    BY <1>1, <1>2, <1>8, <2>1 DEF WebShape, KindMoves, Keeps, PushSteps, OtherSteps
<1> QED
  BY <1>1, <1>10 DEF WebSends, SameAnswer, ToSend

(* The other families' steps are not taken.                                *)
LEMMA NoOtherSteps ==
  ASSUME OneName, NEW w \in Webs
  PROVE  /\ ~WriteMeta(w) /\ ~Publish(w) /\ ~CopyMain(w) /\ ~CopyMeta(w)
         /\ ~BootRead(w) /\ ~BootTruncate(w) /\ ~BootRewrite(w) /\ ~Unpack(w) /\ ~Restore(w)
<1>1. req[w].at \notin OtherSteps
  BY OneNameHas
<1> QED
  BY <1>1 DEF WriteMeta, Publish, CopyMain, CopyMeta, BootRead, BootTruncate, BootRewrite, Unpack, Restore, At,
              OtherSteps

(* Every step of WebStep under Proxmox.                                    *)
LEMMA WebStepShape ==
  ASSUME ConfigAssumption, StoreInv, OneName, NEW w \in Webs, WebStep(w)
  PROVE  WebShape(w) /\ WebSends(w)
  BY BeginsShape, FlushShape, WriteMainShape, MirrorShape, CommitPushShape, ActivateShape, UnlinkShape,
     DropShape, UnseedShape, ImportShape, NoOtherSteps DEF WebStep

(* The steps of the upload under Proxmox.                                  *)
LEMMA UploadShape ==
  ASSUME InjectAssumption, StoreInv, TaskInv, OneName, NEW w \in Webs,
         FlushUpload(w) \/ Send(w) \/ SendFails(w) \/ Record(w)
  PROVE  WebShape(w) /\ files' = files
<1>1. /\ DOMAIN files \subseteq {AnswerPath} /\ \A j \in DOMAIN rows : rows[j].path = AnswerPath
  BY OneNameHas
<1>2. CASE FlushUpload(w) \/ SendFails(w) \/ Record(w)
  <2>1. /\ req[w].at \in {"upload", "send", "record"} /\ UNCHANGED <<os, files, rows, crossed>>
        /\ End(w) \/ Go(w, "send")
    BY <1>2 DEF FlushUpload, SendFails, Record, disk, At
  <2>2. "send" \in Steps \ OtherSteps /\ "send" \notin {"flush"} \cup PushSteps
    BY DEF Steps, OtherSteps, PushSteps
  <2>3. KeepsRow(w)
    BY <2>1 DEF KeepsRow
  <2> QED
    BY <1>1, <2>1, <2>2, <2>3, StepShape
<1>3. CASE Send(w)
  <2>1. PICK t \in Tasks : Sends(w, t)
    BY <1>3, SendEffect
  <2>2. KeepsRow(w)
    BY <2>1 DEF KeepsRow, Sends, At
  <2>3. KindMoves(w)
    BY <2>1 DEF KindMoves, Sends, At
  <2> QED
    BY <1>1, <2>1, <2>2, <2>3 DEF WebShape, Sends, PushSteps, OtherSteps
<1> QED
  BY <1>2, <1>3
----------------------------------------------------------------------------
(* The requests beside each other.                                         *)

(* Requests stay apart from a delete, and their rows stay.                 *)
LEMMA ShapeKeeps ==
  ASSUME StoreInv, DeleteAlone, RowStays, NEW w \in Webs, os = "proxmox", WebShape(w)
  PROVE  DeleteAlone' /\ RowStays' /\ (~crossed' => ~crossed)
<1>1. ~crossed' => ~crossed
  BY DEF WebShape, KindMoves
<1>2. \A v \in Webs \ {w} : req'[v] = req[v]
  BY DEF WebShape
<1>3. DeleteAlone'
  <2> SUFFICES ASSUME ~crossed', NEW v \in Webs, NEW u \in Webs, v # u, req'[v].at # "idle",
                      req'[v].kind = "delete"
               PROVE  req'[u].at = "idle"
    BY DEF DeleteAlone, At
  <2>1. \A a, b \in Webs : a # b /\ req[a].at # "idle" /\ req[a].kind = "delete" => req[b].at = "idle"
    BY <1>1 DEF DeleteAlone, At
  <2>2. CASE v # w /\ u # w
    BY <1>2, <2>1, <2>2
  <2>3. CASE v = w
    <3>1. u # w /\ req'[u] = req[u]
      BY <1>2, <2>3
    <3> QED
      BY <2>1, <2>3, <3>1 DEF WebShape, KindMoves, At
  <2>4. CASE u = w
    <3>1. v # w /\ req'[v] = req[v]
      BY <1>2, <2>4
    <3> QED
      BY <2>1, <2>4, <3>1 DEF WebShape, KindMoves, At
  <2> QED
    BY <2>2, <2>3, <2>4
<1>4. RowStays'
  <2> SUFFICES ASSUME ~crossed', NEW v \in Webs, Keeps(req'[v])
               PROVE  req'[v].id \in DOMAIN rows'
    BY DEF RowStays, KeepsRow, Keeps
  <2>1. \A u \in Webs : KeepsRow(u) => req[u].id \in DOMAIN rows
    BY <1>1 DEF RowStays
  <2>2. CASE v = w
    BY <2>1, <2>2 DEF WebShape
  <2>3. CASE v # w
    <3>1. req'[v] = req[v] /\ KeepsRow(v) /\ req[v].id \in DOMAIN rows /\ req[v].at # "idle"
      BY <1>2, <2>1, <2>3 DEF Keeps, KeepsRow, PushSteps
    <3>2. ~(req[w].kind = "delete" /\ req[w].at # "idle")
      BY <1>1, <2>3, <3>1 DEF DeleteAlone, At
    <3>3. DOMAIN rows \subseteq DOMAIN rows'
      BY <3>2 DEF WebShape
    <3> QED
      BY <3>1, <3>3
  <2> QED
    BY <2>2, <2>3
<1> QED
  BY <1>1, <1>3, <1>4

(* There is one name after a step of a request.                            *)
LEMMA ShapePaths ==
  ASSUME OneName, NEW w \in Webs, WebShape(w)
  PROVE  RequestPaths'
<1>1. \A v \in Webs : /\ req[v].at \in {"flush"} \cup PushSteps => req[v].path = AnswerPath
                      /\ req[v].at \notin OtherSteps
  BY OneNameHas
<1> QED
  BY <1>1 DEF WebShape, RequestPaths

(* A step of a request that sends no task.                                 *)
LEMMA LateStays ==
  ASSUME TasksTyped, RowStays, LateAnswer, NEW w \in Webs, os = "proxmox", WebShape(w), WebSends(w),
         ~crossed' => ~crossed, UNCHANGED <<task, image, born, unsent>>,
         \A t \in Tasks : upload'[t] = "done" => upload[t] = "done"
  PROVE  LateAnswer'
<1> SUFFICES ASSUME ~crossed', ~unsent', ~SharedSome'
             PROVE  (AnswerIsCurrent \/ (\E v \in Webs : ToSend(v)) \/ (\E t \in Tasks : NotRead(t)))'
  BY DEF LateAnswer
<1>1. AnswerIsCurrent \/ (\E v \in Webs : ToSend(v)) \/ (\E t \in Tasks : NotRead(t))
  BY DEF LateAnswer, SharedSome
<1>2. \A v \in Webs : ToSend(v)' <=> req'[v].at \in ToSendSteps
  BY DEF ToSend, ToSendSteps
<1>3. \A v \in Webs : v # w /\ ToSend(v) => ToSend(v)'
  BY <1>2 DEF WebShape, ToSend, ToSendSteps
<1>4. ToSend(w) => ToSend(w)'
  BY <1>2 DEF WebSends, RowStays
<1>5. \A t \in Tasks : NotRead(t) => NotRead(t)'
  BY DEF NotRead, TAt
<1>6. AnswerIsCurrent => AnswerIsCurrent' \/ ToSend(w)'
  <2>1. SameAnswer => (AnswerIsCurrent => AnswerIsCurrent')
    BY DEF SameAnswer, AnswerIsCurrent
  <2> QED
    BY <1>2, <2>1 DEF WebSends
<1> QED
  BY <1>1, <1>3, <1>4, <1>5, <1>6

OneNameInv == OnePath /\ DeleteAlone /\ RowStays /\ LateAnswer

(* Under another family there is nothing to show.                          *)
LEMMA OsStays ==
  ASSUME os' = os, os # "proxmox"
  PROVE  OneNameInv'
  BY DEF OneNameInv, OnePath, DeleteAlone, RowStays, LateAnswer

(* A step of a request keeps the answer current, or owes a task.           *)
LEMMA WebAnswers ==
  ASSUME ConfigAssumption, StoreInv, TaskInv, OneNameInv, NEW w \in Webs, WebStep(w), UNCHANGED tvars
  PROVE  OneNameInv'
<1>1. CASE os # "proxmox"
  BY <1>1, WebStepMoves, OsStays DEF WebMoves
<1>2. CASE os = "proxmox"
  <2>1. OneName
    BY <1>2 DEF OneName, OneNameInv
  <2>2. WebShape(w) /\ WebSends(w)
    BY <2>1, WebStepShape
  <2>3. DeleteAlone' /\ RowStays' /\ (~crossed' => ~crossed)
    BY <1>2, <2>2, ShapeKeeps DEF OneNameInv
  <2>4. RequestPaths'
    BY <2>1, <2>2, ShapePaths
  <2>5. TaskPaths'
    BY <1>2 DEF OneNameInv, OnePath, TaskPaths, tvars, Created
  <2>6. LateAnswer'
    BY <1>2, <2>2, <2>3, LateStays DEF OneNameInv, tvars, TaskInv
  <2> QED
    BY <2>3, <2>4, <2>5, <2>6 DEF OneNameInv, OnePath
<1> QED
  BY <1>1, <1>2

(* So does a step of its upload: what it owed, the task now owes.          *)
LEMMA UploadAnswers ==
  ASSUME InjectAssumption, StoreInv, TaskInv, OneNameInv, NEW w \in Webs,
         FlushUpload(w) \/ Send(w) \/ SendFails(w) \/ Record(w)
  PROVE  OneNameInv'
<1>1. CASE os # "proxmox"
  BY <1>1, OsStays DEF FlushUpload, Send, SendFails, Record
<1>2. CASE os = "proxmox"
  <2>1. OneName
    BY <1>2 DEF OneName, OneNameInv
  <2>2. WebShape(w) /\ files' = files
    BY <2>1, UploadShape
  <2>3. DeleteAlone' /\ RowStays' /\ (~crossed' => ~crossed)
    BY <1>2, <2>2, ShapeKeeps DEF OneNameInv
  <2>4. RequestPaths'
    BY <2>1, <2>2, ShapePaths
  <2>5. CASE FlushUpload(w) \/ Record(w)
    <3>1. UNCHANGED <<task, image, born, unsent>> /\ req[w].at \in {"upload", "record"}
      BY <2>5 DEF FlushUpload, Record, tvars, At
    <3>2. TaskPaths'
      BY <1>2, <3>1 DEF OneNameInv, OnePath, TaskPaths, Created
    <3>3. \A t \in Tasks : upload'[t] = "done" => upload[t] = "done"
      BY <2>5 DEF FlushUpload, Record, tvars, TaskInv, TasksTyped
    <3>4. WebSends(w)
      <4>1. CASE FlushUpload(w)
        <5>1. req'[w].at = "send"
          BY <4>1, PlaceAfter DEF FlushUpload, Steps
        <5> QED
          BY <5>1 DEF WebSends, ToSendSteps
      <4>2. CASE Record(w)
        BY <2>2, <4>2 DEF WebSends, SameAnswer, ToSend, Record, At
      <4> QED
        BY <2>5, <4>1, <4>2
    <3>5. LateAnswer'
      BY <1>2, <2>2, <2>3, <3>1, <3>3, <3>4, LateStays DEF OneNameInv, TaskInv
    <3> QED
      BY <2>3, <2>4, <3>2, <3>5 DEF OneNameInv, OnePath
  <2>6. CASE SendFails(w)
    <3>1. UNCHANGED <<task, born>> /\ unsent'
      BY <2>6 DEF SendFails
    <3>2. TaskPaths'
      BY <1>2, <3>1 DEF OneNameInv, OnePath, TaskPaths, Created
    <3>3. LateAnswer'
      BY <3>1 DEF LateAnswer
    <3> QED
      BY <2>3, <2>4, <3>2, <3>3 DEF OneNameInv, OnePath
  <2>7. CASE Send(w)
    <3>1. PICK t \in Tasks : Sends(w, t)
      BY <2>7, SendEffect
    <3>2. TaskPaths'
      <4>1. Created' = Created /\ t \notin Created /\ Moves(t, "queued")
        BY <3>1 DEF Sends, Created, TaskInv, CreatedByPrepare, Sent, Unprepared
      <4> QED
        BY <1>2, <4>1 DEF OneNameInv, OnePath, TaskPaths, Moves, NoPathYet
    <3>3. NotRead(t)'
      BY <3>1 DEF Sends, Moves, NotRead
    <3>4. LateAnswer'
      BY <3>3 DEF LateAnswer
    <3> QED
      BY <2>3, <2>4, <3>2, <3>4 DEF OneNameInv, OnePath
  <2> QED
    BY <2>5, <2>6, <2>7
<1> QED
  BY <1>1, <1>2

----------------------------------------------------------------------------
(* The tasks beside the requests.                                          *)

(* A step of a task leaves the requests alone.                             *)
LEMMA RequestsStay ==
  ASSUME OneNameInv, UNCHANGED cvars
  PROVE  /\ os = "proxmox" => RequestPaths' /\ TaskPaths
         /\ DeleteAlone' /\ RowStays' /\ SameAnswer /\ os' = os /\ crossed' = crossed
         /\ \A w \in Webs : ToSend(w) => ToSend(w)'
<1>1. UNCHANGED <<os, rows, files, req, crossed>>
  BY DEF cvars
<1>2. os = "proxmox" => RequestPaths' /\ TaskPaths
  BY <1>1 DEF OneNameInv, OnePath, RequestPaths
<1>3. DeleteAlone'
  BY <1>1 DEF OneNameInv, DeleteAlone, At
<1>4. RowStays'
  BY <1>1 DEF OneNameInv, RowStays, KeepsRow
<1>5. SameAnswer /\ \A w \in Webs : ToSend(w) => ToSend(w)'
  BY <1>1 DEF SameAnswer, ToSend
<1> QED
  BY <1>1, <1>2, <1>3, <1>4, <1>5

PathMoves(t) ==
    \/ task'[t].path = AnswerPath
    \/ task'[t].path = task[t].path /\ (task'[t].at \in NoPathYet \/ task[t].at \notin NoPathYet)

(* A task that goes on keeps its path.                                     *)
LEMMA GoPath ==
  ASSUME TasksTyped, NEW t \in Tasks, NEW s \in TaskSteps, TGo(t, s),
         s \in NoPathYet \/ task[t].at \notin NoPathYet
  PROVE  PathMoves(t)
  BY TGoMoves DEF PathMoves, Moves

(* The steps one by one.                                                   *)
LEMMA TaskStepPaths ==
  ASSUME StoreInv, TaskInv, OneName, NEW t \in Tasks, TaskStep(t), ~Prepare(t)
  PROVE  PathMoves(t)
<1>0. TasksTyped
  BY DEF TaskInv
<1>1. CASE Load(t)
  <2>1. CASE task[t].id \in DOMAIN rows
    <3>1. task' = [task EXCEPT ![t].at = "check", ![t].path = rows[task[t].id].path]
      BY <1>1, <2>1 DEF Load
    <3>2. rows[task[t].id].path = AnswerPath
      BY <2>1, OneNameHas DEF OneName, OnePath, RequestPaths
    <3> QED
      BY <1>0, <3>1, <3>2 DEF PathMoves, TasksTyped, TaskState
  <2>2. CASE task[t].id \notin DOMAIN rows
    BY <1>0, <1>1, <2>2, GoPath DEF Load, TaskSteps, NoPathYet
  <2> QED
    BY <2>1, <2>2
<1>2. CASE Start(t)
  BY <1>0, <1>2, GoPath DEF Start, TaskSteps, NoPathYet
<1>3. CASE Check(t)
  <2>1. TAt(t, "check") /\ (TGo(t, "prepare") \/ TGo(t, "fail"))
    BY <1>3 DEF Check
  <2> QED
    BY <1>0, <2>1, GoPath DEF TaskSteps, NoPathYet, TAt
<1>4. CASE Prepared(t) \/ AssistantFails(t)
  BY <1>0, <1>4, GoPath DEF Prepared, AssistantFails, TaskSteps, NoPathYet, TAt
<1>5. CASE Measure(t)
  <2>1. TAt(t, "measure") /\ (TGo(t, "replace") \/ TGo(t, "fail"))
    BY <1>5 DEF Measure
  <2> QED
    BY <1>0, <2>1, GoPath DEF TaskSteps, NoPathYet, TAt
<1>6. CASE Replace(t)
  <2>1. TAt(t, "replace") /\ (TGo(t, "menus") \/ TGo(t, "fail"))
    BY <1>6 DEF Replace
  <2> QED
    BY <1>0, <2>1, GoPath DEF TaskSteps, NoPathYet, TAt
<1>7. CASE Menus(t)
  <2>1. TAt(t, "menus") /\ (TGo(t, "done") \/ TGo(t, "ended"))
    BY <1>7 DEF Menus
  <2> QED
    BY <1>0, <2>1, GoPath DEF TaskSteps, NoPathYet, TAt
<1>8. CASE Fail(t) \/ Done(t) \/ Killed(t)
  BY <1>0, <1>8, GoPath DEF Fail, Done, Killed, TaskSteps, NoPathYet
<1> QED
  BY <1>1, <1>2, <1>3, <1>4, <1>5, <1>6, <1>7, <1>8 DEF TaskStep

(* A step that creates no image loses no task that owes the answer.        *)
LEMMA OrdinaryAnswers ==
  ASSUME StoreInv, TaskInv, OneNameInv, PublishInv, NEW t \in Tasks, TaskStep(t), Ordinary(t)
  PROVE  OneNameInv'
<1>1. /\ os = "proxmox" => RequestPaths' /\ TaskPaths
      /\ DeleteAlone' /\ RowStays' /\ SameAnswer /\ os' = os /\ crossed' = crossed
      /\ \A w \in Webs : ToSend(w) => ToSend(w)'
  BY RequestsStay DEF Ordinary
<1>2. PublishMoves(t)
  BY TaskStepPublishes
<1>3. /\ born' = born /\ unsent' = unsent /\ Created' = Created
      /\ \A u \in Tasks : image'[u].shared = image[u].shared /\ image'[u].answer = image[u].answer
  BY DEF Ordinary, Created
<1>4. ASSUME os = "proxmox" PROVE TaskPaths'
  <2>1. PathMoves(t)
    <3>1. CASE Prepare(t)
      <4>1. TAt(t, "prepare") /\ task[t].at \notin NoPathYet
        BY <3>1 DEF Prepare, TAt, NoPathYet
      <4>2. task'[t].path = task[t].path
        BY <3>1 DEF Prepare, TGo, TaskInv, TasksTyped, TaskState
      <4> QED
        BY <4>1, <4>2 DEF PathMoves
    <3>2. CASE ~Prepare(t)
      BY <1>4, <3>2, TaskStepPaths DEF OneName, OneNameInv
    <3> QED
      BY <3>1, <3>2
  <2>2. \A u \in Tasks \ {t} : task'[u] = task[u]
    BY <1>2 DEF PublishMoves
  <2> QED
    BY <1>1, <1>3, <1>4, <2>1, <2>2 DEF TaskPaths, PathMoves
<1>5. \A u \in Tasks : NotRead(u) => NotRead(u)'
  <2> SUFFICES ASSUME NEW u \in Tasks, NotRead(u)
               PROVE  NotRead(u)'
    OBVIOUS
  <2>1. CASE u # t
    <3>1. task'[u] = task[u] /\ upload'[u] = upload[u]
      BY <1>2, <2>1 DEF PublishMoves
    <3> QED
      BY <3>1 DEF NotRead, TAt
  <2>2. CASE u = t
    <3>1. task[t].at \notin PreparedAlone /\ task[t].at # "done"
      BY <2>2 DEF NotRead, TAt, PreparedAlone
    <3>2. task'[t].at \notin PreparedAlone /\ upload'[t] # "done"
      BY <1>2, <3>1 DEF PublishMoves
    <3>3. task'[t].at \in TaskSteps \ {"none"}
      BY DEF Ordinary, Moves
    <3> QED
      BY <2>2, <3>2, <3>3 DEF NotRead, TAt, TaskSteps, PreparedAlone
  <2> QED
    BY <2>1, <2>2
<1>6. AnswerIsCurrent => AnswerIsCurrent'
  <2>1. born # <<>> => Last(born) \in Tasks
    BY LastCreated DEF TaskInv
  <2> QED
    BY <1>1, <1>3, <2>1 DEF AnswerIsCurrent, SameAnswer
<1>7. LateAnswer'
  <2>1. SharedSome' = SharedSome
    BY <1>3 DEF SharedSome
  <2> QED
    BY <1>1, <1>3, <1>5, <1>6, <2>1 DEF OneNameInv, LateAnswer
<1> QED
  BY <1>1, <1>4, <1>7 DEF OneNameInv, OnePath

(* A new image has the answer that the file holds.                         *)
LEMMA PrepareAnswers ==
  ASSUME StoreInv, TaskInv, OneNameInv, NEW t \in Tasks, PrepareFrame(t),
         Creates(t, Found(task[t].path)) \/ Shares(t, Found(task[t].path))
  PROVE  OneNameInv'
<1> DEFINE n == Found(task[t].path)
<1>1. /\ os = "proxmox" => RequestPaths' /\ TaskPaths
      /\ DeleteAlone' /\ RowStays' /\ SameAnswer /\ os' = os /\ crossed' = crossed
  BY RequestsStay DEF PrepareFrame
<1>2. n \in {0} \cup Texts
  BY FoundType
<1>3. /\ Moves(t, "preparing") /\ task'[t].path = task[t].path /\ tmp' \in Tasks
      /\ image'[tmp'] = [answer |-> n, whole |-> FALSE, shared |-> (tmp # 0)]
  BY <1>2, PrepareTypes
<1>4. task[t].at = "prepare" /\ files' = files
  BY DEF PrepareFrame, cvars
<1>5. ASSUME os = "proxmox" PROVE task[t].path = AnswerPath
  BY <1>1, <1>4, <1>5 DEF TaskPaths, NoPathYet
<1>6. CASE Creates(t, n)
  <2>1. tmp' = t /\ born' = Append(born, t)
    BY <1>6 DEF Creates
  <2>2. Created' = Created \cup {t} /\ Last(born') = t
    BY <2>1, BornGrows
  <2>3. ASSUME os = "proxmox" PROVE TaskPaths'
    BY <1>1, <1>3, <1>5, <2>2, <2>3 DEF TaskPaths, Moves
  <2>4. ASSUME os = "proxmox" PROVE AnswerIsCurrent'
    <3>1. image'[t].answer = n
      BY <1>3, <2>1
    <3>2. AnswerPath \in DOMAIN files => n = files[AnswerPath].main
      BY <1>5, <2>4 DEF Found
    <3> QED
      BY <1>4, <2>2, <3>1, <3>2 DEF AnswerIsCurrent
  <2>5. LateAnswer'
    BY <1>1, <2>4 DEF LateAnswer
  <2> QED
    BY <1>1, <2>3, <2>5 DEF OneNameInv, OnePath
<1>7. CASE Shares(t, n)
  <2>1. tmp' = tmp /\ born' = born /\ tmp # 0 /\ image' = [image EXCEPT ![tmp] = [answer |-> n, whole |-> FALSE, shared |-> TRUE]]
    BY <1>7 DEF Shares
  <2>2. SharedSome'
    BY <1>3, <2>1 DEF SharedSome, TaskInv, TasksTyped
  <2>3. Created' = Created
    BY <2>1 DEF Created
  <2>4. ASSUME os = "proxmox" PROVE TaskPaths'
    BY <1>1, <1>3, <1>5, <2>3, <2>4 DEF TaskPaths, Moves
  <2>5. LateAnswer'
    BY <2>2 DEF LateAnswer
  <2> QED
    BY <1>1, <2>4, <2>5 DEF OneNameInv, OnePath
<1> QED
  BY <1>6, <1>7

(* The two halves of AnswerInv.                                            *)
LEMMA AnswerInvSplit == AnswerInv <=> OneNameInv /\ PublishInv
  BY DEF AnswerInv, OneNameInv, PublishInv

(* Every step of a task keeps both halves.                                 *)
LEMMA TaskStepAnswers ==
  ASSUME StoreInv, TaskInv, OneNameInv, PublishInv, NEW t \in Tasks, TaskStep(t)
  PROVE  OneNameInv' /\ PublishInv'
<1>1. CASE Ordinary(t)
  BY <1>1, OrdinaryAnswers, TaskStepPublishes, PublishKept
<1>2. CASE Prepare(t) /\ ~Ordinary(t)
  <2>1. PrepareFrame(t) /\ (Creates(t, Found(task[t].path)) \/ Shares(t, Found(task[t].path)))
    BY <1>2, PrepareCases
  <2>2. Found(task[t].path) \in {0} \cup Texts
    BY FoundType
  <2>3. OneNameInv'
    BY <2>1, PrepareAnswers
  <2>4. PublishInv'
    BY <2>1, <2>2, PreparePublishes
  <2> QED
    BY <2>3, <2>4
<1> QED
  BY <1>1, <1>2, StartOrdinary, LoadOrdinary, CheckOrdinary, PreparedOrdinary, AssistantFailsOrdinary,
     MeasureOrdinary, ReplaceOrdinary, FailOrdinary, MenusOrdinary, DoneOrdinary, KilledOrdinary DEF TaskStep

(* Every step keeps both halves.                                           *)
LEMMA NextAnswers ==
  ASSUME ConfigAssumption, InjectAssumption, StoreInv, TaskInv, AnswerInv, [Next]_vars
  PROVE  AnswerInv'
<1> USE AnswerInvSplit
<1>0. OneNameInv /\ PublishInv
  OBVIOUS
<1>1. ASSUME NEW w \in Webs, WebStep(w), UNCHANGED tvars PROVE OneNameInv' /\ PublishInv'
  <2>1. PublishInv'
    BY <1>0, <1>1, PublishStill DEF tvars
  <2> QED
    BY <1>0, <1>1, <2>1, WebAnswers
<1>2. ASSUME NEW w \in Webs, FlushUpload(w) \/ Send(w) \/ SendFails(w) \/ Record(w)
      PROVE  OneNameInv' /\ PublishInv'
  <2>1. PublishInv'
    <3>1. CASE FlushUpload(w) \/ SendFails(w)
      BY <1>0, <3>1, PublishStill DEF FlushUpload, SendFails, tvars
    <3>2. CASE Record(w)
      <4>1. /\ UNCHANGED <<image, iso, born, task>> /\ At(w, "record")
            /\ upload' = [upload EXCEPT ![req[w].text] = "processing"]
        BY <3>2 DEF Record
      <4>2. upload[req[w].text] = "none"
        BY <4>1 DEF TaskInv, RowsOfTasks
      <4>3. \A t \in Tasks : upload'[t] = upload[t] \/ (upload'[t] = "processing" /\ upload[t] = "none")
        BY <4>1, <4>2 DEF TaskInv, TasksTyped
      <4> QED
        BY <1>0, <4>1, <4>3, PublishStill
    <3>3. CASE Send(w)
      <4>1. PICK u \in Tasks : Sends(w, u)
        BY <3>3, SendEffect
      <4>2. /\ UNCHANGED <<image, iso, born, upload>>
            /\ \A t \in Tasks : task'[t] = task[t] \/ (task[t].at = "none" /\ task'[t].at = "queued")
        BY <4>1 DEF Sends, Moves, Sent
      <4> QED
        BY <1>0, <4>2, PublishStill
    <3> QED
      BY <1>2, <3>1, <3>2, <3>3
  <2> QED
    BY <1>0, <1>2, <2>1, UploadAnswers
<1>3. ASSUME NEW t \in Tasks, TaskStep(t) PROVE OneNameInv' /\ PublishInv'
  BY <1>0, <1>3, TaskStepAnswers
<1>4. ASSUME UNCHANGED vars PROVE OneNameInv' /\ PublishInv'
  <2>1. UNCHANGED cvars /\ UNCHANGED tvars
    BY <1>4 DEF vars
  <2>2. PublishInv'
    BY <1>0, <2>1, PublishStill DEF tvars
  <2>3. /\ os = "proxmox" => RequestPaths' /\ TaskPaths
        /\ DeleteAlone' /\ RowStays' /\ SameAnswer /\ os' = os /\ crossed' = crossed
        /\ \A w \in Webs : ToSend(w) => ToSend(w)'
    BY <1>0, <2>1, RequestsStay
  <2>4. TaskPaths => TaskPaths'
    BY <2>1 DEF TaskPaths, tvars, Created
  <2>5. LateAnswer'
    <3>1. UNCHANGED <<task, upload, image, born, unsent>>
      BY <2>1 DEF tvars
    <3>2. \A t \in Tasks : NotRead(t) => NotRead(t)'
      BY <3>1 DEF NotRead, TAt
    <3>3. AnswerIsCurrent => AnswerIsCurrent'
      BY <2>3, <3>1 DEF AnswerIsCurrent, SameAnswer
    <3>4. SharedSome' = SharedSome
      BY <3>1 DEF SharedSome
    <3> QED
      BY <1>0, <2>3, <3>1, <3>2, <3>3, <3>4 DEF OneNameInv, LateAnswer
  <2> QED
    BY <2>2, <2>3, <2>4, <2>5 DEF OneNameInv, OnePath
<1>5. OneNameInv' /\ PublishInv'
  BY <1>1, <1>2, <1>3, <1>4 DEF Next, Rest
<1> QED
  BY <1>5 DEF AnswerInv, OneNameInv, PublishInv

IInv == StoreInv /\ TaskInv /\ AnswerInv

(* The inductive invariant.                                                *)
THEOREM Invariance == Spec => []IInv
<1> USE ConfigAssumption, InjectAssumption
<1>1. Init => IInv
  <2> SUFFICES ASSUME Init PROVE IInv
    OBVIOUS
  <2>1. StoreInv /\ TaskInv
    BY InitHolds
  <2>2. /\ files \in InitFiles /\ rows = [i \in {} |-> 0] /\ req = [w \in Webs |-> NoReq]
        /\ upload = [t \in Tasks |-> "none"] /\ task = [t \in Tasks |-> NoTask]
        /\ born = <<>>
    BY DEF Init, ConfigInit
  <2>3. \A w \in Webs : req[w].at = "idle"
    BY <2>2 DEF NoReq
  <2>4. \A t \in Tasks : task[t].at = "none" /\ upload[t] = "none"
    BY <2>2 DEF NoTask
  <2>5. Created = {}
    BY <2>2 DEF Created
  <2>6. OnePath
    <3>1. os = "proxmox" => DOMAIN files = {}
      BY <2>2 DEF InitFiles
    <3> QED
      BY <2>2, <2>3, <2>4, <2>5, <3>1 DEF OnePath, RequestPaths, TaskPaths, PushSteps, OtherSteps, NoPathYet
  <2>7. DeleteAlone /\ RowStays
    BY <2>3 DEF DeleteAlone, RowStays, At, KeepsRow, PushSteps
  <2>8. LateAnswer
    BY <2>2 DEF LateAnswer, AnswerIsCurrent
  <2>9. SettledHasEnded /\ OwnImage /\ LastIsPublished
    BY <2>2, <2>4, <2>5 DEF SettledHasEnded, OwnImage, LastIsPublished, PreparedAlone, TAt
  <2> QED
    BY <2>1, <2>6, <2>7, <2>8, <2>9 DEF IInv, AnswerInv
<1>2. IInv /\ [Next]_vars => IInv'
  <2> SUFFICES ASSUME IInv, [Next]_vars PROVE IInv'
    OBVIOUS
  <2>1. StoreInv' /\ TaskInv'
    BY NextKeeps DEF IInv
  <2>2. AnswerInv'
    BY NextAnswers DEF IInv
  <2> QED
    BY <2>1, <2>2 DEF IInv
<1> QED
  BY <1>1, <1>2, PTL DEF Spec

----------------------------------------------------------------------------
(* The theorems.                                                           *)

(* Every variable has its type, SQLite's write lock has one holder at most *)
(* and no image is created twice.                                          *)
THEOREM TypeCorrect == Spec => []TypeOK
<1>1. ASSUME IInv PROVE TypeOK
  <2>1. lock \subseteq Webs /\ Cardinality(lock) <= 1
    <3>1. CASE lock = {}
      BY <3>1, FS_EmptySet
    <3>2. ASSUME NEW w \in Webs, lock = {w} PROVE lock \subseteq Webs /\ Cardinality(lock) <= 1
      <4>1. Cardinality({w}) = 1
        BY FS_Singleton
      <4> QED
        BY <3>2, <4>1
    <3> QED
      BY <1>1, <3>1, <3>2 DEF IInv, StoreInv, LockHeld
  <2>2. \A w \in Webs : req[w].at \in Steps /\ req[w].kind \in Kinds
    BY <1>1 DEF IInv, StoreInv, ReqOK, Requests
  <2>3. StoreTypeOK
    BY <1>1, <2>1, <2>2 DEF IInv, StoreInv, StoreTypeOK, FilesOK, RowsOK, SeedOK, CountsOK, FileContent
  <2>4. \A t \in Tasks : task[t].ino \in {0} \cup Tasks /\ task[t].path \in Paths \cup {NoPath}
    BY <1>1 DEF IInv, TaskInv, TasksTyped, TaskState
  <2> QED
    BY <1>1, <2>3, <2>4 DEF IInv, TypeOK, TaskInv, TasksTyped
<1> QED
  BY <1>1, Invariance, PTL

(* A row that says processing has a task that runs, unless that task is    *)
(* one of those that the code cannot settle.                               *)
THEOREM RowsAreExplained == Spec => []ProcessingIsExplained
<1>1. ASSUME IInv PROVE ProcessingIsExplained
  BY <1>1 DEF IInv, TaskInv, RowsOfTasks, ProcessingIsExplained, Sent
<1> QED
  BY <1>1, Invariance, PTL

(* The published image is only ever replaced by one created later.         *)
THEOREM ImagesOnlyAdvance == Spec => NeverAnOlderImage
<1>1. ASSUME IInv, [Next]_vars PROVE [iso # 0 /\ iso' # iso => Before(iso, iso')]_vars
  BY <1>1, PublishesLater DEF IInv
<1> QED
  BY <1>1, Invariance, PTL DEF Spec, NeverAnOlderImage

(* Once nothing runs, machines install from the newest image, whole and    *)
(* with the answer that its configuration holds.                           *)
THEOREM AnswersArrive == Spec => []IsoHoldsAnswer
<1>1. ASSUME IInv PROVE IsoHoldsAnswer
  <2> SUFFICES ASSUME os = "proxmox", Quiet, ~crossed, Sent # {}, ~unsent,
                      \A t \in Sent : upload[t] = "done", \A t \in Sent : ~image[t].shared,
                      task[Last(born)].path \in DOMAIN files
               PROVE  /\ iso = Last(born) /\ image[iso].whole
                      /\ image[iso].answer = files[task[Last(born)].path].main
    BY DEF IsoHoldsAnswer
  <2>1. TasksTyped /\ CreatedByPrepare /\ OwnImage /\ LastIsPublished /\ LateAnswer /\ OnePath
    BY <1>1 DEF IInv, TaskInv, AnswerInv
  <2>2. Created \subseteq Sent
    BY <2>1 DEF CreatedByPrepare, Sent, Unprepared
  <2>3. ~SharedSome
    BY <2>1, <2>2 DEF SharedSome, CreatedByPrepare
  <2>4. Created # {}
    BY <2>1, <2>3 DEF OwnImage, Sent
  <2>5. born # <<>>
    BY <2>4 DEF Created
  <2>6. Last(born) \in Created /\ Last(born) \in Tasks
    BY <2>1, <2>5, LastCreated
  <2>7. upload[Last(born)] = "done" /\ ~image[Last(born)].shared
    BY <2>2, <2>6
  <2>8. iso = Last(born) /\ image[Last(born)].whole
    BY <2>1, <2>5, <2>7 DEF LastIsPublished
  <2>9. task[Last(born)].path = AnswerPath
    BY <2>1, <2>6 DEF OnePath, TaskPaths
  <2>10. ~(\E w \in Webs : ToSend(w))
    BY DEF Quiet, QuietWeb, ToSend, At
  <2>11. ~(\E t \in Tasks : NotRead(t))
    BY DEF Quiet, TaskEnds, NotRead, TAt, Sent
  <2>12. AnswerIsCurrent
    BY <2>1, <2>3, <2>10, <2>11 DEF LateAnswer
  <2> QED
    BY <2>5, <2>8, <2>9, <2>12 DEF AnswerIsCurrent
<1> QED
  BY <1>1, Invariance, PTL

----------------------------------------------------------------------------
(* The configurations of the other families.                               *)

Others(w) == Webs \ {w}
Alone(w)  == \A v \in Others(w) : At(v, "idle")

(* Requests that overlap disturb nobody.                                   *)
Overlaps ==
    \A v, w \in Webs : v # w => At(v, "idle") \/ At(w, "idle") \/ Benign(req[v].kind, req[w].kind)

CommonSteps == {"idle", "flush", "write", "commit", "unlink", "drop", "import"}
CopySteps   == {"publish", "pubmain", "pubmeta"}
BootSteps   == {"bootread", "truncate", "rewrite"}
FamilySteps ==
    CommonSteps \cup CASE os = "ubuntu" -> {"meta", "setactive", "unset", "unseed", "unpack", "restore"} \cup CopySteps
                       [] os = "esxi"   -> {"setactive", "unset", "unpack"} \cup BootSteps
                       [] OTHER         -> {}

RowPaths == {rows[i].path : i \in DOMAIN rows}
Names(w) == req[w].id \in DOMAIN rows /\ req[w].path = rows[req[w].id].path

(* What a request still finds true of the row that it began with.          *)
EditHas(w)     == req[w].id \in DOMAIN rows /\ (os = "ubuntu" => Names(w))
CreateHas(w)   == lock = {w} /\ req[w].id \notin DOMAIN rows
DeleteHas(w)   == Names(w) /\ req[w].was = (active = req[w].id)

RequestHas(w) ==
    /\ req[w].at \in FamilySteps
    /\ req[w].at \in PushSteps /\ req[w].kind = "edit" => EditHas(w)
    /\ req[w].at \in PushSteps /\ req[w].kind = "create" => CreateHas(w)
    /\ req[w].at \in {"unlink", "drop"} => DeleteHas(w)
    /\ At(w, "import") => req[w].kind = "scan" /\ req[w].known = RowPaths
    /\ req[w].at \in CopySteps =>
           Names(w) /\ (req[w].kind = "activate" \/ (req[w].kind \in {"edit", "extract"} /\ req[w].id = active))
    /\ At(w, "setactive") => req[w].kind = "activate" /\ Names(w)
    /\ req[w].at \in {"unset", "unseed"} => req[w].kind \in {"delete", "clear"}
    /\ At(w, "unseed") => active = 0
    /\ req[w].at \in {"unpack", "restore"} => req[w].kind = "extract"
    /\ req[w].at \in BootSteps =>
           req[w].kind \in {"delete", "clear", "refresh", "extract"} \/ (req[w].kind = "activate" /\ Names(w))
    /\ At(w, "bootread") => req[w].kind # "extract"
    /\ At(w, "truncate") => req[w].kind # "refresh"

(* Custom: a row whose file has no id appended has it to itself, and the   *)
(* file holds what the row says unless a request is about to say so.       *)
Settling(i) ==
    \E w \in Webs : /\ req[w].id = i
                    /\ At(w, "drop") \/ (At(w, "commit") /\ req[w].kind = "edit")

Untaken(p, i) == \A j \in DOMAIN rows \ {i} : rows[j].path # p
Holds(p, n)   == p \in DOMAIN files /\ files[p].main = n

CustomInv ==
    /\ \A i \in DOMAIN rows :
          rows[i].path[2] = 0 => /\ Untaken(rows[i].path, i)
                                 /\ Holds(rows[i].path, rows[i].text) \/ Settling(i)
    /\ \A w \in Webs :
          At(w, "commit") /\ req[w].path[2] = 0 =>
              Untaken(req[w].path, req[w].id) /\ Holds(req[w].path, req[w].text)

(* ESXi: what the boot configuration holds at each step of its writer.  An *)
(* extraction that has emptied it has recorded that it takes the ks= away. *)
SeedFits ==
    \/ taken = "cfg"
    \/ /\ seed.body /\ (seed.ks # NoPath => active # 0)
       /\ active # 0 => seed.ks # NoPath \/ taken = "ks"

WriterFits(w) ==
    /\ At(w, "bootread") => /\ taken = "cfg" \/ seed.body
                            /\ req[w].kind = "refresh" => SeedFits
    /\ req[w].at \in {"unpack", "truncate", "rewrite"} => req[w].body
    /\ At(w, "truncate") /\ req[w].kind = "extract" => SeedFits
    /\ At(w, "rewrite") /\ req[w].kind = "extract" => taken # "cfg" /\ (active # 0 => taken = "ks")
    /\ At(w, "rewrite") /\ req[w].kind = "refresh" => taken # "cfg" /\ SeedFits /\ req[w].path = seed.ks
    /\ At(w, "setactive") => seed.body /\ seed.ks # NoPath
    /\ At(w, "unset") => taken = "cfg" \/ (seed.body /\ seed.ks = NoPath)

EsxiInv ==
    /\ (\A w \in Webs : req[w].at \in CommonSteps \cup {"unpack"}) => SeedFits
    /\ \A w \in Webs : WriterFits(w)

(* Ubuntu: the bundles of the rows are whole and no two rows share one;    *)
(* the seed is the bundle of the active row but for what an edit of it, or *)
(* an extraction, has still to copy, or an extraction took.                *)
Dropping(i) == \E w \in Webs : At(w, "drop") /\ req[w].id = i

FreshBundle(w) ==
    req[w].kind = "create" =>
       /\ req[w].at \in {"flush"} \cup PushSteps => ~Taken(req[w].path)
       /\ req[w].at \in {"meta", "commit"} => req[w].path \in DOMAIN files /\ files[req[w].path].main # 0
       /\ At(w, "commit") => files[req[w].path].meta # 0

BundlesOK ==
    /\ \A i \in DOMAIN rows : Untaken(rows[i].path, i)
    /\ \A i \in DOMAIN rows : Whole(rows[i].path) \/ Dropping(i)
    /\ \A w \in Webs : FreshBundle(w)

(* The active row changes, or the seed does.                               *)
Reseeding ==
    \E w \in Webs : \/ At(w, "unseed")
                    \/ At(w, "drop") /\ req[w].was
                    \/ req[w].kind = "activate" /\ req[w].at \in {"pubmain", "pubmeta", "setactive"}

EditAt(S) == \E w \in Webs : req[w].kind \in {"edit", "extract"} /\ req[w].id = active /\ req[w].at \in S

SeedCopies(p) ==
    /\ \/ seed.main = files[p].main \/ EditAt({"meta", "commit", "publish", "pubmain"})
       \/ taken = "seed" /\ seed.main = 0
    /\ \/ seed.meta = files[p].meta \/ EditAt({"commit"} \cup CopySteps)
       \/ taken = "seed" /\ seed.meta = 0

SeedFollows == IF active = 0 THEN seed = NoSeed ELSE SeedCopies(rows[active].path)

(* What an activation has copied before it sets the active row.            *)
Copied(w) ==
    req[w].kind = "activate" =>
       /\ req[w].at \in {"pubmeta", "setactive"} => seed.main = files[req[w].path].main
       /\ At(w, "setactive") => seed.meta = files[req[w].path].meta

UbuntuSeed ==
    /\ Reseeding \/ SeedFollows
    /\ \A w \in Webs : Copied(w)

ConfigInv ==
    os # "proxmox" /\ ~crossed =>
        /\ Overlaps
        /\ \A w \in Webs : RequestHas(w)
        /\ os = "custom" => CustomInv
        /\ os = "esxi" => EsxiInv
        /\ os = "ubuntu" => BundlesOK /\ UbuntuSeed

(* SQLite's next id is above every row's.                                  *)
LEMMA NewIdAbove ==
  ASSUME ConfigAssumption, RowsOK
  PROVE  \A i \in DOMAIN rows : i < NewId
<1>1. MaxId \in Nat
  BY DEF ConfigAssumption
<1>2. DOMAIN rows \cup {0} \in SUBSET (0..MaxId) /\ DOMAIN rows \cup {0} # {}
  BY <1>1 DEF RowsOK, Ids
<1> DEFINE m == Max(DOMAIN rows \cup {0})
<1>3. m \in DOMAIN rows \cup {0} /\ \A x \in DOMAIN rows \cup {0} : x <= m
  BY <1>1, <1>2, MaxType
<1> HIDE DEF m
<1>4. m \in Nat /\ NewId = m + 1
  BY <1>2, <1>3 DEF NewId, m
<1>5. \A x \in DOMAIN rows : x \in Nat /\ x <= m
  BY <1>2, <1>3
<1> QED
  BY <1>4, <1>5
----------------------------------------------------------------------------
(* What each step does to the request that takes it.                       *)

(* The order that SetToSeq chooses lists each member once.                 *)
LEMMA SetToSeqOnce ==
  ASSUME NEW S, IsFiniteSet(S)
  PROVE  SetToSeq(S) \in [1..Cardinality(S) -> S] /\ IsInjective(SetToSeq(S))
<1>1. \E f \in [1..Cardinality(S) -> S] : IsInjective(f)
  <2>1. ExistsBijection(1..Cardinality(S), S)
    BY FS_CardinalityType
  <2> QED
    BY <2>1 DEF ExistsBijection, Bijection, Injection
<1> QED
  BY <1>1 DEF SetToSeq

(* w goes on to place s and carries what it carried.                       *)
Arrives(w, s) ==
    /\ \A v \in Others(w) : req'[v] = req[v]
    /\ req'[w].at = s /\ req'[w].kind = req[w].kind /\ req'[w].id = req[w].id
    /\ req'[w].path = req[w].path /\ req'[w].text = req[w].text
    /\ req'[w].was = req[w].was /\ req'[w].body = req[w].body /\ req'[w].known = req[w].known

(* The request of w ends.                                                  *)
Ends(w) ==
    /\ \A v \in Others(w) : req'[v] = req[v]
    /\ req'[w].at = "idle" /\ req'[w].kind = "none"

LEMMA GoArrives ==
  ASSUME StoreInv, NEW w \in Webs, NEW s, Go(w, s)
  PROVE  Arrives(w, s)
<1>1. req \in [Webs -> Requests] /\ req[w] \in Requests
  BY DEF StoreInv, ReqOK
<1> QED
  BY <1>1 DEF Go, Arrives, Others, Requests

LEMMA EndEnds ==
  ASSUME StoreInv, NEW w \in Webs, End(w)
  PROVE  Ends(w)
<1>1. req \in [Webs -> Requests]
  BY DEF StoreInv, ReqOK
<1> QED
  BY <1>1 DEF End, Ends, Others, NoReq

(* What a request may begin with.                                          *)
NewRequest(r) ==
    \/ r.kind = "create" /\ r.at = "flush" /\ (os = "ubuntu" => ~Taken(r.path))
    \/ r.kind = "edit" /\ r.at = "write" /\ r.id \in DOMAIN rows /\ (os = "ubuntu" => r.path = rows[r.id].path)
    \/ /\ r.kind = "delete" /\ r.at = "unlink" /\ r.id \in DOMAIN rows
       /\ r.path = rows[r.id].path /\ r.was = (active = r.id)
    \/ /\ r.kind = "activate" /\ r.id \in DOMAIN rows /\ r.path = rows[r.id].path
       /\ (os = "ubuntu" /\ r.at = "publish") \/ (os = "esxi" /\ r.at = "bootread")
    \/ r.kind = "clear" /\ ((os = "ubuntu" /\ r.at = "unset") \/ (os = "esxi" /\ r.at = "bootread"))
    \/ r.kind = "scan" /\ r.at = "import" /\ r.known = RowPaths
    \/ r.kind = "extract" /\ r.at = "unpack" /\ r.body /\ os \in {"ubuntu", "esxi"}
    \/ r.kind = "refresh" /\ r.at = "bootread" /\ os = "esxi"

(* w begins r, and disturbs nobody unless the run is marked.               *)
Started(w, r) ==
    /\ req[w].at = "idle" /\ req'[w] = r /\ \A v \in Others(w) : req'[v] = req[v]
    /\ UNCHANGED <<os, files, seed, taken, rows, active, lock>>
    /\ ~crossed' => ~crossed /\ \A v \in Others(w) : At(v, "idle") \/ Benign(req[v].kind, r.kind)

LEMMA BeginStarts ==
  ASSUME StoreInv, NEW w \in Webs, NEW r, Begin(w, r)
  PROVE  Started(w, r)
<1>1. req \in [Webs -> Requests]
  BY DEF StoreInv, ReqOK
<1>2. crossed \in BOOLEAN
  BY DEF StoreInv, CountsOK
<1>3. /\ UNCHANGED <<os, files, seed, taken, rows, active, lock>> /\ req[w].at = "idle"
      /\ req' = [req EXCEPT ![w] = r]
      /\ crossed' = (crossed \/ \E v \in Webs \ {w} : ~At(v, "idle") /\ ~Benign(req[v].kind, r.kind))
  BY DEF Begin, base, disk, At
<1>4. req'[w] = r /\ \A v \in Others(w) : req'[v] = req[v]
  BY <1>1, <1>3 DEF Others
<1>5. ~crossed' => ~crossed /\ \A v \in Others(w) : At(v, "idle") \/ Benign(req[v].kind, r.kind)
  BY <1>2, <1>3, Zenon DEF Others
<1> QED
  BY <1>3, <1>4, <1>5 DEF Started

LEMMA BeginsWith ==
  ASSUME StoreInv, os # "proxmox", NEW w \in Webs, Begins(w)
  PROVE  \E r : Started(w, r) /\ NewRequest(r)
<1>n. /\ NoReq = [at |-> "idle", kind |-> "none", id |-> 0, path |-> NoPath, text |-> 0,
                  was |-> FALSE, body |-> TRUE, known |-> {}]
      /\ os \in {"ubuntu", "esxi", "custom"}
  BY DEF NoReq, StoreInv, CountsOK, Systems
<1>1. ASSUME NEW p, BeginCreate(w, p) PROVE \E r : Started(w, r) /\ NewRequest(r)
  <2> DEFINE r == [NoReq EXCEPT !.at = "flush", !.kind = "create", !.path = p, !.text = pushes + 1]
  <2>1. Begin(w, r) /\ (os = "ubuntu" => ~Taken(p))
    BY <1>1 DEF BeginCreate
  <2>2. r.at = "flush" /\ r.kind = "create" /\ r.path = p
    BY <1>n
  <2> HIDE DEF r
  <2>3. NewRequest(r)
    BY <2>1, <2>2 DEF NewRequest
  <2> QED
    BY <2>1, <2>3, BeginStarts
<1>2. ASSUME NEW i \in DOMAIN rows, NEW p, BeginEdit(w, i, p) PROVE \E r : Started(w, r) /\ NewRequest(r)
  <2> DEFINE q == IF os = "ubuntu" THEN rows[i].path ELSE p
  <2> DEFINE r == [NoReq EXCEPT !.at = "write", !.kind = "edit", !.id = i, !.text = pushes + 1, !.path = q]
  <2>1. Begin(w, r)
    BY <1>2 DEF BeginEdit
  <2>2. os = "ubuntu" => q = rows[i].path
    OBVIOUS
  <2> HIDE DEF q
  <2>3. r.at = "write" /\ r.kind = "edit" /\ r.path = q /\ r.id = i
    BY <1>n
  <2> HIDE DEF r
  <2>4. NewRequest(r)
    BY <2>2, <2>3 DEF NewRequest
  <2> QED
    BY <2>1, <2>4, BeginStarts
<1>3. ASSUME NEW i \in DOMAIN rows, BeginDelete(w, i) PROVE \E r : Started(w, r) /\ NewRequest(r)
  <2> DEFINE r == [NoReq EXCEPT !.at = "unlink", !.kind = "delete", !.id = i,
                                !.path = rows[i].path, !.was = (active = i)]
  <2>1. Begin(w, r)
    BY <1>3 DEF BeginDelete
  <2>2. r.at = "unlink" /\ r.kind = "delete" /\ r.id = i /\ r.path = rows[i].path /\ r.was = (active = i)
    BY <1>n
  <2> HIDE DEF r
  <2>3. NewRequest(r)
    BY <2>2 DEF NewRequest
  <2> QED
    BY <2>1, <2>3, BeginStarts
<1>4. ASSUME NEW i \in DOMAIN rows, BeginActivate(w, i) PROVE \E r : Started(w, r) /\ NewRequest(r)
  <2> DEFINE s == CASE os = "ubuntu" -> "publish" [] os = "proxmox" -> "setactive" [] OTHER -> "bootread"
  <2> DEFINE r == [NoReq EXCEPT !.kind = "activate", !.id = i, !.path = rows[i].path, !.at = s]
  <2>1. Begin(w, r) /\ os # "custom"
    BY <1>4 DEF BeginActivate
  <2>2. (os = "ubuntu" /\ s = "publish") \/ (os = "esxi" /\ s = "bootread")
    BY <1>n, <2>1
  <2> HIDE DEF s
  <2>3. r.at = s /\ r.kind = "activate" /\ r.id = i /\ r.path = rows[i].path
    BY <1>n
  <2> HIDE DEF r
  <2>4. NewRequest(r)
    BY <2>2, <2>3 DEF NewRequest
  <2> QED
    BY <2>1, <2>4, BeginStarts
<1>5. ASSUME BeginClear(w) PROVE \E r : Started(w, r) /\ NewRequest(r)
  <2> DEFINE s == IF os = "esxi" THEN "bootread" ELSE "unset"
  <2> DEFINE r == [NoReq EXCEPT !.kind = "clear", !.at = s]
  <2>1. Begin(w, r) /\ os # "custom"
    BY <1>5 DEF BeginClear
  <2>2. (os = "ubuntu" /\ s = "unset") \/ (os = "esxi" /\ s = "bootread")
    BY <1>n, <2>1
  <2> HIDE DEF s
  <2>3. r.at = s /\ r.kind = "clear"
    BY <1>n
  <2> HIDE DEF r
  <2>4. NewRequest(r)
    BY <2>2, <2>3 DEF NewRequest
  <2> QED
    BY <2>1, <2>4, BeginStarts
<1>6. ASSUME BeginScan(w) PROVE \E r : Started(w, r) /\ NewRequest(r)
  <2> DEFINE r == [NoReq EXCEPT !.kind = "scan", !.at = "import", !.known = RowPaths]
  <2>1. Begin(w, r)
    BY <1>6 DEF BeginScan, RowPaths
  <2>2. r.at = "import" /\ r.kind = "scan" /\ r.known = RowPaths
    BY <1>n
  <2> HIDE DEF r
  <2>3. NewRequest(r)
    BY <2>2 DEF NewRequest
  <2> QED
    BY <2>1, <2>3, BeginStarts
<1>7. ASSUME BeginExtract(w) PROVE \E r : Started(w, r) /\ NewRequest(r)
  <2> DEFINE r == [NoReq EXCEPT !.kind = "extract", !.at = "unpack"]
  <2>1. Begin(w, r) /\ os \in {"ubuntu", "esxi"}
    BY <1>7 DEF BeginExtract
  <2>2. r.at = "unpack" /\ r.kind = "extract" /\ r.body
    BY <1>n
  <2> HIDE DEF r
  <2>3. NewRequest(r)
    BY <2>1, <2>2 DEF NewRequest
  <2> QED
    BY <2>1, <2>3, BeginStarts
<1>8. ASSUME BeginRefresh(w) PROVE \E r : Started(w, r) /\ NewRequest(r)
  <2> DEFINE r == [NoReq EXCEPT !.kind = "refresh", !.at = "bootread"]
  <2>1. Begin(w, r) /\ os = "esxi"
    BY <1>8 DEF BeginRefresh
  <2>2. r.at = "bootread" /\ r.kind = "refresh"
    BY <1>n
  <2> HIDE DEF r
  <2>3. NewRequest(r)
    BY <2>1, <2>2 DEF NewRequest
  <2> QED
    BY <2>1, <2>3, BeginStarts
<1> QED
  BY <1>1, <1>2, <1>3, <1>4, <1>5, <1>6, <1>7, <1>8 DEF Begins

(* The files after a push has written one part of a bundle.                *)
Writes(p, n, f) ==
    /\ DOMAIN files' = DOMAIN files \cup {p}
    /\ \A q \in DOMAIN files \ {p} : files'[q] = files[q]
    /\ f = "main" => /\ files'[p].main = n
                     /\ p \in DOMAIN files => files'[p].meta = files[p].meta
    /\ f = "meta" => /\ files'[p].meta = n
                     /\ p \in DOMAIN files => files'[p].main = files[p].main

LEMMA PutWrites ==
  ASSUME FilesOK, NEW p, NEW n, NEW f \in {"main", "meta"}, Put(p, f, n)
  PROVE  Writes(p, n, f)
<1> DEFINE old == IF p \in DOMAIN files THEN files[p] ELSE [main |-> 0, meta |-> 0]
<1>1. old \in FileContent /\ (p \in DOMAIN files => old = files[p])
  BY DEF FilesOK, FileContent
<1>2. files' = [q \in DOMAIN files \cup {p} |-> IF q = p THEN [old EXCEPT ![f] = n] ELSE files[q]]
  BY DEF Put
<1> HIDE DEF old
<1> DEFINE new == [old EXCEPT ![f] = n]
<1>3. /\ f = "main" => new.main = n /\ new.meta = old.meta
      /\ f = "meta" => new.meta = n /\ new.main = old.main
  BY <1>1 DEF FileContent
<1> HIDE DEF new
<1>4. /\ DOMAIN files' = DOMAIN files \cup {p} /\ files'[p] = new
      /\ \A q \in DOMAIN files \ {p} : files'[q] = files[q]
  BY <1>2 DEF new
<1> QED
  BY <1>1, <1>3, <1>4 DEF Writes

(* The steps one by one, outside Proxmox.                                  *)
FlushDoes(w) ==
    /\ req[w].at = "flush" /\ lock = {} /\ lock' = {w} /\ UNCHANGED <<files, seed, taken, rows, active>>
    /\ \A v \in Others(w) : req'[v] = req[v]
    /\ req'[w].at = "write" /\ req'[w].kind = req[w].kind /\ req'[w].path = req[w].path
    /\ req'[w].id \notin DOMAIN rows

LEMMA FlushEffect ==
  ASSUME ConfigAssumption, StoreInv, NEW w \in Webs, Flush(w)
  PROVE  FlushDoes(w)
<1>1. req \in [Webs -> Requests] /\ req[w] \in Requests
  BY DEF StoreInv, ReqOK
<1>2. NewId \notin DOMAIN rows
  BY NewIdType DEF StoreInv
<1>3. /\ req[w].at = "flush" /\ lock = {} /\ lock' = {w} /\ UNCHANGED <<files, seed, taken, rows, active>>
      /\ req' = [req EXCEPT ![w].at = "write", ![w].id = NewId]
  BY DEF Flush, At, Unlocked, disk
<1> QED
  BY <1>1, <1>2, <1>3 DEF FlushDoes, Others, Requests

WriteDoes(w, p) ==
    /\ req[w].at = "write" /\ UNCHANGED <<seed, taken, rows, active, lock>>
    /\ Writes(p, req[w].text, "main")
    /\ \A v \in Others(w) : req'[v] = req[v]
    /\ req'[w].at = (IF os = "ubuntu" THEN "meta" ELSE "commit")
    /\ req'[w].kind = req[w].kind /\ req'[w].id = req[w].id /\ req'[w].text = req[w].text
    /\ req'[w].path = p
    /\ os # "custom" => p = req[w].path

LEMMA WriteEffect ==
  ASSUME StoreInv, os # "proxmox", NEW w \in Webs, WriteMain(w)
  PROVE  WriteDoes(w, PathFor(req[w].path, req[w].id))
<1> DEFINE p == PathFor(req[w].path, req[w].id)
<1> DEFINE s == CASE os = "ubuntu" -> "meta" [] os = "proxmox" -> "mirror" [] OTHER -> "commit"
<1>1. req \in [Webs -> Requests] /\ req[w] \in Requests
  BY DEF StoreInv, ReqOK
<1>2. /\ req[w].at = "write" /\ UNCHANGED <<seed, taken, rows, active, lock>>
      /\ Put(p, "main", req[w].text) /\ req' = [req EXCEPT ![w].path = p, ![w].at = s]
  BY DEF WriteMain, At, base
<1>3. s = (IF os = "ubuntu" THEN "meta" ELSE "commit")
  OBVIOUS
<1>4. os # "custom" => p = req[w].path
  BY DEF PathFor
<1> HIDE DEF p, s
<1>5. Writes(p, req[w].text, "main")
  BY <1>2, PutWrites DEF StoreInv
<1>6. WriteDoes(w, p)
  BY <1>1, <1>2, <1>3, <1>4, <1>5 DEF WriteDoes, Others, Requests
<1> QED
  BY <1>6 DEF p

(* A commit of a push whose row is still there.                            *)
CommitDoes(w) ==
    /\ req[w].at = "commit" /\ lock \subseteq {w} /\ lock' = {} /\ UNCHANGED <<files, seed, taken, active>>
    /\ DOMAIN rows' = DOMAIN rows \cup {req[w].id}
    /\ rows'[req[w].id].path = req[w].path /\ rows'[req[w].id].text = req[w].text
    /\ \A j \in DOMAIN rows \ {req[w].id} : rows'[j] = rows[j]
    /\ IF os = "ubuntu" /\ active = req[w].id THEN Arrives(w, "publish") ELSE Ends(w)

LEMMA CommitEffect ==
  ASSUME StoreInv, os # "proxmox", NEW w \in Webs, req[w].kind = "create" \/ req[w].id \in DOMAIN rows,
         CommitPush(w)
  PROVE  CommitDoes(w)
<1> DEFINE i == req[w].id
<1>1. ~(req[w].kind = "edit" /\ i \notin DOMAIN rows)
  OBVIOUS
<1>2. /\ req[w].at = "commit" /\ lock \subseteq {w} /\ lock' = {} /\ UNCHANGED <<files, seed, taken, active>>
      /\ rows' = [j \in DOMAIN rows \cup {i} |->
                     IF j = i THEN [path |-> req[w].path, text |-> req[w].text] ELSE rows[j]]
  BY <1>1 DEF CommitPush, At, CanWrite, disk
<1>3. IF os = "ubuntu" /\ active = i THEN Go(w, "publish") ELSE End(w)
  BY <1>1 DEF CommitPush
<1>4. IF os = "ubuntu" /\ active = i THEN Arrives(w, "publish") ELSE Ends(w)
  BY <1>3, GoArrives, EndEnds
<1> QED
  BY <1>2, <1>4 DEF CommitDoes

(* A delete that finds its row as it read it.                              *)
DropDoes(w) ==
    /\ req[w].at = "drop" /\ lock = {} /\ UNCHANGED <<files, seed, taken, lock>>
    /\ DOMAIN rows' = DOMAIN rows \ {req[w].id} /\ \A j \in DOMAIN rows' : rows'[j] = rows[j]
    /\ active' = (IF req[w].was THEN 0 ELSE active)
    /\ IF ~req[w].was \/ os = "custom" THEN Ends(w)
       ELSE Arrives(w, IF os = "esxi" THEN "bootread" ELSE "unseed")

LEMMA DropEffect ==
  ASSUME StoreInv, NEW w \in Webs, req[w].was = (active = req[w].id), Drop(w)
  PROVE  DropDoes(w)
<1> DEFINE i == req[w].id
<1>1. ~(active = i /\ ~req[w].was)
  OBVIOUS
<1>2. /\ req[w].at = "drop" /\ lock = {} /\ UNCHANGED <<files, seed, taken, lock>>
      /\ rows' = [j \in DOMAIN rows \ {i} |-> rows[j]]
      /\ active' = (IF req[w].was THEN 0 ELSE active)
      /\ IF ~req[w].was \/ os = "custom" THEN End(w)
         ELSE Go(w, IF os = "esxi" THEN "bootread" ELSE "unseed")
  BY <1>1 DEF Drop, At, Unlocked, disk
<1>3. DOMAIN rows' = DOMAIN rows \ {i} /\ \A j \in DOMAIN rows' : rows'[j] = rows[j]
  BY <1>2
<1>4. IF ~req[w].was \/ os = "custom" THEN Ends(w)
      ELSE Arrives(w, IF os = "esxi" THEN "bootread" ELSE "unseed")
  BY <1>2, GoArrives, EndEnds
<1> QED
  BY <1>2, <1>3, <1>4 DEF DropDoes

(* The rows that a scan adds: new ids, each with a whole file no row had.  *)
ImportDoes(w) ==
    /\ req[w].at = "import" /\ lock = {} /\ UNCHANGED <<files, seed, taken, active, lock>> /\ Ends(w)
    /\ DOMAIN rows \subseteq DOMAIN rows' /\ \A j \in DOMAIN rows : rows'[j] = rows[j]
    /\ \A i \in DOMAIN rows' \ DOMAIN rows :
          /\ Whole(rows'[i].path) /\ rows'[i].path \notin req[w].known
          /\ rows'[i].text = files[rows'[i].path].main
          /\ \A j \in DOMAIN rows' \ DOMAIN rows : rows'[j].path = rows'[i].path => j = i

LEMMA ImportEffect ==
  ASSUME ConfigAssumption, StoreInv, NEW w \in Webs, Import(w)
  PROVE  ImportDoes(w)
<1> DEFINE found == {p \in DOMAIN files : Whole(p) /\ p \notin req[w].known}
<1> DEFINE order == SetToSeq(found)
<1> DEFINE c == Cardinality(found)
<1> DEFINE ids == NewId..NewId + c - 1
<1>1. /\ req[w].at = "import" /\ lock = {} /\ UNCHANGED <<files, seed, taken, active, lock>> /\ End(w)
      /\ rows' = [i \in DOMAIN rows \cup ids |->
                   IF i \in ids
                   THEN [path |-> order[i - NewId + 1], text |-> files[order[i - NewId + 1]].main]
                   ELSE rows[i]]
  BY DEF Import, disk, At, Unlocked
<1>2. \A p \in found : Whole(p) /\ p \notin req[w].known
  OBVIOUS
<1>3. IsFiniteSet(found)
  <2>1. found \in SUBSET Paths
    BY DEF StoreInv, FilesOK
  <2> HIDE DEF found
  <2> QED
    BY <2>1, PathsFinite, FS_Subset
<1> HIDE DEF found
<1>4. order \in [1..c -> found] /\ IsInjective(order)
  BY <1>3, SetToSeqOnce
<1>5. c \in Nat /\ NewId \in Nat
  BY <1>3, FS_CardinalityType, NewIdType DEF StoreInv
<1> HIDE DEF order, c
<1>6. \A i \in ids : i \in Int /\ i - NewId + 1 \in 1..c
  BY <1>5
<1>7. \A x \in DOMAIN rows : x \notin ids
  <2> SUFFICES ASSUME NEW x \in DOMAIN rows PROVE x \notin ids
    OBVIOUS
  <2>1. x \in Nat
    BY DEF StoreInv, RowsOK, Ids
  <2>2. x < NewId
    BY NewIdAbove DEF StoreInv
  <2> QED
    BY <1>5, <2>1, <2>2
<1> DEFINE o(i) == order[i - NewId + 1]
<1>8. \A i \in ids : o(i) \in found
  BY <1>4, <1>6
<1>9. \A i, j \in ids : o(i) = o(j) => i = j
  <2> SUFFICES ASSUME NEW i \in ids, NEW j \in ids, o(i) = o(j) PROVE i = j
    OBVIOUS
  <2>1. i - NewId + 1 = j - NewId + 1
    BY <1>4, <1>6 DEF IsInjective
  <2> QED
    BY <1>5, <1>6, <2>1
<1>10. rows' = [i \in DOMAIN rows \cup ids |->
                   IF i \in ids THEN [path |-> o(i), text |-> files[o(i)].main] ELSE rows[i]]
  BY <1>1
<1> HIDE DEF o, ids
<1>11. /\ DOMAIN rows \subseteq DOMAIN rows' /\ \A j \in DOMAIN rows : rows'[j] = rows[j]
       /\ DOMAIN rows' \ DOMAIN rows = ids
       /\ \A i \in ids : rows'[i].path = o(i) /\ rows'[i].text = files[o(i)].main
  BY <1>7, <1>10
<1>12. Ends(w)
  BY <1>1, EndEnds
<1> QED
  BY <1>1, <1>2, <1>8, <1>9, <1>11, <1>12 DEF ImportDoes
MetaDoes(w) ==
    /\ req[w].at = "meta" /\ UNCHANGED <<seed, taken, rows, active, lock>>
    /\ Writes(req[w].path, req[w].text, "meta") /\ Arrives(w, "commit")

UnlinkDoes(w) ==
    /\ req[w].at = "unlink" /\ UNCHANGED <<seed, taken, rows, active, lock>> /\ Arrives(w, "drop")
    /\ DOMAIN files' = DOMAIN files \ {req[w].path} /\ \A p \in DOMAIN files' : files'[p] = files[p]

UnseedDoes(w) ==
    /\ req[w].at = "unseed" /\ UNCHANGED <<files, rows, active, lock>>
    /\ seed' = NoSeed /\ taken' = "nothing" /\ Ends(w)

UnsetDoes(w) ==
    /\ req[w].at = "unset" /\ lock = {} /\ UNCHANGED <<files, seed, taken, rows, lock>> /\ active' = 0
    /\ IF os = "esxi" THEN Ends(w) ELSE Arrives(w, "unseed")

SetActiveDoes(w) ==
    /\ req[w].at = "setactive" /\ lock = {} /\ UNCHANGED <<files, seed, taken, rows, lock>>
    /\ active' = req[w].id /\ Ends(w)

UnpackDoes(w) ==
    /\ req[w].at = "unpack" /\ UNCHANGED <<files, rows, active, lock>>
    /\ UNCHANGED <<seed, taken>> \/ Wipe
    /\ Ends(w) \/ Arrives(w, IF os = "esxi" THEN "truncate" ELSE "restore")

RestoreDoes(w) ==
    /\ req[w].at = "restore" /\ UNCHANGED <<files, seed, taken, rows, active, lock>>
    /\ \A v \in Others(w) : req'[v] = req[v]
    /\ IF active = 0 THEN Ends(w)
       ELSE /\ req'[w].at = "publish" /\ req'[w].kind = req[w].kind
            /\ req'[w].id = active /\ req'[w].path = rows[active].path

(* The boot configuration is there: it is read.                            *)
BootReads(w) ==
    /\ req'[w].at = (IF Renames(w) THEN "truncate" ELSE "rewrite") /\ req'[w].body = seed.body
    /\ req'[w].path = (IF Renames(w) THEN req[w].path ELSE seed.ks)
    /\ req'[w].kind = req[w].kind /\ req'[w].id = req[w].id

BootReadDoes(w) ==
    /\ req[w].at = "bootread" /\ UNCHANGED <<files, seed, taken, rows, active, lock>>
    /\ \A v \in Others(w) : req'[v] = req[v]
    /\ IF taken = "cfg"
       THEN IF req[w].kind \in {"clear", "delete"} THEN Arrives(w, "unset") ELSE Ends(w)
       ELSE BootReads(w)

TruncateDoes(w) ==
    /\ req[w].at = "truncate" /\ UNCHANGED <<files, rows, active, lock>> /\ Arrives(w, "rewrite")
    /\ taken' = (IF taken = "cfg" \/ (req[w].kind = "extract" /\ seed.ks # NoPath) THEN "ks" ELSE taken)

RewriteDoes(w) ==
    /\ req[w].at = "rewrite" /\ UNCHANGED <<files, rows, active, lock>>
    /\ seed'.body = req[w].body
    /\ seed'.ks = (IF req[w].kind \in {"activate", "refresh"} THEN req[w].path ELSE NoPath)
    /\ IF Renames(w) THEN Arrives(w, IF req[w].kind = "activate" THEN "setactive" ELSE "unset")
       ELSE Ends(w) /\ taken' = (IF taken = "cfg" THEN "ks" ELSE taken)

(* The steps that do what they do whatever they find.                      *)
LEMMA PlainEffects ==
  ASSUME StoreInv, os # "proxmox", NEW w \in Webs
  PROVE  /\ WriteMeta(w) => MetaDoes(w)
         /\ Unlink(w) => UnlinkDoes(w)
         /\ Unseed(w) => UnseedDoes(w)
         /\ Unset(w) => UnsetDoes(w)
         /\ SetActive(w) /\ req[w].id \in DOMAIN rows => SetActiveDoes(w)
         /\ BootTruncate(w) => TruncateDoes(w)
         /\ Unpack(w) => UnpackDoes(w)
<1>1. ASSUME WriteMeta(w) PROVE MetaDoes(w)
  <2>1. /\ req[w].at = "meta" /\ UNCHANGED <<seed, taken, rows, active, lock>>
        /\ Put(req[w].path, "meta", req[w].text) /\ Go(w, "commit")
    BY <1>1 DEF WriteMeta, At, base
  <2> QED
    BY <2>1, PutWrites, GoArrives DEF MetaDoes, StoreInv
<1>2. ASSUME Unlink(w) PROVE UnlinkDoes(w)
  <2>1. /\ req[w].at = "unlink" /\ UNCHANGED <<seed, taken, rows, active, lock>> /\ Go(w, "drop")
        /\ files' = [p \in DOMAIN files \ {req[w].path} |-> files[p]]
    BY <1>2 DEF Unlink, At, base
  <2> QED
    BY <2>1, GoArrives DEF UnlinkDoes
<1>3. ASSUME Unseed(w) PROVE UnseedDoes(w)
  BY <1>3, EndEnds DEF Unseed, UnseedDoes, At, base
<1>4. ASSUME Unset(w) PROVE UnsetDoes(w)
  <2>1. /\ req[w].at = "unset" /\ lock = {} /\ UNCHANGED <<files, seed, taken, rows, lock>> /\ active' = 0
        /\ IF os = "esxi" THEN End(w) ELSE Go(w, "unseed")
    BY <1>4 DEF Unset, At, disk, Unlocked
  <2> QED
    BY <2>1, GoArrives, EndEnds DEF UnsetDoes
<1>5. ASSUME SetActive(w), req[w].id \in DOMAIN rows PROVE SetActiveDoes(w)
  <2>1. /\ req[w].at = "setactive" /\ lock = {} /\ UNCHANGED <<files, seed, taken, rows, lock>>
        /\ active' = req[w].id /\ End(w)
    BY <1>5 DEF SetActive, At, disk, Unlocked
  <2> QED
    BY <2>1, EndEnds DEF SetActiveDoes
<1>6. ASSUME BootTruncate(w) PROVE TruncateDoes(w)
  <2>1. Arrives(w, "rewrite")
    BY <1>6, GoArrives DEF BootTruncate
  <2> QED
    BY <1>6, <2>1 DEF BootTruncate, TruncateDoes, At, base
<1>7. ASSUME Unpack(w) PROVE UnpackDoes(w)
  <2>1. /\ req[w].at = "unpack" /\ UNCHANGED <<files, rows, active, lock>>
        /\ UNCHANGED <<seed, taken>> \/ Wipe
        /\ End(w) \/ Go(w, IF os = "esxi" THEN "truncate" ELSE "restore")
    BY <1>7 DEF Unpack, At, base
  <2> QED
    BY <2>1, GoArrives, EndEnds DEF UnpackDoes
<1> QED
  BY <1>1, <1>2, <1>3, <1>4, <1>5, <1>6, <1>7

LEMMA RestoreEffect ==
  ASSUME StoreInv, NEW w \in Webs, Restore(w)
  PROVE  RestoreDoes(w)
<1>1. req \in [Webs -> Requests] /\ req[w] \in Requests
  BY DEF StoreInv, ReqOK
<1>2. req[w].at = "restore" /\ UNCHANGED <<files, seed, taken, rows, active, lock>>
  BY DEF Restore, At, base, disk
<1>3. CASE active = 0
  <2>1. Ends(w)
    BY <1>3, EndEnds DEF Restore
  <2> QED
    BY <1>2, <1>3, <2>1 DEF RestoreDoes, Ends
<1>4. CASE active # 0
  <2> DEFINE p == rows[active].path
  <2>1. req' = [req EXCEPT ![w].at = "publish", ![w].id = active, ![w].path = p]
    BY <1>4 DEF Restore
  <2> HIDE DEF p
  <2>2. /\ \A v \in Others(w) : req'[v] = req[v]
        /\ req'[w].at = "publish" /\ req'[w].kind = req[w].kind
        /\ req'[w].id = active /\ req'[w].path = p
    BY <1>1, <2>1 DEF Others, Requests
  <2> QED
    BY <1>2, <1>4, <2>2 DEF RestoreDoes, p
<1> QED
  BY <1>3, <1>4

LEMMA BootEffects ==
  ASSUME StoreInv, NEW w \in Webs
  PROVE  (BootRead(w) => BootReadDoes(w)) /\ (BootRewrite(w) => RewriteDoes(w))
<1>0. req \in [Webs -> Requests] /\ req[w] \in Requests
  BY DEF StoreInv, ReqOK
<1>1. ASSUME BootRead(w) PROVE BootReadDoes(w)
  <2>1. req[w].at = "bootread" /\ UNCHANGED <<files, seed, taken, rows, active, lock>>
    BY <1>1 DEF BootRead, At, base, disk
  <2>2. CASE taken = "cfg"
    <3>1. IF req[w].kind \in {"clear", "delete"} THEN Go(w, "unset") ELSE End(w)
      BY <1>1, <2>2 DEF BootRead
    <3>2. IF req[w].kind \in {"clear", "delete"} THEN Arrives(w, "unset") ELSE Ends(w)
      BY <3>1, GoArrives, EndEnds
    <3> QED
      BY <2>1, <2>2, <3>2 DEF BootReadDoes, Arrives, Ends
  <2>3. CASE taken # "cfg"
    <3> DEFINE s == IF Renames(w) THEN "truncate" ELSE "rewrite"
    <3> DEFINE p == IF Renames(w) THEN req[w].path ELSE seed.ks
    <3> DEFINE b == seed.body
    <3>1. req' = [req EXCEPT ![w].at = s, ![w].path = p, ![w].body = b]
      BY <1>0, <1>1, <2>3 DEF BootRead
    <3> HIDE DEF s, p, b
    <3>2. /\ \A v \in Others(w) : req'[v] = req[v]
          /\ req'[w].at = s /\ req'[w].path = p /\ req'[w].body = b
          /\ req'[w].kind = req[w].kind /\ req'[w].id = req[w].id
      BY <1>0, <3>1 DEF Others, Requests
    <3>3. BootReads(w)
      BY <3>2 DEF BootReads, s, p, b
    <3> QED
      BY <2>1, <2>3, <3>2, <3>3 DEF BootReadDoes
  <2> QED
    BY <2>2, <2>3
<1>2. ASSUME BootRewrite(w) PROVE RewriteDoes(w)
  <2> DEFINE k == IF req[w].kind \in {"activate", "refresh"} THEN req[w].path ELSE NoPath
  <2> DEFINE s == IF req[w].kind = "activate" THEN "setactive" ELSE "unset"
  <2>1. /\ req[w].at = "rewrite" /\ UNCHANGED <<files, rows, active, lock>>
        /\ seed' = [seed EXCEPT !.body = req[w].body, !.ks = k]
        /\ IF Renames(w) THEN Go(w, s) ELSE End(w) /\ taken' = (IF taken = "cfg" THEN "ks" ELSE taken)
    BY <1>2 DEF BootRewrite, At, base
  <2> HIDE DEF k, s
  <2>2. seed'.body = req[w].body /\ seed'.ks = k
    BY <2>1 DEF StoreInv, SeedOK
  <2>3. IF Renames(w) THEN Arrives(w, s) ELSE Ends(w) /\ taken' = (IF taken = "cfg" THEN "ks" ELSE taken)
    BY <2>1, GoArrives, EndEnds
  <2>4. /\ seed'.body = req[w].body
        /\ seed'.ks = (IF req[w].kind \in {"activate", "refresh"} THEN req[w].path ELSE NoPath)
        /\ IF Renames(w) THEN Arrives(w, IF req[w].kind = "activate" THEN "setactive" ELSE "unset")
           ELSE Ends(w) /\ taken' = (IF taken = "cfg" THEN "ks" ELSE taken)
    BY <2>2, <2>3 DEF k, s
  <2> QED
    BY <2>1, <2>4 DEF RewriteDoes
<1> QED
  BY <1>1, <1>2

(* Publishing: the three steps, when the bundle is whole.                  *)
CopyFrame(w) == UNCHANGED <<files, rows, active, lock>>

PublishDoes(w)  ==
    req[w].at = "publish" /\ CopyFrame(w) /\ seed' = NoSeed /\ taken' = taken /\ Arrives(w, "pubmain")
CopyMainDoes(w) ==
    /\ req[w].at = "pubmain" /\ CopyFrame(w) /\ taken' = taken /\ Arrives(w, "pubmeta")
    /\ seed'.main = files[req[w].path].main /\ seed'.meta = seed.meta
CopyMetaDoes(w) ==
    /\ req[w].at = "pubmeta" /\ CopyFrame(w)
    /\ seed'.meta = files[req[w].path].meta /\ seed'.main = seed.main
    /\ taken' = (IF seed.main = 0 THEN taken ELSE "nothing")
    /\ IF req[w].kind = "activate" THEN Arrives(w, "setactive") ELSE Ends(w)

LEMMA CopyEffects ==
  ASSUME StoreInv, NEW w \in Webs, Whole(req[w].path)
  PROVE  /\ Publish(w) => PublishDoes(w)
         /\ CopyMain(w) => CopyMainDoes(w)
         /\ CopyMeta(w) => CopyMetaDoes(w)
<1>0. req[w].path \in DOMAIN files
  BY DEF Whole
<1>1. ASSUME Publish(w) PROVE PublishDoes(w)
  BY <1>1, GoArrives DEF Publish, PublishDoes, CopyFrame, At, base
<1>2. ASSUME CopyMain(w) PROVE CopyMainDoes(w)
  <2>1. /\ req[w].at = "pubmain" /\ CopyFrame(w) /\ taken' = taken /\ Go(w, "pubmeta")
        /\ seed' = [seed EXCEPT !.main = files[req[w].path].main]
    BY <1>0, <1>2 DEF CopyMain, CopyFrame, At, base
  <2>2. seed'.main = files[req[w].path].main /\ seed'.meta = seed.meta
    BY <2>1 DEF StoreInv, SeedOK
  <2> QED
    BY <2>1, <2>2, GoArrives DEF CopyMainDoes
<1>3. ASSUME CopyMeta(w) PROVE CopyMetaDoes(w)
  <2>1. /\ req[w].at = "pubmeta" /\ CopyFrame(w)
        /\ seed' = [seed EXCEPT !.meta = files[req[w].path].meta]
        /\ taken' = (IF seed.main = 0 THEN taken ELSE "nothing")
        /\ IF req[w].kind = "activate" THEN Go(w, "setactive") ELSE End(w)
    BY <1>0, <1>3 DEF CopyMeta, CopyFrame, At, base
  <2>2. seed'.meta = files[req[w].path].meta /\ seed'.main = seed.main
    BY <2>1 DEF StoreInv, SeedOK
  <2> QED
    BY <2>1, <2>2, GoArrives, EndEnds DEF CopyMetaDoes
<1> QED
  BY <1>1, <1>2, <1>3

(* Whole or not, a copy goes on or ends, and touches no row.               *)
LEMMA CopiesMove ==
  ASSUME StoreInv, NEW w \in Webs
  PROVE  /\ Publish(w) => req[w].at = "publish" /\ CopyFrame(w) /\ (Ends(w) \/ Arrives(w, "pubmain"))
         /\ CopyMain(w) => req[w].at = "pubmain" /\ CopyFrame(w) /\ (Ends(w) \/ Arrives(w, "pubmeta"))
         /\ CopyMeta(w) => /\ req[w].at = "pubmeta" /\ CopyFrame(w)
                           /\ Ends(w) \/ (req[w].kind = "activate" /\ Arrives(w, "setactive"))
<1>1. Publish(w) => req[w].at = "publish" /\ CopyFrame(w) /\ (End(w) \/ Go(w, "pubmain"))
  BY DEF Publish, CopyFrame, At, base
<1>2. CopyMain(w) => req[w].at = "pubmain" /\ CopyFrame(w) /\ (End(w) \/ Go(w, "pubmeta"))
  BY DEF CopyMain, CopyFrame, At, base
<1>3. CopyMeta(w) => /\ req[w].at = "pubmeta" /\ CopyFrame(w)
                     /\ End(w) \/ (req[w].kind = "activate" /\ Go(w, "setactive"))
  BY DEF CopyMeta, CopyFrame, At, base
<1> QED
  BY <1>1, <1>2, <1>3, GoArrives, EndEnds

----------------------------------------------------------------------------
(* What a request still finds true.                                        *)

Requesting == Overlaps /\ \A w \in Webs : RequestHas(w)

(* The places of each family.                                              *)
LEMMA Families ==
  ASSUME os \in Systems, os # "proxmox"
  PROVE  /\ CommonSteps \subseteq FamilySteps
         /\ {"mirror", "answer", "upload", "send", "record"} \cap FamilySteps = {}
         /\ os = "ubuntu" =>
               {"meta", "setactive", "unset", "unseed", "unpack", "restore"} \cup CopySteps \subseteq FamilySteps
         /\ os = "esxi" => {"setactive", "unset", "unpack"} \cup BootSteps \subseteq FamilySteps
         /\ \A s \in FamilySteps :
               /\ s \in {"meta", "unseed", "restore"} \cup CopySteps => os = "ubuntu"
               /\ s \in BootSteps => os = "esxi"
               /\ s \in {"setactive", "unset", "unpack"} => os \in {"ubuntu", "esxi"}
<1>1. CASE os = "ubuntu"
  BY <1>1 DEF FamilySteps, CommonSteps, CopySteps, BootSteps
<1>2. CASE os = "esxi"
  BY <1>2 DEF FamilySteps, CommonSteps, CopySteps, BootSteps
<1>3. CASE os = "custom"
  BY <1>3 DEF FamilySteps, CommonSteps, CopySteps, BootSteps
<1> QED
  BY <1>1, <1>2, <1>3 DEF Systems

(* Only edits, creates, scans and extractions overlap, and under ESXi      *)
(* nothing does.                                                           *)
LEMMA AloneThen ==
  ASSUME Overlaps, os \in Systems, os # "proxmox", NEW w \in Webs, req[w].at # "idle",
         \/ req[w].kind \notin {"create", "edit", "scan", "extract"}
         \/ os = "esxi"
         \/ os = "custom" /\ req[w].kind # "create"
  PROVE  Alone(w)
  BY DEF Overlaps, Alone, Others, At, Benign

(* What the step of a request that is not alone leaves to the others.      *)
Mild(w) ==
    /\ active' = active /\ DOMAIN rows \subseteq DOMAIN rows'
    /\ \A i \in DOMAIN rows : rows'[i].path = rows[i].path
    /\ req[w].kind \in {"edit", "extract"} => DOMAIN rows' = DOMAIN rows
    /\ \A v \in Others(w) : lock = {v} => lock' = lock /\ DOMAIN rows' = DOMAIN rows

LEMMA OthersKeep ==
  ASSUME StoreInv, os # "proxmox", os' = os, NEW w \in Webs, NEW v \in Others(w), req'[v] = req[v],
         RequestHas(v), Mild(w), ~At(v, "idle"), Benign(req[v].kind, req[w].kind)
  PROVE  RequestHas(v)'
<1>1. /\ req[v].kind \in {"create", "edit", "scan", "extract"}
      /\ req[v].kind = "scan" => req[w].kind \in {"edit", "extract"}
  BY DEF Benign
<1>2. FamilySteps' = FamilySteps
  BY DEF FamilySteps
<1>3. req[v].at \in {"unlink", "drop"} => req[v].kind = "delete"
  BY DEF StoreInv, ReqOK, PlaceOK, Others
<1>4. req[v].kind = "scan" => RowPaths' = RowPaths
  BY <1>1 DEF Mild, RowPaths
<1>5. Names(v) => Names(v)'
  BY DEF Names, Mild
<1>6. EditHas(v) => EditHas(v)'
  BY <1>5 DEF EditHas, Mild
<1>7. CreateHas(v) => CreateHas(v)'
  BY DEF CreateHas, Mild
<1> QED
  BY <1>1, <1>2, <1>3, <1>4, <1>5, <1>6, <1>7 DEF RequestHas, At, Mild, BootSteps, CopySteps, PushSteps
(* A step that does not begin a request.                                   *)
Carries(w) ==
    /\ \A v \in Others(w) : req'[v] = req[v]
    /\ req'[w].at = "idle" \/ req'[w].kind = req[w].kind

(* The request of a step finds what it needs, and so does the next one.    *)
Sound(w) == Carries(w) /\ RequestHas(w)' /\ (Alone(w) \/ Mild(w))

LEMMA EndsSound ==
  ASSUME os \in Systems, os # "proxmox", os' = os, NEW w \in Webs, Ends(w), Alone(w) \/ Mild(w)
  PROVE  Sound(w)
<1>1. "idle" \in FamilySteps'
  BY Families DEF CommonSteps, FamilySteps
<1> QED
  BY <1>1 DEF Sound, Ends, Carries, RequestHas, At, PushSteps, CopySteps, BootSteps

(* A step that touches neither rows nor lock is mild.                      *)
LEMMA StillMild ==
  ASSUME UNCHANGED <<rows, active, lock>>, NEW w \in Webs
  PROVE  Mild(w)
  BY DEF Mild

LEMMA PushSound ==
  ASSUME ConfigAssumption, StoreInv, os # "proxmox", Overlaps, NEW w \in Webs, RequestHas(w), os' = os,
         Flush(w) \/ WriteMain(w) \/ WriteMeta(w) \/ CommitPush(w)
  PROVE  Sound(w)
<1>0. os \in Systems /\ FamilySteps' = FamilySteps
  BY DEF StoreInv, CountsOK, FamilySteps
<1>1. CASE Flush(w)
  <2>1. FlushDoes(w)
    BY <1>1, FlushEffect
  <2>2. req[w].kind = "create"
    BY <2>1 DEF FlushDoes, StoreInv, ReqOK, PlaceOK
  <2>3. Mild(w)
    BY <2>1 DEF Mild, FlushDoes
  <2>4. CreateHas(w)'
    BY <2>1 DEF FlushDoes, CreateHas
  <2>5. "write" \in FamilySteps'
    BY <1>0, Families DEF CommonSteps
  <2> QED
    BY <2>1, <2>2, <2>3, <2>4, <2>5
       DEF Sound, Carries, FlushDoes, RequestHas, At, PushSteps, CopySteps, BootSteps
<1>2. CASE WriteMain(w)
  <2> DEFINE p == PathFor(req[w].path, req[w].id)
  <2>1. WriteDoes(w, p)
    BY <1>2, WriteEffect
  <2> HIDE DEF p
  <2>2. Mild(w)
    BY <2>1, StillMild DEF WriteDoes
  <2>3. req'[w].at \in FamilySteps' /\ req'[w].at \in {"meta", "commit"}
    BY <1>0, <2>1, Families DEF CommonSteps, WriteDoes
  <2>4. req[w].kind = "edit" => EditHas(w)'
    BY <1>0, <2>1 DEF RequestHas, PushSteps, WriteDoes, EditHas, Names
  <2>5. req[w].kind = "create" => CreateHas(w)'
    BY <2>1 DEF RequestHas, PushSteps, WriteDoes, CreateHas
  <2> QED
    BY <2>1, <2>2, <2>3, <2>4, <2>5
       DEF Sound, Carries, WriteDoes, RequestHas, At, PushSteps, CopySteps, BootSteps
<1>3. CASE WriteMeta(w)
  <2>1. MetaDoes(w)
    BY <1>3, PlainEffects
  <2>2. Mild(w)
    BY <2>1, StillMild DEF MetaDoes
  <2>3. "commit" \in FamilySteps'
    BY <1>0, Families DEF CommonSteps
  <2>4. req[w].kind = "edit" => EditHas(w)'
    BY <1>0, <2>1 DEF RequestHas, PushSteps, MetaDoes, Arrives, EditHas, Names
  <2>5. req[w].kind = "create" => CreateHas(w)'
    BY <2>1 DEF RequestHas, PushSteps, MetaDoes, Arrives, CreateHas
  <2> QED
    BY <2>1, <2>2, <2>3, <2>4, <2>5
       DEF Sound, Carries, MetaDoes, Arrives, RequestHas, At, PushSteps, CopySteps, BootSteps
<1>4. CASE CommitPush(w)
  <2> DEFINE i == req[w].id
  <2>0. req[w].at = "commit" /\ i \in Ids /\ req[w].kind \in {"create", "edit"}
    <3>1. req[w].at = "commit"
      BY <1>4 DEF CommitPush, At
    <3> QED
      BY <3>1, PushCarries DEF PushSteps
  <2>1. /\ req[w].kind = "edit" => EditHas(w)
        /\ req[w].kind = "create" => CreateHas(w)
    BY <2>0 DEF RequestHas, PushSteps
  <2>2. CommitDoes(w)
    BY <1>4, <2>0, <2>1, CommitEffect DEF EditHas
  <2>3. Alone(w) \/ Mild(w)
    <3>1. CASE req[w].kind = "edit" /\ os # "ubuntu"
      BY <1>0, <2>0, <3>1, AloneThen DEF Systems
    <3>2. CASE req[w].kind = "edit" => os = "ubuntu"
      <4>1. \A j \in DOMAIN rows : rows'[j].path = rows[j].path
        BY <2>0, <2>1, <2>2, <3>2 DEF CommitDoes, EditHas, CreateHas, Names
      <4>2. \A v \in Others(w) : lock # {v}
        BY <2>2 DEF CommitDoes, Others
      <4>3. req[w].kind = "edit" => DOMAIN rows' = DOMAIN rows
        BY <2>1, <2>2 DEF CommitDoes, EditHas
      <4> QED
        BY <2>0, <2>2, <4>1, <4>2, <4>3 DEF Mild, CommitDoes
    <3> QED
      BY <3>1, <3>2
  <2>4. CASE os = "ubuntu" /\ active = i
    <3>1. req[w].kind = "edit"
      <4>1. active # 0 /\ active \in {0} \cup DOMAIN rows
        BY <2>0, <2>4 DEF Ids, StoreInv, RowsOK
      <4> QED
        BY <2>0, <2>1, <2>4, <4>1 DEF CreateHas
    <3>2. Arrives(w, "publish")
      BY <2>2, <2>4 DEF CommitDoes
    <3>3. Names(w)' /\ req'[w].kind = "edit" /\ req'[w].id = active'
      BY <2>2, <2>4, <3>1, <3>2 DEF CommitDoes, Names, Arrives
    <3>4. "publish" \in FamilySteps'
      BY <1>0, <2>4, Families DEF CopySteps
    <3> QED
      BY <2>3, <3>2, <3>3, <3>4 DEF Sound, Carries, Arrives, RequestHas, At, PushSteps, CopySteps, BootSteps
  <2>5. CASE ~(os = "ubuntu" /\ active = i)
    <3>1. Ends(w)
      BY <2>2, <2>5 DEF CommitDoes
    <3> QED
      BY <1>0, <2>3, <3>1, EndsSound
  <2> QED
    BY <2>4, <2>5
<1> QED
  BY <1>1, <1>2, <1>3, <1>4

LEMMA CopySound ==
  ASSUME StoreInv, os # "proxmox", NEW w \in Webs, RequestHas(w), os' = os,
         Publish(w) \/ CopyMain(w) \/ CopyMeta(w)
  PROVE  Sound(w)
<1>0. os \in Systems /\ FamilySteps' = FamilySteps
  BY DEF StoreInv, CountsOK, FamilySteps
<1>1. /\ req[w].at \in CopySteps /\ CopyFrame(w)
      /\ \/ Ends(w)
         \/ Arrives(w, "pubmain") \/ Arrives(w, "pubmeta")
         \/ req[w].kind = "activate" /\ Arrives(w, "setactive")
  BY CopiesMove DEF CopySteps
<1>2. Mild(w)
  BY <1>1, StillMild DEF CopyFrame
<1>3. /\ req[w].at \in FamilySteps /\ Names(w)
      /\ req[w].kind = "activate" \/ (req[w].kind \in {"edit", "extract"} /\ req[w].id = active)
  BY <1>1 DEF RequestHas
<1>4. {"pubmain", "pubmeta", "setactive"} \subseteq FamilySteps'
  BY <1>0, <1>1, <1>3, Families DEF CopySteps
<1>5. CASE Ends(w)
  BY <1>0, <1>2, <1>5, EndsSound
<1>6. ASSUME NEW s \in {"pubmain", "pubmeta"}, Arrives(w, s) PROVE Sound(w)
  <2>1. Names(w)' /\ (req'[w].kind = "activate" \/ (req'[w].kind \in {"edit", "extract"} /\ req'[w].id = active'))
    BY <1>1, <1>3, <1>6 DEF CopyFrame, Arrives, Names
  <2> QED
    BY <1>2, <1>4, <1>6, <2>1 DEF Sound, Carries, Arrives, RequestHas, At, PushSteps, CopySteps, BootSteps
<1>7. CASE req[w].kind = "activate" /\ Arrives(w, "setactive")
  <2>1. Names(w)' /\ req'[w].kind = "activate"
    BY <1>1, <1>3, <1>7 DEF CopyFrame, Arrives, Names
  <2> QED
    BY <1>2, <1>4, <1>7, <2>1 DEF Sound, Carries, Arrives, RequestHas, At, PushSteps, CopySteps, BootSteps
<1> QED
  BY <1>1, <1>5, <1>6, <1>7

LEMMA DeleteSound ==
  ASSUME StoreInv, os # "proxmox", Overlaps, NEW w \in Webs, RequestHas(w), os' = os,
         Unlink(w) \/ Drop(w) \/ Unseed(w) \/ Unset(w) \/ SetActive(w)
  PROVE  Sound(w)
<1>0. os \in Systems /\ FamilySteps' = FamilySteps
  BY DEF StoreInv, CountsOK, FamilySteps
<1>1. /\ Unlink(w) => req[w].at = "unlink"
      /\ Drop(w) => req[w].at = "drop"
      /\ Unseed(w) => req[w].at = "unseed"
      /\ Unset(w) => req[w].at = "unset"
      /\ SetActive(w) => req[w].at = "setactive"
  BY DEF Unlink, Drop, Unseed, Unset, SetActive, At
<1>2. req[w].kind \in {"delete", "clear", "activate"}
  BY <1>1 DEF RequestHas, At, StoreInv, ReqOK, PlaceOK
<1>3. Alone(w)
  BY <1>0, <1>1, <1>2, AloneThen
<1>4. CASE Unlink(w)
  <2>1. UnlinkDoes(w) /\ req[w].kind = "delete"
    BY <1>1, <1>4, PlainEffects DEF StoreInv, ReqOK, PlaceOK
  <2>2. DeleteHas(w)'
    BY <2>1 DEF UnlinkDoes, Arrives, RequestHas, DeleteHas, Names
  <2>3. "drop" \in FamilySteps'
    BY <1>0, Families DEF CommonSteps
  <2> QED
    BY <1>3, <2>1, <2>2, <2>3
       DEF Sound, Carries, UnlinkDoes, Arrives, RequestHas, At, PushSteps, CopySteps, BootSteps
<1>5. CASE Drop(w)
  <2>1. DropDoes(w) /\ req[w].kind = "delete"
    BY <1>1, <1>5, DropEffect DEF RequestHas, DeleteHas, StoreInv, ReqOK, PlaceOK
  <2>2. CASE Ends(w)
    BY <1>0, <1>3, <2>2, EndsSound
  <2>3. CASE os = "esxi" /\ Arrives(w, "bootread")
    <3>1. "bootread" \in FamilySteps'
      BY <1>0, <2>3, Families DEF BootSteps
    <3> QED
      BY <1>3, <2>1, <2>3, <3>1 DEF Sound, Carries, Arrives, RequestHas, At, PushSteps, CopySteps, BootSteps
  <2>4. CASE os = "ubuntu" /\ Arrives(w, "unseed")
    <3>1. "unseed" \in FamilySteps'
      BY <1>0, <2>4, Families
    <3>2. active' = 0
      BY <2>1, <2>4 DEF DropDoes, Ends, Arrives
    <3> QED
      BY <1>3, <2>1, <2>4, <3>1, <3>2 DEF Sound, Carries, Arrives, RequestHas, At, PushSteps, CopySteps, BootSteps
  <2> QED
    BY <1>0, <2>1, <2>2, <2>3, <2>4 DEF DropDoes, Systems
<1>6. CASE Unseed(w)
  BY <1>0, <1>3, <1>6, PlainEffects, EndsSound DEF UnseedDoes
<1>7. CASE Unset(w)
  <2>1. UnsetDoes(w)
    BY <1>7, PlainEffects
  <2>2. CASE Ends(w)
    BY <1>0, <1>3, <2>2, EndsSound
  <2>3. CASE os # "esxi" /\ Arrives(w, "unseed")
    <3>1. os = "ubuntu"
      BY <1>0, <1>1, <1>7, <2>3, Families DEF RequestHas
    <3>2. "unseed" \in FamilySteps'
      BY <1>0, <3>1, Families
    <3>3. req[w].kind \in {"delete", "clear"} /\ active' = 0
      BY <1>1, <1>7, <2>1 DEF RequestHas, UnsetDoes
    <3> QED
      BY <1>3, <2>3, <3>2, <3>3 DEF Sound, Carries, Arrives, RequestHas, At, PushSteps, CopySteps, BootSteps
  <2> QED
    BY <2>1, <2>2, <2>3 DEF UnsetDoes
<1>8. CASE SetActive(w)
  <2>1. req[w].id \in DOMAIN rows
    BY <1>1, <1>8 DEF RequestHas, At, Names
  <2>2. Ends(w)
    BY <1>8, <2>1, PlainEffects DEF SetActiveDoes
  <2> QED
    BY <1>0, <1>3, <2>2, EndsSound
<1> QED
  BY <1>4, <1>5, <1>6, <1>7, <1>8

LEMMA BootSound ==
  ASSUME StoreInv, os # "proxmox", NEW w \in Webs, RequestHas(w), os' = os,
         BootRead(w) \/ BootTruncate(w) \/ BootRewrite(w)
  PROVE  Sound(w)
<1>0. os \in Systems /\ FamilySteps' = FamilySteps
  BY DEF StoreInv, CountsOK, FamilySteps
<1>1. (BootRead(w) => BootReadDoes(w)) /\ (BootTruncate(w) => TruncateDoes(w)) /\ (BootRewrite(w) => RewriteDoes(w))
  BY BootEffects, PlainEffects
<1>2. req[w].at \in BootSteps /\ UNCHANGED <<rows, active, lock>>
  BY <1>1 DEF BootReadDoes, TruncateDoes, RewriteDoes, BootSteps
<1>3. Mild(w)
  BY <1>2, StillMild
<1>4. /\ req[w].at \in FamilySteps
      /\ req[w].kind \in {"delete", "clear", "refresh", "extract"} \/ (req[w].kind = "activate" /\ Names(w))
  BY <1>2 DEF RequestHas
<1>5. BootSteps \cup {"setactive", "unset"} \subseteq FamilySteps'
  BY <1>0, <1>2, <1>4, Families
<1>6. ASSUME \A v \in Others(w) : req'[v] = req[v], req'[w].at \in {"truncate", "rewrite"}, req'[w].kind = req[w].kind,
             req'[w].id = req[w].id, req'[w].path = req[w].path \/ req[w].kind # "activate",
             req'[w].at = "truncate" => req[w].kind # "refresh"
      PROVE  Sound(w)
  <2>1. req[w].kind = "activate" => Names(w)'
    BY <1>2, <1>4, <1>6 DEF Names
  <2> QED
    BY <1>3, <1>4, <1>5, <1>6, <2>1 DEF Sound, Carries, RequestHas, At, PushSteps, CopySteps, BootSteps
<1>7. ASSUME Arrives(w, "unset"), req[w].kind \in {"delete", "clear"}
      PROVE  Sound(w)
  BY <1>3, <1>5, <1>7 DEF Sound, Carries, Arrives, RequestHas, At, PushSteps, CopySteps, BootSteps
<1>8. CASE BootRead(w)
  <2>1. BootReadDoes(w)
    BY <1>1, <1>8
  <2>2. CASE taken = "cfg" /\ req[w].kind \in {"clear", "delete"}
    BY <1>7, <2>1, <2>2 DEF BootReadDoes
  <2>3. CASE taken = "cfg" /\ req[w].kind \notin {"clear", "delete"}
    <3>1. Ends(w)
      BY <2>1, <2>3 DEF BootReadDoes
    <3> QED
      BY <1>0, <1>3, <3>1, EndsSound
  <2>4. CASE taken # "cfg"
    BY <1>6, <2>1, <2>4 DEF BootReadDoes, BootReads, Renames
  <2> QED
    BY <2>2, <2>3, <2>4
<1>9. CASE BootTruncate(w)
  <2>1. TruncateDoes(w) /\ req[w].kind # "refresh"
    BY <1>1, <1>9 DEF TruncateDoes, RequestHas, At
  <2> QED
    BY <1>6, <2>1 DEF TruncateDoes, Arrives
<1>10. CASE BootRewrite(w)
  <2>1. RewriteDoes(w)
    BY <1>1, <1>10
  <2>2. CASE req[w].kind = "activate"
    <3>1. Arrives(w, "setactive")
      BY <2>1, <2>2 DEF RewriteDoes, Renames
    <3>2. Names(w)'
      BY <1>2, <1>4, <2>2, <3>1 DEF Names, Arrives
    <3> QED
      BY <1>3, <1>5, <2>2, <3>1, <3>2 DEF Sound, Carries, Arrives, RequestHas, At, PushSteps, CopySteps, BootSteps
  <2>3. CASE req[w].kind \in {"delete", "clear"}
    BY <1>7, <2>1, <2>3 DEF RewriteDoes, Renames
  <2>4. CASE req[w].kind \in {"refresh", "extract"}
    <3>1. Ends(w)
      BY <2>1, <2>4 DEF RewriteDoes, Renames
    <3> QED
      BY <1>0, <1>3, <3>1, EndsSound
  <2> QED
    BY <1>4, <2>2, <2>3, <2>4
<1> QED
  BY <1>8, <1>9, <1>10

(* An extraction touches no row, and publishes the active one.             *)
LEMMA ExtractSound ==
  ASSUME StoreInv, os # "proxmox", NEW w \in Webs, RequestHas(w), os' = os, Unpack(w) \/ Restore(w)
  PROVE  Sound(w)
<1>0. os \in Systems /\ FamilySteps' = FamilySteps /\ req[w].at \in FamilySteps
  BY DEF StoreInv, CountsOK, FamilySteps, RequestHas
<1>1. CASE Unpack(w)
  <2>1. UnpackDoes(w) /\ req[w].kind = "extract"
    BY <1>1, PlainEffects DEF UnpackDoes, RequestHas
  <2>2. Mild(w)
    BY <2>1, StillMild DEF UnpackDoes
  <2>3. CASE Ends(w)
    BY <1>0, <2>2, <2>3, EndsSound
  <2>4. CASE os = "esxi" /\ Arrives(w, "truncate")
    <3>1. "truncate" \in FamilySteps'
      BY <1>0, <2>4, Families DEF BootSteps
    <3> QED
      BY <2>1, <2>2, <2>4, <3>1 DEF Sound, Carries, Arrives, RequestHas, At, PushSteps, CopySteps, BootSteps
  <2>5. CASE os # "esxi" /\ Arrives(w, "restore")
    <3>1. os = "ubuntu"
      BY <1>0, <2>1, <2>5, Families DEF UnpackDoes
    <3>2. "restore" \in FamilySteps'
      BY <1>0, <3>1, Families
    <3> QED
      BY <2>1, <2>2, <2>5, <3>2 DEF Sound, Carries, Arrives, RequestHas, At, PushSteps, CopySteps, BootSteps
  <2> QED
    BY <2>1, <2>3, <2>4, <2>5 DEF UnpackDoes
<1>2. CASE Restore(w)
  <2>1. RestoreDoes(w) /\ req[w].kind = "extract"
    BY <1>2, RestoreEffect DEF RestoreDoes, RequestHas
  <2>2. Mild(w)
    BY <2>1, StillMild DEF RestoreDoes
  <2>3. CASE active = 0
    <3>1. Ends(w)
      BY <2>1, <2>3 DEF RestoreDoes
    <3> QED
      BY <1>0, <2>2, <3>1, EndsSound
  <2>4. CASE active # 0
    <3>1. "publish" \in FamilySteps'
      BY <1>0, <2>1, Families DEF RestoreDoes, CopySteps
    <3>2. active \in DOMAIN rows
      BY <2>4 DEF StoreInv, RowsOK
    <3>3. /\ req'[w].at = "publish" /\ req'[w].kind = "extract" /\ req'[w].id = active' /\ Names(w)'
          /\ \A v \in Others(w) : req'[v] = req[v]
      BY <2>1, <2>4, <3>2 DEF RestoreDoes, Names
    <3> QED
      BY <2>1, <2>2, <3>1, <3>3 DEF Sound, Carries, RequestHas, At, PushSteps, CopySteps, BootSteps
  <2> QED
    BY <2>3, <2>4
<1> QED
  BY <1>1, <1>2

LEMMA ImportSound ==
  ASSUME ConfigAssumption, StoreInv, os # "proxmox", NEW w \in Webs, RequestHas(w), os' = os, Import(w)
  PROVE  Sound(w)
<1>1. ImportDoes(w)
  BY ImportEffect
<1>2. req[w].kind = "scan"
  BY <1>1 DEF ImportDoes, RequestHas, At
<1>3. Mild(w)
  BY <1>1, <1>2 DEF ImportDoes, Mild
<1>4. os \in Systems
  BY DEF StoreInv, CountsOK
<1> QED
  BY <1>1, <1>3, <1>4, EndsSound DEF ImportDoes

(* Every step of a request that has begun.                                 *)
LEMMA StepSound ==
  ASSUME ConfigAssumption, StoreInv, os # "proxmox", Requesting, NEW w \in Webs, WebStep(w), ~Begins(w)
  PROVE  Sound(w)
<1>1. os' = os
  BY WebStepMoves DEF WebMoves
<1>2. RequestHas(w) /\ Overlaps
  BY DEF Requesting
<1>3. ~Mirror(w) /\ ~Answer(w)
  <2>1. req[w].at \in FamilySteps /\ os \in Systems
    BY <1>2 DEF RequestHas, StoreInv, CountsOK
  <2> QED
    BY <2>1, Families DEF Mirror, Answer, At
<1> QED
  BY <1>1, <1>2, <1>3, PushSound, CopySound, DeleteSound, BootSound, ExtractSound,
     ImportSound DEF WebStep

(* A step that begins a request.                                           *)
LEMMA BeginSound ==
  ASSUME StoreInv, os # "proxmox", Requesting, ~crossed', NEW w \in Webs, NEW r, Started(w, r), NewRequest(r)
  PROVE  Requesting'
<1>0. os \in Systems /\ FamilySteps' = FamilySteps /\ UNCHANGED <<os, rows, active, lock>>
  BY DEF StoreInv, CountsOK, FamilySteps, Started
<1>1. \A v \in Others(w) : RequestHas(v)'
  <2> SUFFICES ASSUME NEW v \in Others(w) PROVE RequestHas(v)'
    OBVIOUS
  <2>1. v \in Webs /\ req'[v] = req[v] /\ RequestHas(v)
    BY DEF Others, Started, Requesting
  <2>2. RowPaths' = RowPaths
    BY <1>0 DEF RowPaths
  <2> QED
    BY <1>0, <2>1, <2>2 DEF RequestHas, At, EditHas, CreateHas, DeleteHas, Names
<1>2. RequestHas(w)'
  <2>1. req'[w] = r
    BY DEF Started
  <2>2. r.at \in FamilySteps
    BY <1>0, Families DEF NewRequest, CommonSteps, CopySteps, BootSteps
  <2>3. RowPaths' = RowPaths
    BY <1>0 DEF RowPaths
  <2>4. (r.id \in DOMAIN rows /\ r.path = rows[r.id].path) <=> Names(w)'
    BY <1>0, <2>1 DEF Names
  <2>5. r.at = "write" => EditHas(w)' /\ r.kind = "edit"
    BY <1>0, <2>1, <2>4 DEF NewRequest, EditHas
  <2>6. r.at = "unlink" => DeleteHas(w)'
    BY <1>0, <2>1, <2>4 DEF NewRequest, DeleteHas
  <2> QED
    BY <1>0, <2>1, <2>2, <2>3, <2>4, <2>5, <2>6
       DEF NewRequest, RequestHas, At, PushSteps, CopySteps, BootSteps
<1>3. Overlaps'
  <2>1. \A v \in Others(w) : At(v, "idle") \/ Benign(req[v].kind, r.kind)
    BY DEF Started
  <2>2. \A j, k : Benign(j, k)' <=> Benign(j, k)
    BY <1>0 DEF Benign
  <2>3. \A j, k : Benign(j, k) <=> Benign(k, j)
    BY DEF Benign
  <2>4. /\ req'[w] = r /\ \A v \in Others(w) : req'[v] = req[v]
    BY DEF Started
  <2>5. ASSUME NEW v \in Webs, NEW u \in Webs, v # u
        PROVE  req'[v].at = "idle" \/ req'[u].at = "idle" \/ Benign(req'[v].kind, req'[u].kind)
    <3>1. CASE v = w
      BY <2>1, <2>3, <2>4, <2>5, <3>1 DEF Others, At
    <3>2. CASE u = w
      BY <2>1, <2>4, <2>5, <3>2 DEF Others, At
    <3>3. CASE v # w /\ u # w
      BY <2>4, <2>5, <3>3 DEF Others, At, Requesting, Overlaps
    <3> QED
      BY <3>1, <3>2, <3>3
  <2> QED
    BY <2>5, <1>0 DEF Overlaps, At, Benign
<1> QED
  BY <1>1, <1>2, <1>3 DEF Requesting, Others

LEMMA SoundKeeps ==
  ASSUME StoreInv, os # "proxmox", os' = os, Requesting, NEW w \in Webs, req[w].at # "idle", Sound(w)
  PROVE  Requesting'
<1>0. /\ \A v \in Others(w) : req'[v] = req[v]
      /\ req'[w].at = "idle" \/ req'[w].kind = req[w].kind
  BY DEF Sound, Carries
<1>1. \A v \in Others(w) : RequestHas(v)'
  <2> SUFFICES ASSUME NEW v \in Others(w) PROVE RequestHas(v)'
    OBVIOUS
  <2>1. v \in Webs /\ RequestHas(v) /\ os \in Systems
    BY DEF Others, Requesting, StoreInv, CountsOK
  <2>2. CASE At(v, "idle")
    <3>1. "idle" \in FamilySteps'
      BY <2>1, Families DEF CommonSteps, FamilySteps
    <3> QED
      BY <1>0, <2>2, <3>1 DEF RequestHas, At, PushSteps, CopySteps, BootSteps
  <2>3. CASE ~At(v, "idle")
    <3>1. Benign(req[v].kind, req[w].kind)
      BY <2>1, <2>3 DEF Requesting, Overlaps, Others, At
    <3>2. Mild(w)
      BY <2>3 DEF Sound, Alone
    <3> QED
      BY <1>0, <2>1, <2>3, <3>1, <3>2, OthersKeep
  <2> QED
    BY <2>2, <2>3
<1>2. Overlaps'
  <2>1. ASSUME NEW v \in Webs, NEW u \in Webs, v # u
        PROVE  req'[v].at = "idle" \/ req'[u].at = "idle" \/ Benign(req'[v].kind, req'[u].kind)
    BY <1>0, <2>1 DEF Requesting, Overlaps, Others, At
  <2> QED
    BY <2>1 DEF Overlaps, At, Benign
<1> QED
  BY <1>1, <1>2 DEF Requesting, Sound, Others

(* Requests that disturb nobody find what they began with.                 *)
LEMMA RequestingKept ==
  ASSUME ConfigAssumption, StoreInv, os # "proxmox", Requesting, ~crossed', NEW w \in Webs, WebStep(w)
  PROVE  Requesting'
<1>1. CASE Begins(w)
  BY <1>1, BeginsWith, BeginSound
<1>2. CASE ~Begins(w)
  <2>1. Sound(w) /\ os' = os
    BY <1>2, StepSound, WebStepMoves DEF WebMoves
  <2>2. req[w].at # "idle"
    BY <1>2 DEF WebStep, At, Flush, WriteMain, WriteMeta, Mirror, CommitPush, Publish, CopyMain, CopyMeta,
                SetActive, Answer, Unlink, Drop, Unseed, Unset, Unpack, Restore, BootRead, BootTruncate, BootRewrite, Import
  <2> QED
    BY <2>1, <2>2, SoundKeeps
<1> QED
  BY <1>1, <1>2
(* A step that has begun finds its request somewhere in its family.        *)
LEMMA NotIdle ==
  ASSUME NEW w \in Webs, WebStep(w), ~Begins(w)
  PROVE  req[w].at # "idle"
  BY DEF WebStep, At, Flush, WriteMain, WriteMeta, Mirror, CommitPush, Publish, CopyMain, CopyMeta,
         SetActive, Answer, Unlink, Drop, Unseed, Unset, Unpack, Restore, BootRead, BootTruncate, BootRewrite, Import

LEMMA ShutSteps ==
  ASSUME StoreInv, os # "proxmox", NEW w \in Webs, RequestHas(w)
  PROVE  /\ ~Mirror(w) /\ ~Answer(w)
         /\ os # "ubuntu" => ~WriteMeta(w) /\ ~Publish(w) /\ ~CopyMain(w) /\ ~CopyMeta(w) /\ ~Unseed(w) /\ ~Restore(w)
         /\ os # "esxi" => ~BootRead(w) /\ ~BootTruncate(w) /\ ~BootRewrite(w)
         /\ os = "custom" => ~SetActive(w) /\ ~Unset(w) /\ ~Unpack(w)
<1>1. req[w].at \in FamilySteps /\ os \in Systems
  BY DEF RequestHas, StoreInv, CountsOK
<1> QED
  BY <1>1, Families DEF Mirror, Answer, WriteMeta, Publish, CopyMain, CopyMeta, Unseed, SetActive, Unset,
                        Unpack, Restore, BootRead, BootTruncate, BootRewrite, At, CopySteps, BootSteps

----------------------------------------------------------------------------
(* Custom types.                                                           *)

Owns(i) ==
    rows[i].path[2] = 0 => /\ Untaken(rows[i].path, i)
                           /\ Holds(rows[i].path, rows[i].text) \/ Settling(i)
Commits(w) ==
    At(w, "commit") /\ req[w].path[2] = 0 =>
        Untaken(req[w].path, req[w].id) /\ Holds(req[w].path, req[w].text)

LEMMA CustomParts == CustomInv <=> (\A i \in DOMAIN rows : Owns(i)) /\ (\A w \in Webs : Commits(w))
  BY DEF CustomInv, Owns, Commits

(* A step that only moves its own request towards the commit.              *)
LEMMA CustomStill ==
  ASSUME CustomInv, UNCHANGED <<rows, files>>, NEW w \in Webs, \A v \in Others(w) : req'[v] = req[v],
         req[w].at \notin {"commit", "drop"}, req'[w].at # "commit"
  PROVE  CustomInv'
<1>1. ASSUME NEW i \in DOMAIN rows PROVE Owns(i)'
  <2>1. Settling(i) => Settling(i)'
    BY DEF Settling, At, Others
  <2> QED
    BY <2>1, CustomParts DEF Owns, Untaken, Holds
<1>2. ASSUME NEW v \in Webs PROVE Commits(v)'
  <2>1. CASE v = w
    BY <2>1 DEF Commits, At
  <2>2. CASE v # w
    <3>1. Commits(v) /\ req'[v] = req[v]
      BY <2>2, CustomParts DEF Others
    <3> QED
      BY <3>1 DEF Commits, At, Untaken, Holds
  <2> QED
    BY <2>1, <2>2
<1> QED
  BY <1>1, <1>2 DEF CustomInv, Owns, Commits

(* No other request is past the lock while one writes or commits.          *)
LEMMA OnePastLock ==
  ASSUME StoreInv, os = "custom", Requesting, NEW w \in Webs, req[w].at # "idle",
         req[w].at = "write" \/ lock \subseteq {w}
  PROVE  \A v \in Others(w) : ~At(v, "commit") /\ ~At(v, "drop")
<1> SUFFICES ASSUME NEW v \in Others(w), req[v].at \in {"commit", "drop"} PROVE FALSE
  BY DEF At
<1>1. v \in Webs /\ v # w /\ RequestHas(v) /\ RequestHas(w)
  BY DEF Others, Requesting
<1>2. Benign(req[v].kind, req[w].kind)
  BY <1>1 DEF Requesting, Overlaps, At
<1>3. req[v].kind = "create" /\ req[w].kind = "create"
  BY <1>2 DEF Benign
<1>4. req[v].at = "commit"
  BY <1>1, <1>3 DEF StoreInv, ReqOK, PlaceOK
<1>5. lock = {v}
  BY <1>1, <1>3, <1>4 DEF RequestHas, PushSteps, CreateHas
<1>6. req[w].at = "write" => lock = {w}
  BY <1>1, <1>3 DEF RequestHas, PushSteps, CreateHas
<1> QED
  BY <1>1, <1>5, <1>6

(* The name a push of a custom type writes under is its own, or has an id. *)
LEMMA PathForOwn ==
  ASSUME StoreInv, os = "custom", Requesting, CustomInv, NEW w \in Webs, req[w].at = "write"
  PROVE  LET p == PathFor(req[w].path, req[w].id) IN p[2] = 0 => Untaken(p, req[w].id)
<1> DEFINE p == PathFor(req[w].path, req[w].id)
<1> DEFINE q == req[w].path
<1> DEFINE i == req[w].id
<1>1. i \in Ids /\ q \in Labels \X {0}
  BY PushCarries DEF PushSteps
<1>2. i # 0 /\ q[2] = 0
  BY <1>1 DEF Ids
<1>3. CASE q \in DOMAIN files /\ \E j \in DOMAIN rows \ {i} : rows[j].path = q
  <2>1. p = <<q[1], i>>
    BY <1>3 DEF PathFor
  <2>2. p[2] # 0
    BY <1>2, <2>1
  <2> QED
    BY <2>2
<1>4. CASE q \in DOMAIN files /\ ~(\E j \in DOMAIN rows \ {i} : rows[j].path = q)
  <2>1. p = q
    BY <1>4 DEF PathFor
  <2> QED
    BY <1>4, <2>1 DEF Untaken
<1>5. CASE q \notin DOMAIN files
  <2>1. p = q
    BY <1>5 DEF PathFor
  <2>2. ASSUME NEW j \in DOMAIN rows \ {i}, rows[j].path = q PROVE FALSE
    <3>1. Settling(j)
      BY <1>2, <1>5, <2>2, CustomParts DEF Owns, Holds
    <3>2. PICK v \in Webs : req[v].id = j /\ (At(v, "drop") \/ At(v, "commit"))
      BY <3>1 DEF Settling
    <3>3. v \in Others(w)
      BY <3>2 DEF At, Others
    <3> QED
      BY <3>2, <3>3, OnePastLock
  <2> QED
    BY <2>1, <2>2 DEF Untaken
<1> QED
  BY <1>3, <1>4, <1>5

LEMMA CustomWrite ==
  ASSUME StoreInv, os = "custom", Requesting, CustomInv, NEW w \in Webs, WriteMain(w)
  PROVE  CustomInv'
<1> DEFINE p == PathFor(req[w].path, req[w].id)
<1>1. WriteDoes(w, p)
  BY WriteEffect
<1>2. req[w].at = "write" /\ req'[w].at = "commit" /\ req'[w].path = p /\ req'[w].id = req[w].id
      /\ req'[w].text = req[w].text /\ req'[w].kind = req[w].kind
  BY <1>1 DEF WriteDoes
<1>3. p[2] = 0 => Untaken(p, req[w].id)
  BY <1>2, PathForOwn
<1> HIDE DEF p
<1>4. /\ rows' = rows /\ p \in DOMAIN files' /\ files'[p].main = req[w].text
      /\ \A q \in DOMAIN files \ {p} : q \in DOMAIN files' /\ files'[q] = files[q]
      /\ \A v \in Others(w) : req'[v] = req[v]
  BY <1>1 DEF WriteDoes, Writes
<1>5. \A v \in Others(w) : ~At(v, "commit") /\ ~At(v, "drop")
  BY <1>2, OnePastLock
<1>6. ASSUME NEW i \in DOMAIN rows' PROVE Owns(i)'
  <2>1. Owns(i)
    BY <1>4, CustomParts
  <2> SUFFICES ASSUME rows[i].path[2] = 0
               PROVE  Untaken(rows[i].path, i) /\ (Holds(rows[i].path, rows[i].text)' \/ Settling(i)')
    BY <1>4 DEF Owns, Untaken, Holds
  <2>2. ~Settling(i)
    BY <1>2, <1>5 DEF Settling, At, Others
  <2>3. Untaken(rows[i].path, i) /\ Holds(rows[i].path, rows[i].text)
    BY <2>1, <2>2 DEF Owns
  <2>4. CASE rows[i].path # p
    BY <1>4, <2>3, <2>4 DEF Holds
  <2>5. CASE rows[i].path = p
    <3>1. i = req[w].id
      BY <1>3, <1>4, <2>5 DEF Untaken
    <3>2. req[w].kind = "edit"
      <4>1. RequestHas(w) /\ req[w].kind \in {"create", "edit"}
        BY <1>2, PushCarries DEF Requesting, PushSteps
      <4> QED
        BY <1>2, <1>4, <3>1, <4>1 DEF RequestHas, PushSteps, CreateHas
    <3> QED
      BY <1>2, <2>3, <3>1, <3>2 DEF Settling, At
  <2> QED
    BY <2>4, <2>5
<1>7. ASSUME NEW v \in Webs PROVE Commits(v)'
  <2>1. CASE v = w
    BY <1>2, <1>3, <1>4, <2>1 DEF Commits, At, Untaken, Holds
  <2>2. CASE v # w
    BY <1>4, <1>5, <2>2 DEF Commits, At, Others
  <2> QED
    BY <2>1, <2>2
<1> QED
  BY <1>6, <1>7 DEF CustomInv, Owns, Commits

LEMMA CustomCommit ==
  ASSUME StoreInv, os = "custom", Requesting, CustomInv, NEW w \in Webs, CommitPush(w)
  PROVE  CustomInv'
<1> DEFINE i == req[w].id
<1> DEFINE p == req[w].path
<1>1. req[w].at = "commit"
  BY DEF CommitPush, At
<1>2. CommitDoes(w)
  <2>1. req[w].kind \in {"create", "edit"} /\ RequestHas(w)
    BY <1>1, PushCarries DEF Requesting, PushSteps
  <2> QED
    BY <1>1, <2>1, CommitEffect DEF RequestHas, PushSteps, EditHas
<1>3. /\ files' = files /\ DOMAIN rows' = DOMAIN rows \cup {i} /\ lock \subseteq {w}
      /\ rows'[i].path = p /\ rows'[i].text = req[w].text
      /\ \A j \in DOMAIN rows \ {i} : rows'[j] = rows[j]
      /\ \A v \in Others(w) : req'[v] = req[v]
      /\ req'[w].at = "idle"
  BY <1>2 DEF CommitDoes, Ends
<1>4. \A v \in Others(w) : ~At(v, "commit") /\ ~At(v, "drop")
  BY <1>1, <1>3, OnePastLock
<1>5. p[2] = 0 => Untaken(p, i) /\ Holds(p, req[w].text)
  BY <1>1, CustomParts DEF Commits, At
<1> HIDE DEF i, p
<1>6. ASSUME NEW j \in DOMAIN rows' PROVE Owns(j)'
  <2>1. CASE j = i
    BY <1>3, <1>5, <2>1 DEF Owns, Untaken, Holds
  <2>2. CASE j # i
    <3>1. j \in DOMAIN rows /\ rows'[j] = rows[j] /\ Owns(j)
      BY <1>3, <2>2, CustomParts
    <3>2. ~Settling(j)
      BY <1>4, <2>2 DEF Settling, At, Others, i
    <3>3. ASSUME rows[j].path[2] = 0 PROVE Untaken(rows[j].path, j)'
      <4>1. p # rows[j].path
        BY <1>5, <2>2, <3>1, <3>3 DEF Untaken
      <4>2. Untaken(rows[j].path, j)
        BY <3>1, <3>3 DEF Owns
      <4> QED
        BY <1>3, <3>1, <4>1, <4>2 DEF Untaken
    <3> QED
      BY <1>3, <3>1, <3>2, <3>3 DEF Owns, Holds
  <2> QED
    BY <2>1, <2>2
<1>7. ASSUME NEW v \in Webs PROVE Commits(v)'
  BY <1>3, <1>4 DEF Commits, At, Others
<1> QED
  BY <1>6, <1>7 DEF CustomInv, Owns, Commits

(* What a request that is alone knows of the others.                       *)
LEMMA OthersIdle ==
  ASSUME NEW w \in Webs, Alone(w), Carries(w)
  PROVE  \A v \in Webs : v # w => req[v].at = "idle" /\ req'[v].at = "idle"
  BY DEF Alone, Carries, Others, At

LEMMA CustomDelete ==
  ASSUME StoreInv, os = "custom", Requesting, CustomInv, NEW w \in Webs, Unlink(w) \/ Drop(w)
  PROVE  CustomInv'
<1> DEFINE i == req[w].id
<1> DEFINE p == req[w].path
<1>1. req[w].at \in {"unlink", "drop"}
  BY DEF Unlink, Drop, At
<1>2. /\ i \in DOMAIN rows /\ p = rows[i].path /\ req[w].was = (active = i)
      /\ req[w].kind = "delete"
  BY <1>1 DEF Requesting, RequestHas, DeleteHas, Names, StoreInv, ReqOK, PlaceOK
<1>3. \A v \in Webs : v # w => req[v].at = "idle"
  BY <1>1, <1>2, AloneThen DEF Requesting, Alone, Others, At, Systems
<1>4. CASE Unlink(w)
  <2>1. UnlinkDoes(w)
    BY <1>4, PlainEffects
  <2>2. /\ req[w].at = "unlink" /\ req'[w].at = "drop" /\ req'[w].id = i /\ rows' = rows
        /\ DOMAIN files' = DOMAIN files \ {p} /\ \A q \in DOMAIN files' : files'[q] = files[q]
        /\ \A v \in Webs : v # w => req'[v].at = "idle"
    BY <1>3, <2>1 DEF UnlinkDoes, Arrives, Others
  <2>3. ASSUME NEW j \in DOMAIN rows' PROVE Owns(j)'
    <3>1. Owns(j) /\ j \in DOMAIN rows
      BY <2>2, CustomParts
    <3>2. CASE j = i
      <4>1. Settling(j)'
        BY <2>2, <3>2 DEF Settling, At
      <4> QED
        BY <2>2, <3>1, <4>1 DEF Owns, Untaken
    <3>3. CASE j # i
      <4>1. ~Settling(j)
        BY <1>3, <2>2 DEF Settling, At
      <4> QED
        BY <1>2, <2>2, <3>1, <3>3, <4>1 DEF Owns, Untaken, Holds
    <3> QED
      BY <3>2, <3>3
  <2>4. ASSUME NEW v \in Webs PROVE Commits(v)'
    BY <2>2 DEF Commits, At
  <2> QED
    BY <2>3, <2>4 DEF CustomInv, Owns, Commits
<1>5. CASE Drop(w)
  <2>1. DropDoes(w)
    BY <1>2, <1>5, DropEffect
  <2>2. /\ req'[w].at = "idle" /\ files' = files /\ DOMAIN rows' = DOMAIN rows \ {i}
        /\ \A j \in DOMAIN rows' : rows'[j] = rows[j]
        /\ \A v \in Webs : v # w => req'[v].at = "idle"
    BY <1>3, <2>1 DEF DropDoes, Ends, Others
  <2>3. ASSUME NEW j \in DOMAIN rows' PROVE Owns(j)'
    <3>1. Owns(j) /\ j \in DOMAIN rows /\ j # i
      BY <2>2, CustomParts
    <3>2. ~Settling(j)
      BY <1>3, <3>1 DEF Settling, At
    <3> QED
      BY <2>2, <3>1, <3>2 DEF Owns, Untaken, Holds
  <2>4. ASSUME NEW v \in Webs PROVE Commits(v)'
    BY <2>2 DEF Commits, At
  <2> QED
    BY <2>3, <2>4 DEF CustomInv, Owns, Commits
<1> QED
  BY <1>4, <1>5

LEMMA CustomImport ==
  ASSUME ConfigAssumption, StoreInv, os = "custom", Requesting, CustomInv, NEW w \in Webs, Import(w)
  PROVE  CustomInv'
<1>1. ImportDoes(w)
  BY ImportEffect
<1>2. req[w].at = "import" /\ req[w].kind = "scan" /\ req[w].known = RowPaths
  BY <1>1 DEF ImportDoes, Requesting, RequestHas, At
<1>3. \A v \in Webs : v # w => req[v].at = "idle"
  BY <1>2, AloneThen DEF Requesting, Alone, Others, At, Systems
<1>4. /\ files' = files /\ DOMAIN rows \subseteq DOMAIN rows' /\ \A j \in DOMAIN rows : rows'[j] = rows[j]
      /\ \A v \in Webs : req'[v].at = "idle"
      /\ \A i \in DOMAIN rows' \ DOMAIN rows :
            /\ Whole(rows'[i].path) /\ rows'[i].path \notin RowPaths
            /\ rows'[i].text = files[rows'[i].path].main
            /\ \A j \in DOMAIN rows' \ DOMAIN rows : rows'[j].path = rows'[i].path => j = i
  BY <1>1, <1>2, <1>3 DEF ImportDoes, Ends, Others
<1>5. \A j \in DOMAIN rows : ~Settling(j)
  BY <1>2, <1>3 DEF Settling, At
<1>6. \A j \in DOMAIN rows : rows[j].path \in RowPaths
  BY DEF RowPaths
<1>7. ASSUME NEW i \in DOMAIN rows' PROVE Owns(i)'
  <2>1. CASE i \in DOMAIN rows
    <3>1. Owns(i) /\ rows'[i] = rows[i]
      BY <1>4, <2>1, CustomParts
    <3> QED
      BY <1>4, <1>5, <1>6, <2>1, <3>1 DEF Owns, Untaken, Holds
  <2>2. CASE i \notin DOMAIN rows
    <3>1. rows'[i].path \in DOMAIN files' /\ files'[rows'[i].path].main = rows'[i].text
      BY <1>4, <2>2 DEF Whole
    <3>2. \A j \in DOMAIN rows' \ {i} : rows'[j].path # rows'[i].path
      BY <1>4, <1>6, <2>2
    <3> QED
      BY <3>1, <3>2 DEF Owns, Untaken, Holds
  <2> QED
    BY <2>1, <2>2
<1>8. ASSUME NEW v \in Webs PROVE Commits(v)'
  BY <1>4 DEF Commits, At
<1> QED
  BY <1>7, <1>8 DEF CustomInv, Owns, Commits

LEMMA CustomKept ==
  ASSUME ConfigAssumption, StoreInv, os = "custom", Requesting, CustomInv, ~crossed', NEW w \in Webs, WebStep(w)
  PROVE  CustomInv'
<1>1. CASE Begins(w)
  <2>1. PICK r : Started(w, r) /\ NewRequest(r)
    BY <1>1, BeginsWith
  <2>2. r.at # "commit"
    BY <2>1 DEF NewRequest
  <2> QED
    BY <2>1, <2>2, CustomStill DEF Started
<1>2. CASE Flush(w)
  BY <1>2, FlushEffect, CustomStill DEF FlushDoes
<1>3. RequestHas(w)
  BY DEF Requesting
<1> QED
  BY <1>1, <1>2, <1>3, ShutSteps, CustomWrite, CustomCommit, CustomDelete, CustomImport DEF WebStep

----------------------------------------------------------------------------
(* ESXi.                                                                   *)

LEMMA EsxiKept ==
  ASSUME ConfigAssumption, StoreInv, os = "esxi", Requesting, EsxiInv, ~crossed', NEW w \in Webs, WebStep(w)
  PROVE  EsxiInv'
<1>1. RequestHas(w) /\ os \in Systems /\ NoPath \notin Paths
  BY PathKinds DEF Requesting, Systems
<1>2. CASE Begins(w)
  <2>1. PICK r : Started(w, r) /\ NewRequest(r)
    BY <1>2, BeginsWith
  <2>2. \A v \in Webs : req[v].at = "idle"
    BY <2>1 DEF Started, Benign, Others, At
  <2>3. SeedFits
    BY <2>2 DEF EsxiInv, CommonSteps
  <2>4. /\ seed' = seed /\ active' = active /\ req'[w].at = r.at
        /\ \A v \in Webs : v # w => req'[v].at = "idle"
        /\ taken' = taken /\ req'[w].body = r.body
        /\ r.at \in CommonSteps \cup {"bootread", "unpack"} /\ (r.at = "unpack" => r.body)
    BY <2>1, <2>2 DEF Started, NewRequest, Others, CommonSteps
  <2>5. SeedFits' /\ (taken' = "cfg" \/ seed'.body)
    BY <2>3, <2>4 DEF SeedFits
  <2> QED
    BY <2>4, <2>5 DEF EsxiInv, WriterFits, At, CommonSteps
<1>3. ASSUME ~Begins(w) PROVE EsxiInv'
  <2>1. req[w].at # "idle" /\ Sound(w)
    BY <1>3, NotIdle, StepSound
  <2>2. Alone(w)
    BY <1>1, <2>1, AloneThen DEF Requesting
  <2>3. \A v \in Webs : v # w => req[v].at = "idle" /\ req'[v].at = "idle"
    BY <2>1, <2>2, OthersIdle DEF Sound
  <2>4. WriterFits(w) /\ (req[w].at \in CommonSteps \cup {"unpack"} => SeedFits)
    BY <2>3 DEF EsxiInv, CommonSteps
  <2>s. ASSUME req'[w].at \in CommonSteps \cup {"unpack"} => SeedFits', WriterFits(w)'
        PROVE  EsxiInv'
    BY <2>3, <2>s DEF EsxiInv, WriterFits, At, CommonSteps
  <2>t. ASSUME req'[w].at \in CommonSteps, SeedFits' PROVE EsxiInv'
    BY <2>s, <2>t DEF WriterFits, At, CommonSteps
  <2>5. ASSUME req[w].at \in CommonSteps, UNCHANGED <<seed, taken, active>>, req'[w].at \in CommonSteps
        PROVE  EsxiInv'
    BY <2>4, <2>5, <2>t DEF SeedFits
  <2>6. CASE Flush(w)
    BY <2>5, <2>6, FlushEffect DEF FlushDoes, CommonSteps
  <2>7. CASE WriteMain(w)
    BY <2>5, <2>7, WriteEffect DEF WriteDoes, CommonSteps
  <2>8. CASE CommitPush(w)
    <3>1. req[w].at = "commit"
      BY <2>8 DEF CommitPush, At
    <3>2. req[w].kind \in {"create", "edit"}
      BY <3>1, PushCarries DEF PushSteps
    <3>3. CommitDoes(w)
      BY <1>1, <2>8, <3>1, <3>2, CommitEffect DEF RequestHas, PushSteps, EditHas
    <3> QED
      BY <2>5, <3>3 DEF CommitDoes, Ends, CommonSteps
  <2>9. CASE Unlink(w)
    BY <2>5, <2>9, PlainEffects DEF UnlinkDoes, Arrives, CommonSteps
  <2>10. CASE Import(w)
    BY <2>5, <2>10, ImportEffect DEF ImportDoes, Ends, CommonSteps
  <2>11. CASE Drop(w)
    <3>1. req[w].at = "drop"
      BY <2>11 DEF Drop, At
    <3>2. DropDoes(w) /\ SeedFits
      BY <1>1, <2>4, <2>11, <3>1, DropEffect DEF RequestHas, DeleteHas, CommonSteps
    <3>3. CASE req[w].was
      <4>1. seed' = seed /\ taken' = taken /\ req'[w].at = "bootread" /\ req'[w].kind = req[w].kind
        BY <1>1, <3>2, <3>3 DEF DropDoes, Arrives
      <4>2. req[w].kind = "delete"
        BY <3>1 DEF StoreInv, ReqOK, PlaceOK
      <4>3. taken' = "cfg" \/ seed'.body
        BY <3>2, <4>1 DEF SeedFits
      <4> QED
        BY <2>s, <4>1, <4>2, <4>3 DEF WriterFits, At, CommonSteps
    <3>4. CASE ~req[w].was
      BY <2>5, <3>1, <3>2, <3>4 DEF DropDoes, Ends, CommonSteps
    <3> QED
      BY <3>3, <3>4
  <2>12. CASE BootRead(w)
    <3>1. BootReadDoes(w)
      BY <2>12, BootEffects
    <3>2. req[w].at = "bootread" /\ UNCHANGED <<seed, taken, active>>
      BY <3>1 DEF BootReadDoes
    <3>3. (taken = "cfg" \/ seed.body) /\ (req[w].kind = "refresh" => SeedFits) /\ req[w].kind # "extract"
      BY <1>1, <2>4, <3>2 DEF WriterFits, At, RequestHas
    <3>4. CASE taken = "cfg"
      <4>1. SeedFits' /\ taken' = "cfg" /\ req'[w].at \in {"unset", "idle"}
        BY <3>1, <3>2, <3>4 DEF BootReadDoes, Arrives, Ends, SeedFits
      <4> QED
        BY <2>s, <4>1 DEF WriterFits, At
    <3>5. CASE taken # "cfg"
      <4>1. BootReads(w) /\ seed.body
        BY <3>1, <3>3, <3>5 DEF BootReadDoes
      <4>2. SeedFits => SeedFits'
        BY <3>2 DEF SeedFits
      <4>3. CASE Renames(w)
        <5>1. req'[w].at = "truncate" /\ req'[w].body /\ req'[w].kind # "extract"
          BY <4>1, <4>3 DEF BootReads, Renames
        <5> QED
          BY <2>s, <5>1 DEF WriterFits, At, CommonSteps
      <4>4. CASE ~Renames(w)
        <5>1. req[w].kind = "refresh"
          BY <1>1, <3>2, <3>3, <4>4 DEF RequestHas, BootSteps, Renames
        <5>2. req'[w].at = "rewrite" /\ req'[w].body /\ req'[w].kind = "refresh" /\ req'[w].path = seed'.ks
          BY <3>2, <4>1, <4>4, <5>1 DEF BootReads
        <5>3. SeedFits' /\ taken' # "cfg"
          BY <3>2, <3>3, <3>5, <4>2, <5>1
        <5> QED
          BY <2>s, <5>2, <5>3 DEF WriterFits, At, CommonSteps
      <4> QED
        BY <4>3, <4>4
    <3> QED
      BY <3>4, <3>5
  <2>13. CASE BootTruncate(w)
    <3>1. /\ req[w].at = "truncate" /\ req'[w].at = "rewrite" /\ req'[w].body = req[w].body
          /\ req'[w].kind = req[w].kind /\ active' = active
          /\ taken' = (IF taken = "cfg" \/ (req[w].kind = "extract" /\ seed.ks # NoPath) THEN "ks" ELSE taken)
      BY <2>13, PlainEffects DEF TruncateDoes, Arrives
    <3>2. req[w].body /\ req[w].kind # "refresh" /\ (req[w].kind = "extract" => SeedFits)
      BY <1>1, <2>4, <3>1 DEF WriterFits, At, RequestHas
    <3>3. req'[w].kind = "extract" => taken' # "cfg" /\ (active' # 0 => taken' = "ks")
      BY <3>1, <3>2 DEF SeedFits
    <3>4. req'[w].body /\ req'[w].kind # "refresh"
      BY <3>1, <3>2
    <3> QED
      BY <2>s, <3>1, <3>3, <3>4 DEF WriterFits, At, CommonSteps
  <2>14. CASE BootRewrite(w)
    <3>1. RewriteDoes(w)
      BY <2>14, BootEffects
    <3>2. req[w].at = "rewrite" /\ req[w].body /\ WriterFits(w) /\ active' = active
      BY <2>4, <3>1 DEF RewriteDoes, WriterFits
    <3>3. req[w].kind = "activate" => req[w].path # NoPath
      <4>1. req[w].kind = "activate" => Names(w)
        BY <1>1, <3>2 DEF RequestHas, BootSteps
      <4>2. \A i \in DOMAIN rows : rows[i].path \in Paths
        BY DEF StoreInv, RowsOK
      <4> QED
        BY <1>1, <4>1, <4>2 DEF Names
    <3>4. seed'.body
      BY <3>1, <3>2 DEF RewriteDoes
    <3>5. CASE Renames(w)
      <4>1. /\ seed'.ks = (IF req[w].kind = "activate" THEN req[w].path ELSE NoPath)
            /\ req'[w].at = (IF req[w].kind = "activate" THEN "setactive" ELSE "unset")
        BY <3>1, <3>5 DEF RewriteDoes, Renames, Arrives
      <4> QED
        BY <2>s, <3>3, <3>4, <4>1 DEF WriterFits, At, CommonSteps
    <3>6. CASE ~Renames(w)
      <4>1. req[w].kind \in {"refresh", "extract"}
        BY <1>1, <3>2, <3>6 DEF RequestHas, BootSteps, Renames
      <4>2. /\ req'[w].at = "idle" /\ taken' = (IF taken = "cfg" THEN "ks" ELSE taken)
            /\ seed'.ks = (IF req[w].kind = "refresh" THEN req[w].path ELSE NoPath)
        BY <3>1, <3>6, <4>1 DEF RewriteDoes, Ends
      <4>3. /\ req[w].kind = "extract" => taken # "cfg" /\ (active # 0 => taken = "ks")
            /\ req[w].kind = "refresh" => taken # "cfg" /\ SeedFits /\ req[w].path = seed.ks
        BY <3>2 DEF WriterFits, At
      <4>4. SeedFits'
        BY <3>2, <3>4, <4>1, <4>2, <4>3 DEF SeedFits
      <4> QED
        BY <2>t, <4>2, <4>4 DEF CommonSteps
    <3> QED
      BY <3>5, <3>6
  <2>15. CASE SetActive(w)
    <3>1. req[w].at = "setactive"
      BY <2>15 DEF SetActive, At
    <3>2. req[w].id \in DOMAIN rows /\ seed.body /\ seed.ks # NoPath
      BY <1>1, <2>4, <3>1 DEF RequestHas, At, Names, WriterFits
    <3>3. SetActiveDoes(w) /\ req[w].id # 0
      BY <2>15, <3>2, PlainEffects DEF StoreInv, RowsOK, Ids
    <3>4. SeedFits' /\ req'[w].at = "idle"
      BY <3>2, <3>3 DEF SetActiveDoes, Ends, SeedFits
    <3> QED
      BY <2>t, <3>4 DEF CommonSteps
  <2>16. CASE Unset(w)
    <3>1. UnsetDoes(w)
      BY <2>16, PlainEffects
    <3>2. taken = "cfg" \/ (seed.body /\ seed.ks = NoPath)
      BY <2>4, <3>1 DEF UnsetDoes, WriterFits, At
    <3>3. SeedFits' /\ req'[w].at = "idle"
      BY <1>1, <3>1, <3>2 DEF UnsetDoes, Ends, SeedFits
    <3> QED
      BY <2>t, <3>3 DEF CommonSteps
  <2>17. CASE Unpack(w)
    <3>1. UnpackDoes(w)
      BY <2>17, PlainEffects
    <3>2. SeedFits /\ req[w].body /\ active' = active
      BY <2>4, <3>1 DEF UnpackDoes, WriterFits
    <3>3. UNCHANGED <<seed, taken>> \/ taken' = "cfg"
      BY <3>1 DEF UnpackDoes, Wipe
    <3>4. SeedFits'
      BY <3>2, <3>3 DEF SeedFits
    <3>5. CASE Ends(w)
      BY <2>t, <3>4, <3>5 DEF Ends, CommonSteps
    <3>6. CASE Arrives(w, "truncate")
      BY <2>s, <3>2, <3>4, <3>6 DEF Arrives, WriterFits, At, CommonSteps
    <3> QED
      BY <3>1, <3>5, <3>6 DEF UnpackDoes
  <2> QED
    BY <1>1, <1>3, <2>6, <2>7, <2>8, <2>9, <2>10, <2>11, <2>12, <2>13, <2>14, <2>15, <2>16, <2>17,
       ShutSteps DEF WebStep
<1> QED
  BY <1>2, <1>3
----------------------------------------------------------------------------
(* Ubuntu: the bundles.                                                    *)

(* No file is lost and no part of one that is there.                       *)
FilesGrow ==
    \A p \in DOMAIN files : /\ p \in DOMAIN files'
                            /\ files[p].main # 0 => files'[p].main # 0
                            /\ files[p].meta # 0 => files'[p].meta # 0

LEMMA GrowKeepsWhole ==
  ASSUME FilesGrow, os' = os, NEW p, Whole(p)
  PROVE  p \in DOMAIN files' /\ files'[p].main # 0 /\ (os' = "ubuntu" => files'[p].meta # 0)
  BY DEF FilesGrow, Whole

(* A step that changes no row, and no file but for the better.             *)
LEMMA BundlesStill ==
  ASSUME BundlesOK, os' = os, rows' = rows, FilesGrow, NEW w \in Webs, \A v \in Others(w) : req'[v] = req[v],
         req[w].at # "drop", FreshBundle(w)'
  PROVE  BundlesOK'
<1>1. \A i \in DOMAIN rows' : Untaken(rows[i].path, i)'
  BY DEF BundlesOK, Untaken
<1>2. ASSUME NEW i \in DOMAIN rows' PROVE Whole(rows[i].path)' \/ Dropping(i)'
  <2>1. Whole(rows[i].path) \/ Dropping(i)
    BY DEF BundlesOK
  <2>2. Dropping(i) => Dropping(i)'
    BY DEF Dropping, At, Others
  <2>3. Whole(rows[i].path) => Whole(rows[i].path)'
    BY GrowKeepsWhole DEF Whole
  <2> QED
    BY <2>1, <2>2, <2>3
<1>3. ASSUME NEW v \in Webs PROVE FreshBundle(v)'
  <2>1. CASE v = w
    BY <2>1
  <2>2. CASE v # w
    <3>1. req'[v] = req[v] /\ FreshBundle(v)
      BY <2>2 DEF Others, BundlesOK
    <3> QED
      BY <3>1 DEF FreshBundle, FilesGrow, Taken, At
  <2> QED
    BY <2>1, <2>2
<1> QED
  BY <1>1, <1>2, <1>3 DEF BundlesOK

LEMMA WritesGrow ==
  ASSUME FilesOK, NEW p, NEW n \in Texts, NEW f \in {"main", "meta"}, Writes(p, n, f)
  PROVE  FilesGrow
<1>1. n # 0
  BY DEF Texts
<1> QED
  BY <1>1 DEF Writes, FilesGrow

LEMMA SameGrow ==
  ASSUME files' = files
  PROVE  FilesGrow
  BY DEF FilesGrow

(* The bundle of the row that a request names is whole.                    *)
LEMMA NamedIsWhole ==
  ASSUME Requesting, BundlesOK, StoreInv, os = "ubuntu", NEW w \in Webs, Names(w), req[w].at \notin {"idle", "drop"}
  PROVE  Whole(req[w].path)
<1>1. ASSUME NEW v \in Webs, At(v, "drop"), req[v].id = req[w].id PROVE FALSE
  <2>1. req[v].kind = "delete" /\ v # w /\ v \in Webs
    BY <1>1 DEF StoreInv, ReqOK, PlaceOK, At
  <2>2. Benign(req[v].kind, req[w].kind)
    BY <1>1, <2>1 DEF Requesting, Overlaps, At
  <2> QED
    BY <2>1, <2>2 DEF Benign
<1> QED
  BY <1>1 DEF BundlesOK, Names, Dropping

LEMMA BundlesPush ==
  ASSUME StoreInv, os = "ubuntu", os' = os, Requesting, BundlesOK, NEW w \in Webs, WriteMain(w) \/ WriteMeta(w)
  PROVE  BundlesOK'
<1>0. FilesOK /\ FreshBundle(w)
  BY DEF StoreInv, BundlesOK
<1>1. CASE WriteMain(w)
  <2> DEFINE p == PathFor(req[w].path, req[w].id)
  <2>1. WriteDoes(w, p)
    BY <1>1, WriteEffect
  <2>2. p = req[w].path /\ req[w].at = "write" /\ req'[w].at = "meta" /\ req'[w].path = p
        /\ req'[w].kind = req[w].kind /\ rows' = rows /\ \A v \in Others(w) : req'[v] = req[v]
    BY <2>1 DEF WriteDoes
  <2> HIDE DEF p
  <2>3. req[w].text \in Texts /\ req[w].text # 0
    BY <2>2, PushCarries DEF PushSteps, Texts
  <2>4. FilesGrow /\ p \in DOMAIN files' /\ files'[p].main # 0
    BY <1>0, <2>1, <2>3, WritesGrow DEF WriteDoes, Writes
  <2>5. FreshBundle(w)'
    BY <1>0, <2>2, <2>4 DEF FreshBundle, PushSteps, Taken, At
  <2> QED
    BY <2>2, <2>4, <2>5, BundlesStill
<1>2. CASE WriteMeta(w)
  <2>1. MetaDoes(w)
    BY <1>2, PlainEffects
  <2>2. req[w].at = "meta" /\ req'[w].at = "commit" /\ req'[w].path = req[w].path
        /\ req'[w].kind = req[w].kind /\ rows' = rows /\ \A v \in Others(w) : req'[v] = req[v]
    BY <2>1 DEF MetaDoes, Arrives
  <2>3. req[w].text \in Texts /\ req[w].text # 0
    BY <2>2, PushCarries DEF PushSteps, Texts
  <2>4. FilesGrow /\ files'[req[w].path].meta # 0
    BY <1>0, <2>1, <2>3, WritesGrow DEF MetaDoes, Writes
  <2>5. FreshBundle(w)'
    BY <1>0, <2>2, <2>4 DEF FreshBundle, PushSteps, Taken, At, FilesGrow
  <2> QED
    BY <2>2, <2>4, <2>5, BundlesStill
<1> QED
  BY <1>1, <1>2

(* An edit commits the row under the path that it has.                     *)
LEMMA BundlesCommit ==
  ASSUME StoreInv, os = "ubuntu", os' = os, Requesting, BundlesOK, NEW w \in Webs, CommitPush(w)
  PROVE  BundlesOK'
<1> DEFINE i == req[w].id
<1> DEFINE p == req[w].path
<1>1. req[w].at = "commit" /\ req[w].kind \in {"create", "edit"} /\ RequestHas(w) /\ FreshBundle(w)
  <2>1. req[w].at = "commit"
    BY DEF CommitPush, At
  <2> QED
    BY <2>1, PushCarries DEF PushSteps, Requesting, BundlesOK
<1>2. /\ req[w].kind = "edit" => Names(w)
      /\ req[w].kind = "create" => i \notin DOMAIN rows
  BY <1>1 DEF RequestHas, PushSteps, EditHas, CreateHas
<1>3. CommitDoes(w)
  BY <1>1, <1>2, CommitEffect DEF Names
<1>4. /\ files' = files /\ DOMAIN rows' = DOMAIN rows \cup {i} /\ rows'[i].path = p
      /\ \A j \in DOMAIN rows \ {i} : rows'[j] = rows[j]
      /\ \A v \in Others(w) : req'[v] = req[v]
      /\ req'[w].at \notin {"flush", "drop"} \cup PushSteps
  BY <1>3 DEF CommitDoes, Ends, Arrives, PushSteps
<1>5. req[w].kind = "edit" => /\ DOMAIN rows' = DOMAIN rows
                              /\ \A j \in DOMAIN rows : rows'[j].path = rows[j].path
  BY <1>2, <1>4 DEF Names
<1>6. req[w].kind = "create" => ~Taken(p) /\ Whole(p)
  BY <1>1 DEF FreshBundle, PushSteps, At, Whole
<1> HIDE DEF i, p
<1>7. ASSUME NEW j \in DOMAIN rows', NEW k \in DOMAIN rows', k # j PROVE rows'[k].path # rows'[j].path
  <2>1. CASE req[w].kind = "edit"
    BY <1>5, <1>7, <2>1 DEF BundlesOK, Untaken
  <2>2. CASE req[w].kind = "create"
    <3>1. \A m \in DOMAIN rows : rows[m].path # p /\ m # i
      BY <1>2, <1>6, <2>2 DEF Taken
    <3> QED
      BY <1>4, <1>7, <3>1 DEF BundlesOK, Untaken
  <2> QED
    BY <1>1, <2>1, <2>2
<1>8. ASSUME NEW j \in DOMAIN rows' PROVE Whole(rows[j].path)' \/ Dropping(j)'
  <2>0. \A q : Whole(q) => Whole(q)'
    BY <1>4 DEF Whole
  <2>1. CASE j \in DOMAIN rows
    <3>1. rows'[j].path = rows[j].path
      BY <1>1, <1>2, <1>4, <1>5, <2>1
    <3>2. Whole(rows[j].path) \/ Dropping(j)
      BY <2>1 DEF BundlesOK
    <3>3. Dropping(j) => Dropping(j)'
      BY <1>1, <1>4 DEF Dropping, At, Others
    <3>4. Whole(rows[j].path) => Whole(rows[j].path)'
      BY <1>4, <3>1 DEF Whole
    <3> QED
      BY <3>2, <3>3, <3>4
  <2>2. CASE j \notin DOMAIN rows
    <3>1. j = i /\ Whole(p)
      BY <1>1, <1>4, <1>5, <1>6, <2>2
    <3> QED
      BY <1>4, <3>1 DEF Whole
  <2> QED
    BY <2>1, <2>2
<1>9. ASSUME NEW v \in Webs PROVE FreshBundle(v)'
  <2>1. CASE v = w
    BY <1>4, <2>1 DEF FreshBundle, PushSteps, At
  <2>2. CASE v # w /\ req[v].kind = "create" /\ ~At(v, "idle")
    <3>1. req'[v] = req[v] /\ FreshBundle(v)
      BY <1>4, <2>2 DEF Others, BundlesOK
    <3>2. req[w].kind = "edit"
      BY <1>1, <2>2 DEF Requesting, Overlaps, At, Benign
    <3>3. Taken(req[v].path)' <=> Taken(req[v].path)
      BY <1>5, <3>1, <3>2 DEF Taken
    <3> QED
      BY <1>4, <3>1, <3>3 DEF FreshBundle, At, Taken
  <2>3. CASE v # w /\ ~(req[v].kind = "create" /\ ~At(v, "idle"))
    BY <1>4, <2>3 DEF FreshBundle, At, Others, PushSteps
  <2> QED
    BY <2>1, <2>2, <2>3
<1> QED
  BY <1>7, <1>8, <1>9 DEF BundlesOK, Untaken

LEMMA BundlesDelete ==
  ASSUME StoreInv, os = "ubuntu", os' = os, Requesting, BundlesOK, NEW w \in Webs, Unlink(w) \/ Drop(w)
  PROVE  BundlesOK'
<1> DEFINE i == req[w].id
<1> DEFINE p == req[w].path
<1>1. req[w].at \in {"unlink", "drop"}
  BY DEF Unlink, Drop, At
<1>2. /\ i \in DOMAIN rows /\ p = rows[i].path /\ req[w].was = (active = i)
      /\ req[w].kind = "delete"
  BY <1>1 DEF Requesting, RequestHas, DeleteHas, Names, StoreInv, ReqOK, PlaceOK
<1>3. \A v \in Webs : v # w => req[v].at = "idle"
  BY <1>1, <1>2, AloneThen DEF Requesting, Alone, Others, At, Systems
<1>4. CASE Unlink(w)
  <2>1. UnlinkDoes(w)
    BY <1>4, PlainEffects
  <2>2. /\ req[w].at = "unlink" /\ req'[w].at = "drop" /\ req'[w].id = i /\ rows' = rows
        /\ DOMAIN files' = DOMAIN files \ {p} /\ \A q \in DOMAIN files' : files'[q] = files[q]
        /\ \A v \in Webs : v # w => req'[v].at = "idle"
    BY <1>3, <2>1 DEF UnlinkDoes, Arrives, Others
  <2>3. ASSUME NEW j \in DOMAIN rows' PROVE Whole(rows[j].path)' \/ Dropping(j)'
    <3>1. CASE j = i
      BY <2>2, <3>1 DEF Dropping, At
    <3>2. CASE j # i
      <4>1. ~Dropping(j)
        BY <1>3, <2>2 DEF Dropping, At
      <4>2. Whole(rows[j].path) /\ rows[j].path # p
        BY <1>2, <2>2, <3>2, <4>1 DEF BundlesOK, Untaken
      <4> QED
        BY <2>2, <4>2 DEF Whole
    <3> QED
      BY <3>1, <3>2
  <2>4. ASSUME NEW v \in Webs PROVE FreshBundle(v)'
    BY <2>2 DEF FreshBundle, At, PushSteps
  <2>5. \A j \in DOMAIN rows' : Untaken(rows[j].path, j)'
    BY <2>2 DEF BundlesOK, Untaken
  <2> QED
    BY <2>3, <2>4, <2>5 DEF BundlesOK
<1>5. CASE Drop(w)
  <2>1. DropDoes(w)
    BY <1>2, <1>5, DropEffect
  <2>2. /\ req'[w].at \in {"idle", "unseed"} /\ files' = files /\ DOMAIN rows' = DOMAIN rows \ {i}
        /\ \A j \in DOMAIN rows' : rows'[j] = rows[j]
        /\ \A v \in Webs : v # w => req'[v].at = "idle"
    BY <1>3, <2>1 DEF DropDoes, Ends, Arrives, Others
  <2>3. ASSUME NEW j \in DOMAIN rows' PROVE Whole(rows[j].path)' \/ Dropping(j)'
    <3>1. j \in DOMAIN rows /\ j # i /\ rows'[j] = rows[j]
      BY <2>2
    <3>2. ~Dropping(j)
      BY <1>3, <3>1 DEF Dropping, At
    <3> QED
      BY <2>2, <3>1, <3>2 DEF BundlesOK, Whole
  <2>4. ASSUME NEW v \in Webs PROVE FreshBundle(v)'
    BY <2>2 DEF FreshBundle, At, PushSteps
  <2>5. \A j \in DOMAIN rows' : Untaken(rows[j].path, j)'
    BY <2>2 DEF BundlesOK, Untaken
  <2> QED
    BY <2>3, <2>4, <2>5 DEF BundlesOK
<1> QED
  BY <1>4, <1>5

LEMMA BundlesImport ==
  ASSUME ConfigAssumption, StoreInv, os = "ubuntu", os' = os, Requesting, BundlesOK, NEW w \in Webs, Import(w)
  PROVE  BundlesOK'
<1>1. ImportDoes(w)
  BY ImportEffect
<1>2. req[w].at = "import" /\ req[w].kind = "scan" /\ req[w].known = RowPaths
  BY <1>1 DEF ImportDoes, Requesting, RequestHas, At
<1>3. \A v \in Webs : v # w => req[v].at = "idle" \/ req[v].kind \in {"edit", "extract"}
  BY <1>2 DEF Requesting, Overlaps, At, Benign
<1>4. /\ files' = files /\ DOMAIN rows \subseteq DOMAIN rows' /\ \A j \in DOMAIN rows : rows'[j] = rows[j]
      /\ \A v \in Webs : v # w => req'[v] = req[v]
      /\ req'[w].at = "idle"
      /\ \A i \in DOMAIN rows' \ DOMAIN rows :
            /\ Whole(rows'[i].path) /\ rows'[i].path \notin RowPaths
            /\ \A j \in DOMAIN rows' \ DOMAIN rows : rows'[j].path = rows'[i].path => j = i
  BY <1>1, <1>2 DEF ImportDoes, Ends, Others
<1>5. \A j \in DOMAIN rows : rows[j].path \in RowPaths
  BY DEF RowPaths
<1>6. ASSUME NEW j \in DOMAIN rows', NEW k \in DOMAIN rows', k # j PROVE rows'[k].path # rows'[j].path
  <2>1. CASE j \in DOMAIN rows /\ k \in DOMAIN rows
    BY <1>4, <1>6, <2>1 DEF BundlesOK, Untaken
  <2>2. CASE j \notin DOMAIN rows \/ k \notin DOMAIN rows
    BY <1>4, <1>5, <1>6, <2>2
  <2> QED
    BY <2>1, <2>2
<1>7. ASSUME NEW j \in DOMAIN rows' PROVE Whole(rows[j].path)' \/ Dropping(j)'
  <2>1. Whole(rows'[j].path)
    <3>1. CASE j \in DOMAIN rows
      <4>1. ~Dropping(j)
        <5>1. \A v \in Webs : At(v, "drop") => req[v].kind = "delete"
          BY DEF StoreInv, ReqOK, PlaceOK, At
        <5> QED
          BY <1>2, <1>3, <5>1 DEF Dropping, At
      <4> QED
        BY <1>4, <3>1, <4>1 DEF BundlesOK
    <3>2. CASE j \notin DOMAIN rows
      BY <1>4, <3>2
    <3> QED
      BY <3>1, <3>2
  <2> QED
    BY <1>4, <2>1 DEF Whole
<1>8. ASSUME NEW v \in Webs PROVE FreshBundle(v)'
  <2>1. req'[v].at = "idle" \/ req'[v].kind # "create"
    BY <1>3, <1>4
  <2> QED
    BY <2>1 DEF FreshBundle, At, PushSteps
<1> QED
  BY <1>6, <1>7, <1>8 DEF BundlesOK, Untaken

LEMMA BundlesKept ==
  ASSUME ConfigAssumption, StoreInv, os = "ubuntu", Requesting, BundlesOK, ~crossed', NEW w \in Webs, WebStep(w)
  PROVE  BundlesOK'
<1>0. os' = os /\ RequestHas(w) /\ FreshBundle(w)
  BY WebStepMoves DEF WebMoves, Requesting, BundlesOK
<1>1. CASE Begins(w)
  <2>1. PICK r : Started(w, r) /\ NewRequest(r)
    BY <1>1, BeginsWith
  <2>2. /\ req'[w] = r /\ rows' = rows /\ files' = files /\ req[w].at = "idle"
        /\ \A v \in Others(w) : req'[v] = req[v]
        /\ r.kind = "create" => r.at = "flush" /\ ~Taken(r.path)
    BY <2>1 DEF Started, NewRequest
  <2>3. FreshBundle(w)'
    BY <2>2 DEF FreshBundle, Taken, At
  <2> QED
    BY <1>0, <2>2, <2>3, SameGrow, BundlesStill
<1>2. CASE Flush(w)
  <2>1. FlushDoes(w)
    BY <1>2, FlushEffect
  <2>2. FreshBundle(w)'
    BY <1>0, <2>1 DEF FlushDoes, FreshBundle, Taken, At, PushSteps
  <2> QED
    BY <1>0, <2>1, <2>2, SameGrow, BundlesStill DEF FlushDoes
<1>3. ASSUME UNCHANGED <<rows, files>>, Ends(w) \/ (\E s : Arrives(w, s)), req[w].kind # "create", req[w].at # "drop"
      PROVE  BundlesOK'
  <2>1. (\A v \in Others(w) : req'[v] = req[v]) /\ req'[w].kind # "create"
    BY <1>3 DEF Ends, Arrives
  <2>2. FreshBundle(w)'
    BY <2>1 DEF FreshBundle
  <2> QED
    BY <1>0, <1>3, <2>1, <2>2, SameGrow, BundlesStill
<1>4. CASE Publish(w) \/ CopyMain(w) \/ CopyMeta(w)
  <2>1. req[w].at \in CopySteps /\ CopyFrame(w) /\ (Ends(w) \/ \E s : Arrives(w, s))
    BY <1>4, CopiesMove DEF CopySteps
  <2>2. req[w].kind # "create" /\ req[w].at # "drop"
    BY <1>0, <2>1 DEF RequestHas, CopySteps
  <2> QED
    BY <1>3, <2>1, <2>2 DEF CopyFrame
<1>5. CASE SetActive(w)
  <2>1. req[w].at = "setactive" /\ req[w].kind = "activate" /\ Names(w)
    BY <1>0, <1>5 DEF SetActive, At, RequestHas
  <2>2. SetActiveDoes(w)
    BY <1>5, <2>1, PlainEffects DEF Names
  <2> QED
    BY <1>3, <2>1, <2>2 DEF SetActiveDoes
<1>6. CASE Unseed(w) \/ Unset(w)
  <2>1. req[w].at \in {"unseed", "unset"} /\ UNCHANGED <<rows, files>> /\ (Ends(w) \/ \E s : Arrives(w, s))
    BY <1>6, PlainEffects DEF UnseedDoes, UnsetDoes
  <2> QED
    BY <1>0, <1>3, <2>1 DEF RequestHas
<1>7. CASE Unpack(w)
  <2>1. UnpackDoes(w)
    BY <1>7, PlainEffects
  <2> QED
    BY <1>0, <1>3, <2>1 DEF UnpackDoes, RequestHas
<1>8. CASE Restore(w)
  <2>1. RestoreDoes(w) /\ req[w].kind = "extract"
    BY <1>0, <1>8, RestoreEffect DEF RestoreDoes, RequestHas
  <2>2. /\ rows' = rows /\ files' = files /\ req[w].at = "restore" /\ req'[w].kind # "create"
        /\ \A v \in Others(w) : req'[v] = req[v]
    BY <2>1 DEF RestoreDoes, Ends
  <2>3. FreshBundle(w)'
    BY <2>2 DEF FreshBundle
  <2> QED
    BY <1>0, <2>2, <2>3, SameGrow, BundlesStill
<1> QED
  BY <1>0, <1>1, <1>2, <1>4, <1>5, <1>6, <1>7, <1>8, ShutSteps, BundlesPush, BundlesCommit, BundlesDelete, BundlesImport
     DEF WebStep

----------------------------------------------------------------------------
(* Ubuntu: the seed.                                                       *)

ReseedsAt(w) ==
    \/ At(w, "unseed")
    \/ At(w, "drop") /\ req[w].was
    \/ req[w].kind = "activate" /\ req[w].at \in {"pubmain", "pubmeta", "setactive"}

EditsAt(w, S) == req[w].kind \in {"edit", "extract"} /\ req[w].id = active /\ req[w].at \in S
MainLate == {"meta", "commit", "publish", "pubmain"}
MetaLate == {"commit"} \cup CopySteps
Seeded   == Reseeding \/ SeedFollows

(* Beside a request that steps run only those that push, scan or extract.  *)
LEMMA NoneElse ==
  ASSUME StoreInv, os = "ubuntu", Requesting, ~crossed', NEW w \in Webs, WebStep(w),
         NEW v \in Others(w), req[v].at # "idle"
  PROVE  req[v].kind \in {"create", "edit", "scan", "extract"}
<1>1. CASE Begins(w)
  <2>1. PICK r : Started(w, r) /\ NewRequest(r)
    BY <1>1, BeginsWith
  <2> QED
    BY <2>1 DEF Started, At, Benign
<1>2. CASE ~Begins(w)
  <2>1. req[w].at # "idle"
    BY <1>2, NotIdle
  <2> QED
    BY <2>1 DEF Requesting, Overlaps, Others, At, Benign
<1> QED
  BY <1>1, <1>2

LEMMA OnlyReseeder ==
  ASSUME StoreInv, os = "ubuntu", Requesting, ~crossed', NEW w \in Webs, WebStep(w), Reseeding
  PROVE  ReseedsAt(w)
<1>1. PICK v \in Webs : ReseedsAt(v)
  BY DEF Reseeding, ReseedsAt
<1>2. RequestHas(v)
  BY DEF Requesting
<1>3. req[v].kind \in {"delete", "clear", "activate"} /\ req[v].at # "idle"
  BY <1>1, <1>2 DEF ReseedsAt, At, RequestHas, StoreInv, ReqOK, PlaceOK
<1>4. CASE v # w
  BY <1>3, <1>4, NoneElse DEF Others
<1> QED
  BY <1>1, <1>4

LEMMA CopiedOthers ==
  ASSUME StoreInv, os = "ubuntu", Requesting, ~crossed', NEW w \in Webs, WebStep(w),
         NEW v \in Others(w), req'[v] = req[v]
  PROVE  Copied(v)'
<1>1. req[v].at # "idle" => req[v].kind # "activate"
  BY NoneElse
<1> QED
  BY <1>1 DEF Copied, At

(* A step that leaves the seed and the bundle of the active row, but for   *)
(* what an edit of it has still to copy.                                   *)
LEMMA SeedStill ==
  ASSUME os = "ubuntu", SeedFollows, NEW w \in Webs, \A v \in Others(w) : req'[v] = req[v],
         active' = active, seed' = seed, taken' = taken,
         active # 0 => /\ rows'[active].path = rows[active].path
                       /\ \/ files'[rows[active].path].main = files[rows[active].path].main
                          \/ EditsAt(w, MainLate)'
                       /\ \/ files'[rows[active].path].meta = files[rows[active].path].meta
                          \/ EditsAt(w, MetaLate)',
         EditsAt(w, MainLate) => EditsAt(w, MainLate)',
         EditsAt(w, MetaLate) => EditsAt(w, MetaLate)'
  PROVE  SeedFollows'
<1>1. CASE active = 0
  BY <1>1 DEF SeedFollows, NoSeed
<1>2. CASE active # 0
  <2> DEFINE p == rows[active].path
  <2>1. /\ seed.main = files[p].main \/ EditAt(MainLate) \/ (taken = "seed" /\ seed.main = 0)
        /\ seed.meta = files[p].meta \/ EditAt(MetaLate) \/ (taken = "seed" /\ seed.meta = 0)
    BY <1>2 DEF SeedFollows, SeedCopies, MainLate, MetaLate
  <2>2. EditAt(MainLate) \/ EditsAt(w, MainLate)' => EditAt(MainLate)'
    BY DEF EditAt, EditsAt, Others, MainLate
  <2>3. EditAt(MetaLate) \/ EditsAt(w, MetaLate)' => EditAt(MetaLate)'
    BY DEF EditAt, EditsAt, Others, MetaLate, CopySteps
  <2>4. /\ seed'.main = files'[p].main \/ EditAt(MainLate)' \/ (taken' = "seed" /\ seed'.main = 0)
        /\ seed'.meta = files'[p].meta \/ EditAt(MetaLate)' \/ (taken' = "seed" /\ seed'.meta = 0)
    BY <1>2, <2>1, <2>2, <2>3
  <2>5. rows'[active'].path = p /\ active' # 0
    BY <1>2
  <2> HIDE DEF p
  <2> QED
    BY <2>4, <2>5 DEF SeedFollows, SeedCopies, MainLate, MetaLate
<1> QED
  BY <1>1, <1>2

LEMMA ActiveIsRow ==
  ASSUME StoreInv
  PROVE  active # 0 => active \in DOMAIN rows
  BY DEF StoreInv, RowsOK

(* Requests that begin, number or import rows.                             *)
LEMMA SeedElsewhere ==
  ASSUME ConfigAssumption, StoreInv, os = "ubuntu", Requesting, Seeded, ~crossed', NEW w \in Webs,
         WebStep(w), Begins(w) \/ Flush(w) \/ Import(w)
  PROVE  Seeded' /\ Copied(w)'
<1>0. active # 0 => active \in DOMAIN rows
  BY ActiveIsRow
<1>1. CASE Begins(w)
  <2>1. PICK r : Started(w, r) /\ NewRequest(r)
    BY <1>1, BeginsWith
  <2>2. /\ req[w].at = "idle" /\ req'[w] = r /\ UNCHANGED <<files, seed, taken, rows, active>>
        /\ \A v \in Others(w) : req'[v] = req[v]
        /\ r.at \notin {"pubmeta", "setactive"}
    BY <2>1 DEF Started, NewRequest
  <2>4. SeedFollows
    BY <2>2, OnlyReseeder DEF Seeded, ReseedsAt, At
  <2>5. SeedFollows'
    BY <2>2, <2>4, SeedStill DEF EditsAt, MainLate, MetaLate, CopySteps
  <2> QED
    BY <2>2, <2>5 DEF Seeded, Copied, At
<1>2. CASE Flush(w)
  <2>1. FlushDoes(w) /\ req[w].kind = "create"
    BY <1>2, FlushEffect DEF FlushDoes, StoreInv, ReqOK, PlaceOK
  <2>2. SeedFollows
    BY <2>1, OnlyReseeder DEF Seeded, ReseedsAt, At, FlushDoes
  <2>3. SeedFollows'
    BY <2>1, <2>2, SeedStill DEF EditsAt, FlushDoes
  <2> QED
    BY <2>1, <2>3 DEF Seeded, Copied, FlushDoes
<1>3. CASE Import(w)
  <2>1. ImportDoes(w) /\ req[w].kind = "scan"
    BY <1>3, ImportEffect DEF ImportDoes, Requesting, RequestHas, At
  <2>2. SeedFollows
    BY <2>1, OnlyReseeder DEF Seeded, ReseedsAt, At, ImportDoes
  <2>3. SeedFollows'
    BY <1>0, <2>1, <2>2, SeedStill DEF EditsAt, ImportDoes, Ends
  <2> QED
    BY <2>1, <2>3 DEF Seeded, Copied, ImportDoes, Ends
<1> QED
  BY <1>1, <1>2, <1>3

(* A push writes a bundle: another one, or that of the active row, which   *)
(* it will copy.                                                           *)
LEMMA SeedWrite ==
  ASSUME ConfigAssumption, StoreInv, os = "ubuntu", Requesting, BundlesOK, Seeded, ~crossed', NEW w \in Webs,
         WebStep(w), WriteMain(w) \/ WriteMeta(w)
  PROVE  Seeded' /\ Copied(w)'
<1> DEFINE p == req[w].path
<1>0. active # 0 => active \in DOMAIN rows
  BY ActiveIsRow
<1>1. req[w].at \in {"write", "meta"}
  BY DEF WriteMain, WriteMeta, At
<1>2. req[w].kind \in {"create", "edit"}
  BY <1>1, PushCarries DEF PushSteps
<1>3. SeedFollows
  BY <1>1, <1>2, OnlyReseeder DEF Seeded, ReseedsAt, At
<1>4. /\ req[w].kind = "create" => ~Taken(p)
      /\ req[w].kind = "edit" => Names(w)
  BY <1>1 DEF BundlesOK, FreshBundle, Requesting, RequestHas, PushSteps, EditHas
<1>5. active # 0 /\ rows[active].path = p => req[w].kind = "edit" /\ req[w].id = active /\ p \in DOMAIN files
  <2> SUFFICES ASSUME active # 0, rows[active].path = p
               PROVE  req[w].kind = "edit" /\ req[w].id = active /\ p \in DOMAIN files
    OBVIOUS
  <2>1. req[w].kind = "edit" /\ Names(w)
    BY <1>0, <1>2, <1>4 DEF Taken
  <2>2. req[w].id = active
    BY <1>0, <2>1 DEF Names, BundlesOK, Untaken
  <2>3. Whole(p)
    BY <1>1, <2>1, NamedIsWhole
  <2> QED
    BY <2>1, <2>2, <2>3 DEF Whole
<1>6. CASE WriteMain(w)
  <2>1. WriteDoes(w, p)
    <3>1. WriteDoes(w, PathFor(req[w].path, req[w].id))
      BY <1>6, WriteEffect
    <3>2. PathFor(req[w].path, req[w].id) = p
      BY DEF PathFor
    <3> QED
      BY <3>1, <3>2
  <2>2. /\ UNCHANGED <<seed, taken, rows, active>> /\ req[w].at = "write" /\ req'[w].at = "meta"
        /\ req'[w].kind = req[w].kind /\ req'[w].id = req[w].id
        /\ \A v \in Others(w) : req'[v] = req[v]
        /\ \A q \in DOMAIN files \ {p} : files'[q] = files[q]
        /\ p \in DOMAIN files => files'[p].meta = files[p].meta
    BY <2>1 DEF WriteDoes, Writes
  <2>3. active # 0 => rows[active].path = p \/ rows[active].path \in DOMAIN files \ {p}
                      \/ files'[rows[active].path] = files[rows[active].path]
    <3>1. rows[active].path \notin DOMAIN files => ~(active # 0)
      <4>1. ASSUME NEW v \in Webs, At(v, "drop") PROVE FALSE
        <5>1. req[v].kind = "delete" /\ req[v].at # "idle"
          BY <4>1 DEF StoreInv, ReqOK, PlaceOK, At
        <5>2. v # w
          BY <1>1, <4>1 DEF At
        <5> QED
          BY <5>1, <5>2, NoneElse DEF Others
      <4> QED
        BY <1>0, <4>1 DEF BundlesOK, Dropping, Whole
    <3> QED
      BY <3>1
  <2>4. active # 0 => /\ files'[rows[active].path].main = files[rows[active].path].main \/ EditsAt(w, MainLate)'
                      /\ files'[rows[active].path].meta = files[rows[active].path].meta
    BY <1>5, <2>2, <2>3 DEF EditsAt, MainLate
  <2>5. ~EditsAt(w, MainLate) /\ ~EditsAt(w, MetaLate)
    BY <2>2 DEF EditsAt, MainLate, MetaLate, CopySteps
  <2>6. SeedFollows'
    BY <1>3, <2>2, <2>4, <2>5, SeedStill
  <2> QED
    BY <2>2, <2>6 DEF Seeded, Copied, At
<1>7. CASE WriteMeta(w)
  <2>1. MetaDoes(w)
    BY <1>7, PlainEffects
  <2>2. /\ UNCHANGED <<seed, taken, rows, active>> /\ req[w].at = "meta" /\ req'[w].at = "commit"
        /\ req'[w].kind = req[w].kind /\ req'[w].id = req[w].id
        /\ \A v \in Others(w) : req'[v] = req[v]
        /\ \A q \in DOMAIN files \ {p} : files'[q] = files[q]
        /\ p \in DOMAIN files => files'[p].main = files[p].main
    BY <2>1 DEF MetaDoes, Writes, Arrives
  <2>3. active # 0 => rows[active].path = p \/ rows[active].path \in DOMAIN files \ {p}
    <3>1. rows[active].path \notin DOMAIN files => ~(active # 0)
      <4>1. ASSUME NEW v \in Webs, At(v, "drop") PROVE FALSE
        <5>1. req[v].kind = "delete" /\ req[v].at # "idle"
          BY <4>1 DEF StoreInv, ReqOK, PlaceOK, At
        <5>2. v # w
          BY <1>1, <4>1 DEF At
        <5> QED
          BY <5>1, <5>2, NoneElse DEF Others
      <4> QED
        BY <1>0, <4>1 DEF BundlesOK, Dropping, Whole
    <3> QED
      BY <3>1
  <2>4. active # 0 => /\ files'[rows[active].path].main = files[rows[active].path].main
                      /\ files'[rows[active].path].meta = files[rows[active].path].meta \/ EditsAt(w, MetaLate)'
    BY <1>5, <2>2, <2>3 DEF EditsAt, MetaLate
  <2>5. EditsAt(w, MainLate) => EditsAt(w, MainLate)'
    BY <2>2 DEF EditsAt, MainLate
  <2>6. ~EditsAt(w, MetaLate)
    BY <2>2 DEF EditsAt, MetaLate, CopySteps
  <2>7. SeedFollows'
    BY <1>3, <2>2, <2>4, <2>5, <2>6, SeedStill
  <2> QED
    BY <2>2, <2>7 DEF Seeded, Copied, At
<1> QED
  BY <1>6, <1>7

(* An edit of the active row goes on to copy its bundle.                   *)
LEMMA SeedCommit ==
  ASSUME ConfigAssumption, StoreInv, os = "ubuntu", Requesting, Seeded, ~crossed', NEW w \in Webs,
         WebStep(w), CommitPush(w)
  PROVE  Seeded' /\ Copied(w)'
<1>0. active # 0 => active \in DOMAIN rows
  BY ActiveIsRow
<1>1. req[w].at = "commit"
  BY DEF CommitPush, At
<1>2. req[w].kind \in {"create", "edit"}
  BY <1>1, PushCarries DEF PushSteps
<1>3. SeedFollows
  BY <1>1, <1>2, OnlyReseeder DEF Seeded, ReseedsAt, At
<1>4. /\ req[w].kind = "edit" => Names(w)
      /\ req[w].kind = "create" => req[w].id \notin DOMAIN rows
  BY <1>1 DEF Requesting, RequestHas, PushSteps, EditHas, CreateHas
<1>5. CommitDoes(w)
  BY <1>2, <1>4, CommitEffect DEF Names
<1>6. /\ UNCHANGED <<files, seed, taken, active>> /\ rows'[req[w].id].path = req[w].path
      /\ \A j \in DOMAIN rows \ {req[w].id} : rows'[j] = rows[j]
      /\ \A v \in Others(w) : req'[v] = req[v]
      /\ active = req[w].id => req'[w].at = "publish" /\ req'[w].kind = req[w].kind /\ req'[w].id = active
      /\ req'[w].at \in {"publish", "idle"}
  BY <1>5 DEF CommitDoes, Arrives, Ends
<1>7. active # 0 => rows'[active].path = rows[active].path
  BY <1>0, <1>2, <1>4, <1>6 DEF Names
<1>8. EditsAt(w, MainLate) => EditsAt(w, MainLate)'
  BY <1>6 DEF EditsAt, MainLate
<1>9. EditsAt(w, MetaLate) => EditsAt(w, MetaLate)'
  BY <1>6 DEF EditsAt, MetaLate, CopySteps
<1>10. SeedFollows'
  BY <1>3, <1>6, <1>7, <1>8, <1>9, SeedStill
<1> QED
  BY <1>6, <1>10 DEF Seeded, Copied, At

(* The three steps of a copy.                                              *)
LEMMA SeedCopy ==
  ASSUME StoreInv, os = "ubuntu", Requesting, BundlesOK, Seeded, \A v \in Webs : Copied(v),
         ~crossed', NEW w \in Webs, WebStep(w), Publish(w) \/ CopyMain(w) \/ CopyMeta(w)
  PROVE  Seeded' /\ Copied(w)'
<1> DEFINE p == req[w].path
<1>1. /\ req[w].at \in CopySteps /\ CopyFrame(w)
      /\ \A v \in Others(w) : req'[v] = req[v]
  BY CopiesMove DEF CopySteps, Ends, Arrives
<1>2. /\ Names(w)
      /\ req[w].kind = "activate" \/ (req[w].kind \in {"edit", "extract"} /\ req[w].id = active)
  BY <1>1 DEF Requesting, RequestHas
<1>3. req[w].id # 0
  BY <1>2 DEF Names, StoreInv, RowsOK, Ids
<1>4. Whole(p)
  BY <1>1, <1>2, NamedIsWhole DEF CopySteps
<1>5. (Publish(w) => PublishDoes(w)) /\ (CopyMain(w) => CopyMainDoes(w)) /\ (CopyMeta(w) => CopyMetaDoes(w))
  BY <1>4, CopyEffects
<1>6. req[w].kind \in {"edit", "extract"} => rows[active].path = p /\ rows'[active'].path = p /\ active # 0 /\ active' = active
  BY <1>1, <1>2, <1>3 DEF Names, CopyFrame
<1>7. files' = files
  BY <1>1 DEF CopyFrame
<1> HIDE DEF p
<1>8. CASE Publish(w)
  <2>1. req[w].at = "publish" /\ req'[w].at = "pubmain" /\ req'[w].kind = req[w].kind /\ req'[w].id = req[w].id
    BY <1>5, <1>8 DEF PublishDoes, Arrives
  <2>2. CASE req[w].kind = "activate"
    BY <2>1, <2>2 DEF Seeded, Reseeding, At, Copied
  <2>3. CASE req[w].kind \in {"edit", "extract"}
    <3>1. EditAt(MainLate)' /\ EditAt(MetaLate)'
      BY <1>2, <1>6, <2>1, <2>3 DEF EditAt, MainLate, MetaLate, CopySteps
    <3>2. SeedFollows'
      BY <1>6, <2>3, <3>1 DEF SeedFollows, SeedCopies, MainLate, MetaLate
    <3> QED
      BY <2>1, <2>3, <3>2 DEF Seeded, Copied
  <2> QED
    BY <1>2, <2>2, <2>3
<1>9. CASE CopyMain(w)
  <2>1. /\ req[w].at = "pubmain" /\ req'[w].at = "pubmeta" /\ req'[w].kind = req[w].kind /\ req'[w].id = req[w].id
        /\ seed'.main = files[p].main /\ seed'.meta = seed.meta /\ taken' = taken /\ req'[w].path = p
    BY <1>5, <1>9 DEF CopyMainDoes, Arrives, p
  <2>2. CASE req[w].kind = "activate"
    BY <1>7, <2>1, <2>2 DEF Seeded, Reseeding, At, Copied
  <2>3. CASE req[w].kind \in {"edit", "extract"}
    <3>1. EditAt(MetaLate)'
      BY <1>2, <1>6, <2>1, <2>3 DEF EditAt, MetaLate, CopySteps
    <3>2. SeedFollows'
      BY <1>6, <1>7, <2>1, <2>3, <3>1 DEF SeedFollows, SeedCopies, MetaLate
    <3> QED
      BY <2>1, <2>3, <3>2 DEF Seeded, Copied
  <2> QED
    BY <1>2, <2>2, <2>3
<1>10. CASE CopyMeta(w)
  <2>1. CopyMetaDoes(w) /\ req[w].at = "pubmeta"
    BY <1>5, <1>10 DEF CopyMetaDoes
  <2>2. CASE req[w].kind = "activate"
    <3>1. req'[w].at = "setactive" /\ req'[w].kind = "activate" /\ req'[w].path = p
          /\ seed'.meta = files[p].meta /\ seed'.main = seed.main
      BY <2>1, <2>2 DEF CopyMetaDoes, Arrives, p
    <3>2. seed.main = files[p].main
      BY <2>1, <2>2 DEF Copied, p
    <3> QED
      BY <1>7, <3>1, <3>2 DEF Seeded, Reseeding, At, Copied
  <2>3. CASE req[w].kind \in {"edit", "extract"}
    <3>1. /\ req'[w].at = "idle" /\ req'[w].kind = "none" /\ seed'.meta = files[p].meta
          /\ seed'.main = seed.main /\ taken' = (IF seed.main = 0 THEN taken ELSE "nothing")
      BY <2>1, <2>3 DEF CopyMetaDoes, Ends, p
    <3>2. SeedFollows
      BY <2>1, <2>3, OnlyReseeder DEF Seeded, ReseedsAt, At
    <3>3. seed.main = files[p].main \/ EditAt(MainLate) \/ (taken = "seed" /\ seed.main = 0)
      BY <1>6, <2>3, <3>2 DEF SeedFollows, SeedCopies, MainLate
    <3>4. EditAt(MainLate) => EditAt(MainLate)'
      BY <1>1, <1>6, <2>1, <2>3 DEF EditAt, MainLate, Others
    <3>5. SeedFollows'
      BY <1>6, <1>7, <2>3, <3>1, <3>3, <3>4 DEF SeedFollows, SeedCopies, MainLate
    <3> QED
      BY <3>1, <3>5 DEF Seeded, Copied, At
  <2> QED
    BY <1>2, <2>2, <2>3
<1> QED
  BY <1>8, <1>9, <1>10

(* An extraction takes the seed away, or leaves it.                        *)
LEMMA SeedExtract ==
  ASSUME StoreInv, os = "ubuntu", Requesting, Seeded, ~crossed', NEW w \in Webs, WebStep(w),
         Unpack(w) \/ Restore(w)
  PROVE  Seeded' /\ Copied(w)'
<1>1. req[w].at \in {"unpack", "restore"} /\ req[w].kind = "extract"
  BY DEF Unpack, Restore, At, Requesting, RequestHas
<1>2. SeedFollows
  BY <1>1, OnlyReseeder DEF Seeded, ReseedsAt, At
<1>3. ~EditsAt(w, MainLate) /\ ~EditsAt(w, MetaLate)
  BY <1>1 DEF EditsAt, MainLate, MetaLate, CopySteps
<1>4. CASE Unpack(w)
  <2>1. UnpackDoes(w)
    BY <1>4, PlainEffects
  <2>2. /\ UNCHANGED <<files, rows, active>> /\ \A v \in Others(w) : req'[v] = req[v]
        /\ req'[w].kind # "activate"
        /\ UNCHANGED <<seed, taken>> \/ (seed' = NoSeed /\ taken' = IF seed = NoSeed THEN taken ELSE "seed")
    BY <1>1, <2>1 DEF UnpackDoes, Wipe, Ends, Arrives
  <2>3. CASE UNCHANGED <<seed, taken>>
    <3>1. SeedFollows'
      BY <1>2, <1>3, <2>2, <2>3, SeedStill
    <3> QED
      BY <2>2, <3>1 DEF Seeded, Copied
  <2>4. CASE seed' = NoSeed /\ taken' = "seed"
    <3>1. seed'.main = 0 /\ seed'.meta = 0
      BY <2>4 DEF NoSeed
    <3>2. SeedFollows'
      BY <2>4, <3>1 DEF SeedFollows, SeedCopies, NoSeed
    <3> QED
      BY <2>2, <3>2 DEF Seeded, Copied
  <2> QED
    BY <2>2, <2>3, <2>4
<1>5. CASE Restore(w)
  <2>1. RestoreDoes(w)
    BY <1>5, RestoreEffect
  <2>2. /\ UNCHANGED <<files, seed, taken, rows, active>> /\ \A v \in Others(w) : req'[v] = req[v]
        /\ req'[w].kind # "activate"
    BY <1>1, <2>1 DEF RestoreDoes, Ends
  <2>3. SeedFollows'
    BY <1>2, <1>3, <2>2, SeedStill
  <2> QED
    BY <2>2, <2>3 DEF Seeded, Copied
<1> QED
  BY <1>4, <1>5

(* The active row is set last, unset first and removed with its seed.      *)
LEMMA SeedChange ==
  ASSUME StoreInv, os = "ubuntu", Requesting, BundlesOK, Seeded, \A v \in Webs : Copied(v),
         ~crossed', NEW w \in Webs, WebStep(w),
         SetActive(w) \/ Unlink(w) \/ Drop(w) \/ Unseed(w) \/ Unset(w)
  PROVE  Seeded' /\ Copied(w)'
<1>0. (active # 0 => active \in DOMAIN rows) /\ 0 \notin DOMAIN rows
  BY ActiveIsRow DEF StoreInv, RowsOK, Ids
<1>1. RequestHas(w)
  BY DEF Requesting
<1>2. CASE SetActive(w)
  <2>1. req[w].at = "setactive" /\ req[w].kind = "activate" /\ Names(w)
    BY <1>1, <1>2 DEF SetActive, At, RequestHas
  <2>2. SetActiveDoes(w)
    BY <1>2, <2>1, PlainEffects DEF Names
  <2>3. seed.main = files[req[w].path].main /\ seed.meta = files[req[w].path].meta
    BY <2>1 DEF Copied, At
  <2>4. /\ active' = req[w].id /\ active' # 0 /\ rows'[active'].path = req[w].path
        /\ files' = files /\ seed' = seed /\ req'[w].at = "idle"
    BY <1>0, <2>1, <2>2 DEF SetActiveDoes, Names, Ends
  <2>5. SeedFollows'
    BY <2>3, <2>4 DEF SeedFollows, SeedCopies
  <2> QED
    BY <2>4, <2>5 DEF Seeded, Copied, At
<1>3. CASE Unlink(w)
  <2>1. UnlinkDoes(w) /\ req[w].at = "unlink" /\ DeleteHas(w)
    BY <1>1, <1>3, PlainEffects DEF UnlinkDoes, RequestHas
  <2>2. req[w].kind = "delete"
    BY <2>1 DEF StoreInv, ReqOK, PlaceOK
  <2>3. /\ req'[w].at = "drop" /\ req'[w].was = req[w].was /\ UNCHANGED <<seed, taken, rows, active>>
        /\ \A v \in Others(w) : req'[v] = req[v]
        /\ DOMAIN files' = DOMAIN files \ {req[w].path} /\ \A p \in DOMAIN files' : files'[p] = files[p]
    BY <2>1 DEF UnlinkDoes, Arrives
  <2>4. CASE req[w].was
    BY <2>3, <2>4 DEF Seeded, Reseeding, Copied, At
  <2>5. CASE ~req[w].was
    <3>1. SeedFollows
      BY <2>1, <2>2, OnlyReseeder DEF Seeded, ReseedsAt, At
    <3>2. active # req[w].id /\ Names(w)
      BY <2>1, <2>5 DEF DeleteHas
    <3>3. ~Dropping(active)
      <4>1. Alone(w)
        BY <2>1, <2>2, AloneThen DEF Requesting, Systems
      <4> QED
        BY <2>1, <4>1 DEF Dropping, Alone, Others, At
    <3>4. active # 0 => rows[active].path \in DOMAIN files'
      BY <1>0, <2>3, <3>2, <3>3 DEF BundlesOK, Untaken, Whole, Names
    <3>5. SeedFollows'
      BY <2>2, <2>3, <3>1, <3>4, SeedStill DEF EditsAt
    <3> QED
      BY <2>3, <3>5 DEF Seeded, Copied, At
  <2> QED
    BY <2>4, <2>5
<1>4. CASE Drop(w)
  <2>1. req[w].at = "drop" /\ DeleteHas(w)
    BY <1>1, <1>4 DEF Drop, At, RequestHas
  <2>2. DropDoes(w) /\ req[w].kind = "delete"
    BY <1>4, <2>1, DropEffect DEF DeleteHas, StoreInv, ReqOK, PlaceOK
  <2>3. CASE req[w].was
    <3>1. req'[w].at = "unseed"
      BY <2>2, <2>3 DEF DropDoes, Arrives
    <3> QED
      BY <3>1 DEF Seeded, Reseeding, Copied, At
  <2>4. CASE ~req[w].was
    <3>1. SeedFollows
      BY <2>1, <2>2, <2>4, OnlyReseeder DEF Seeded, ReseedsAt, At
    <3>2. /\ active' = active /\ active # req[w].id /\ UNCHANGED <<files, seed, taken>> /\ req'[w].at = "idle"
          /\ DOMAIN rows' = DOMAIN rows \ {req[w].id} /\ \A j \in DOMAIN rows' : rows'[j] = rows[j]
          /\ \A v \in Others(w) : req'[v] = req[v]
      BY <2>1, <2>2, <2>4 DEF DropDoes, DeleteHas, Ends
    <3>3. SeedFollows'
      BY <1>0, <2>2, <3>1, <3>2, SeedStill DEF EditsAt
    <3> QED
      BY <3>2, <3>3 DEF Seeded, Copied, At
  <2> QED
    BY <2>3, <2>4
<1>5. CASE Unseed(w)
  <2>1. UnseedDoes(w) /\ active = 0
    BY <1>1, <1>5, PlainEffects DEF UnseedDoes, RequestHas, At
  <2>2. active' = 0 /\ seed' = NoSeed /\ req'[w].at = "idle"
    BY <2>1 DEF UnseedDoes, Ends
  <2> QED
    BY <2>2 DEF Seeded, SeedFollows, NoSeed, Copied, At
<1>6. CASE Unset(w)
  <2>1. req'[w].at = "unseed"
    BY <1>6, PlainEffects DEF UnsetDoes, Arrives
  <2> QED
    BY <2>1 DEF Seeded, Reseeding, Copied, At
<1> QED
  BY <1>2, <1>3, <1>4, <1>5, <1>6

LEMMA UbuntuKept ==
  ASSUME ConfigAssumption, StoreInv, os = "ubuntu", Requesting, BundlesOK, UbuntuSeed, ~crossed',
         NEW w \in Webs, WebStep(w)
  PROVE  UbuntuSeed'
<1>1. Seeded /\ \A v \in Webs : Copied(v)
  BY DEF UbuntuSeed, Seeded
<1>2. Seeded' /\ Copied(w)'
  <2>1. RequestHas(w)
    BY DEF Requesting
  <2> QED
    BY <1>1, <2>1, ShutSteps, SeedElsewhere, SeedWrite, SeedCommit, SeedCopy, SeedExtract, SeedChange
       DEF WebStep
<1>3. \A v \in Others(w) : req'[v] = req[v]
  <2>1. CASE Begins(w)
    BY <2>1, BeginsWith DEF Started
  <2>2. CASE ~Begins(w)
    BY <2>2, StepSound DEF Sound, Carries
  <2> QED
    BY <2>1, <2>2
<1>4. \A v \in Others(w) : Copied(v)'
  BY <1>3, CopiedOthers
<1> QED
  BY <1>2, <1>4 DEF UbuntuSeed, Seeded, Others

----------------------------------------------------------------------------
(* All families together.                                                  *)

LEMMA CrossedStays ==
  ASSUME StoreInv, os # "proxmox", NEW w \in Webs, WebStep(w), ~crossed'
  PROVE  ~crossed
<1>1. CASE Begins(w)
  BY <1>1, BeginsWith DEF Started
<1>2. CASE ~Begins(w)
  BY <1>2 DEF WebStep, Flush, WriteMain, WriteMeta, Mirror, CommitPush, Publish, CopyMain, CopyMeta,
              SetActive, Answer, Unlink, Drop, Unseed, Unset, Unpack, Restore, BootRead, BootTruncate, BootRewrite, Import
<1> QED
  BY <1>1, <1>2

LEMMA ConfigStill ==
  ASSUME ConfigInv, UNCHANGED cvars
  PROVE  ConfigInv'
<1>1. UNCHANGED <<os, rows, files, active, seed, taken, lock, req, crossed>>
  BY DEF cvars
<1>2. Overlaps => Overlaps'
  BY <1>1 DEF Overlaps, At, Benign
<1>3. ASSUME NEW w \in Webs PROVE RequestHas(w) => RequestHas(w)'
  BY <1>1 DEF RequestHas, FamilySteps, EditHas, CreateHas, DeleteHas, Names, At, RowPaths
<1>4. CustomInv => CustomInv'
  BY <1>1 DEF CustomInv, Untaken, Holds, Settling, At
<1>5. EsxiInv => EsxiInv'
  BY <1>1 DEF EsxiInv, WriterFits, SeedFits, At
<1>6. BundlesOK => BundlesOK'
  BY <1>1 DEF BundlesOK, Untaken, Whole, Dropping, FreshBundle, Taken, At
<1>7. UbuntuSeed => UbuntuSeed'
  <2>1. Reseeding => Reseeding'
    BY <1>1 DEF Reseeding, At
  <2>2. SeedFollows => SeedFollows'
    BY <1>1 DEF SeedFollows, NoSeed, SeedCopies, EditAt
  <2>3. ASSUME NEW w \in Webs PROVE Copied(w) => Copied(w)'
    BY <1>1 DEF Copied, At
  <2> QED
    BY <2>1, <2>2, <2>3 DEF UbuntuSeed
<1> QED
  BY <1>1, <1>2, <1>3, <1>4, <1>5, <1>6, <1>7 DEF ConfigInv

LEMMA ConfigAtFirst ==
  ASSUME ConfigAssumption, Init
  PROVE  ConfigInv
<1>1. /\ os \in Systems /\ rows = [i \in {} |-> 0] /\ active = 0 /\ seed = NoSeed /\ taken = "nothing"
      /\ req = [w \in Webs |-> NoReq]
  BY DEF Init, ConfigInit
<1>2. DOMAIN rows = {} /\ \A w \in Webs : req[w].at = "idle" /\ req[w].kind = "none"
  BY <1>1 DEF NoReq
<1>3. CASE os # "proxmox"
  <2>1. Overlaps /\ \A w \in Webs : RequestHas(w)
    <3>1. "idle" \in FamilySteps
      BY <1>1, <1>3, Families DEF CommonSteps
    <3> QED
      BY <1>2, <3>1 DEF Overlaps, RequestHas, At, PushSteps, CopySteps, BootSteps
  <2>2. CustomInv
    BY <1>2 DEF CustomInv, At
  <2>3. EsxiInv
    BY <1>1, <1>2 DEF EsxiInv, WriterFits, SeedFits, NoSeed, At
  <2>4. BundlesOK
    BY <1>2 DEF BundlesOK, FreshBundle
  <2>5. UbuntuSeed
    BY <1>1, <1>2 DEF UbuntuSeed, SeedFollows, Copied
  <2> QED
    BY <2>1, <2>2, <2>3, <2>4, <2>5 DEF ConfigInv
<1> QED
  BY <1>3 DEF ConfigInv

LEMMA ConfigKept ==
  ASSUME ConfigAssumption, StoreInv, ConfigInv, [Next]_vars
  PROVE  ConfigInv'
<1>1. ASSUME NEW w \in Webs, WebStep(w) PROVE ConfigInv'
  <2> SUFFICES ASSUME os' # "proxmox", ~crossed'
               PROVE  /\ Requesting'
                      /\ os' = "custom" => CustomInv'
                      /\ os' = "esxi" => EsxiInv'
                      /\ os' = "ubuntu" => BundlesOK' /\ UbuntuSeed'
    BY DEF ConfigInv, Requesting
  <2>1. os' = os
    BY <1>1, WebStepMoves DEF WebMoves
  <2>2. ~crossed
    BY <1>1, <2>1, CrossedStays
  <2>3. /\ Requesting
        /\ os = "custom" => CustomInv
        /\ os = "esxi" => EsxiInv
        /\ os = "ubuntu" => BundlesOK /\ UbuntuSeed
    BY <2>1, <2>2 DEF ConfigInv, Requesting
  <2> QED
    BY <1>1, <2>1, <2>3, RequestingKept, CustomKept, EsxiKept, BundlesKept, UbuntuKept
<1>2. ASSUME NEW w \in Webs, FlushUpload(w) \/ Send(w) \/ SendFails(w) \/ Record(w) PROVE ConfigInv'
  <2>1. req[w].at \in {"upload", "send", "record"} /\ os' = os /\ crossed' = crossed
    BY <1>2 DEF FlushUpload, Send, SendFails, Record, At
  <2>2. os # "proxmox" /\ ~crossed => FALSE
    <3> SUFFICES ASSUME os # "proxmox", ~crossed PROVE FALSE
      OBVIOUS
    <3>1. req[w].at \in FamilySteps /\ os \in Systems
      BY DEF ConfigInv, RequestHas, StoreInv, CountsOK
    <3> QED
      BY <2>1, <3>1, Families
  <2> QED
    BY <2>1, <2>2 DEF ConfigInv
<1>3. ASSUME NEW t \in Tasks, TaskStep(t) PROVE UNCHANGED cvars
  BY <1>3 DEF TaskStep, Start, Load, Check, Prepare, Prepared, AssistantFails, Measure, Replace, Fail, Menus,
              Done, Killed, TaskFrame
<1>4. Rest \/ UNCHANGED vars => UNCHANGED cvars
  BY DEF Rest, vars
<1> QED
  BY <1>1, <1>2, <1>3, <1>4, ConfigStill DEF Next

(* Of a version whose system is not Proxmox, whose requests have disturbed *)
(* nobody: what each request still finds, and what its family keeps true   *)
(* between the steps of a request.                                         *)
THEOREM ConfigsHold == Spec => []ConfigInv
<1> USE ConfigAssumption
<1>1. Init => ConfigInv
  BY ConfigAtFirst
<1>2. IInv /\ ConfigInv /\ [Next]_vars => ConfigInv'
  BY ConfigKept DEF IInv
<1> QED
  BY <1>1, <1>2, Invariance, PTL DEF Spec

(* What a machine that boots is given is the active configuration          *)
(* (publish_ubuntu_cloud_config, esxi_autoconfig), but for what an         *)
(* extraction took away.                                                   *)
THEOREM SeedIsActive == Spec => []SeedOfActive
<1>1. ASSUME IInv, ConfigInv PROVE SeedOfActive
  <2> SUFFICES ASSUME QuietWeb, ~crossed
               PROVE  /\ os = "ubuntu" =>
                            IF active = 0 THEN seed = NoSeed
                            ELSE taken # "seed" =>
                                     [main |-> seed.main, meta |-> seed.meta] = files[rows[active].path]
                      /\ os = "esxi" /\ taken # "cfg" =>
                            /\ seed.body /\ (seed.ks # NoPath => active # 0)
                            /\ active # 0 => seed.ks # NoPath \/ taken = "ks"
    BY DEF SeedOfActive
  <2>1. \A w \in Webs : req[w].at = "idle"
    BY DEF QuietWeb, At
  <2>2. ASSUME os = "esxi", taken # "cfg"
        PROVE  /\ seed.body /\ (seed.ks # NoPath => active # 0)
               /\ active # 0 => seed.ks # NoPath \/ taken = "ks"
    BY <1>1, <2>1, <2>2 DEF ConfigInv, EsxiInv, SeedFits, CommonSteps
  <2>3. ASSUME os = "ubuntu"
        PROVE  IF active = 0 THEN seed = NoSeed
               ELSE taken # "seed" => [main |-> seed.main, meta |-> seed.meta] = files[rows[active].path]
    <3>1. BundlesOK /\ UbuntuSeed /\ StoreInv
      BY <1>1, <2>3 DEF ConfigInv, IInv
    <3>2. SeedFollows
      BY <2>1, <3>1 DEF UbuntuSeed, Reseeding, At
    <3>3. CASE active # 0 /\ taken # "seed"
      <4> DEFINE p == rows[active].path
      <4>1. p \in DOMAIN files
        BY <2>1, <3>1, <3>3, ActiveIsRow DEF BundlesOK, Dropping, At, Whole
      <4>2. files[p] \in FileContent
        BY <3>1, <4>1 DEF StoreInv, FilesOK
      <4>3. seed.main = files[p].main /\ seed.meta = files[p].meta
        BY <2>1, <3>2, <3>3 DEF SeedFollows, SeedCopies, EditAt, CopySteps
      <4> HIDE DEF p
      <4>4. [main |-> seed.main, meta |-> seed.meta] = files[p]
        BY <4>2, <4>3 DEF FileContent
      <4> QED
        BY <3>3, <4>4 DEF p
    <3> QED
      BY <3>2, <3>3 DEF SeedFollows
  <2> QED
    BY <2>2, <2>3
<1> QED
  BY <1>1, Invariance, ConfigsHold, PTL

(* A configuration of a custom type has its file to itself                 *)
(* (the names that config_create and config_update choose, and the rows    *)
(* that scan_and_import adds).                                             *)
THEOREM CustomFilesAreOwn == Spec => []CustomFileIsOwn
<1>1. ASSUME ConfigInv PROVE CustomFileIsOwn
  <2>1. os = "custom" /\ QuietWeb /\ ~crossed => CustomInv /\ \A i : ~Settling(i)
    BY <1>1 DEF ConfigInv, QuietWeb, At, Settling
  <2> QED
    BY <2>1 DEF CustomFileIsOwn, CustomInv, Untaken, Holds
<1> QED
  BY <1>1, ConfigsHold, PTL
=============================================================================
