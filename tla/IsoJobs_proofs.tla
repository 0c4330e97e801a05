--------------------------- MODULE IsoJobs_proofs ---------------------------
(***************************************************************************)
(* Proofs about IsoJobs for any number of versions, jobs, file names and   *)
(* pool processes.                                                         *)
(***************************************************************************)
EXTENDS IsoJobs, TLAPS

\* A row that does not exist yet has no job; from its creation on a job has a
\* target.
Created ==
  \A j \in Jobs : /\ pc[j] = "none" => ustatus[j] = "none"
                  /\ pc[j] # "none" => target[j] \in Versions

\* A job is linked to the version its message names, or detached.
LinkIsTarget == \A j \in Jobs : link[j] \in {NoVersion, target[j]}

\* A live job whose target row exists is linked to it, unless that row is a
\* later one with the same id.
LiveIsLinked ==
  \A j \in Jobs : pc[j] \in Live /\ Exists(target[j]) /\ target[j] \notin reused =>
    link[j] = target[j]

\* A committed task has settled its row.
MenusSettled == \A j \in Jobs : pc[j] = "menus" => ~Active(j)

\* Together with TypeOK these make the two invariants of the model inductive.
IInv ==
  /\ TypeOK
  /\ Created
  /\ LinkIsTarget
  /\ LiveIsLinked
  /\ MenusSettled
  /\ ExtractingHasActiveJob
  /\ ActiveJobIsLive
-----------------------------------------------------------------------------
\* The initial state is well typed.
LEMMA TypeAtStart == ASSUME Init PROVE TypeOK
<1>1. startDue \in BOOLEAN
  BY Zenon DEF Init
<1>2. QED
  BY <1>1 DEF Init, TypeOK, VersionStatus, UploadStatus, Places

\* Every action keeps the types.
LEMMA TypeStep == ASSUME TypeOK, [Next]_vars PROVE TypeOK'
<1> USE DEF TypeOK, VersionStatus, UploadStatus, Places, Live, InPool
<1>1. ASSUME NEW v \in Versions, NEW n \in Names \cup {NoIso}, NEW manual \in BOOLEAN,
            UploadIso(v, n, manual)
     PROVE  TypeOK'
  BY <1>1 DEF UploadIso, taskVars
<1>2. ASSUME NEW v \in Versions, NEW enabled \in BOOLEAN, SetPurge(v, enabled) PROVE TypeOK'
  BY <1>2 DEF SetPurge, taskVars
<1>3. ASSUME NEW v \in Versions, ViewDetail(v) PROVE TypeOK'
  BY <1>3 DEF ViewDetail, taskVars
<1>4. ASSUME NEW v \in Versions, UploadBootFile(v) PROVE TypeOK'
  BY <1>4 DEF UploadBootFile, taskVars
<1>5. ASSUME NEW v \in Versions, DeleteIso(v) PROVE TypeOK'
  BY <1>5 DEF DeleteIso, taskVars
<1>6. ASSUME NEW v \in Versions, NEW j \in Jobs, Extract(v, j) PROVE TypeOK'
  BY <1>6 DEF Extract
<1>7. ASSUME NEW j \in Jobs, KillJob(j) PROVE TypeOK'
  BY <1>7 DEF KillJob, Unfinished
<1>8. ASSUME KillAll PROVE TypeOK'
  BY <1>8 DEF KillAll, Unfinished, Active
<1>9. ASSUME WebStart PROVE TypeOK'
  BY <1>9 DEF WebStart, Stale, Active, taskVars
<1>10. ASSUME NEW j \in Jobs, Enqueue(j) PROVE TypeOK'
  BY <1>10 DEF Enqueue, dbVars
<1>11. ASSUME NEW j \in Jobs, EnqueueFails(j) PROVE TypeOK'
  BY <1>11 DEF EnqueueFails
<1>12. ASSUME NEW j \in Jobs, Start(j) PROVE TypeOK'
  BY <1>12 DEF Start
<1>13. ASSUME NEW j \in Jobs, ExtractOk(j) PROVE TypeOK'
  BY <1>13 DEF ExtractOk, Move, dbVars
<1>14. ASSUME NEW j \in Jobs, TaskFails(j) PROVE TypeOK'
  BY <1>14 DEF TaskFails, dbVars
<1>15. ASSUME NEW j \in Jobs, PurgeIso(j) PROVE TypeOK'
  BY <1>15 DEF PurgeIso, Move, dbVars
<1>16. ASSUME NEW j \in Jobs, CommitResult(j) PROVE TypeOK'
  BY <1>16 DEF CommitResult, RowMatched
<1>17. ASSUME NEW j \in Jobs, TaskReturns(j) PROVE TypeOK'
  BY <1>17 DEF TaskReturns, End, dbVars
<1>18. ASSUME NEW j \in Jobs, Settle(j) PROVE TypeOK'
  BY <1>18 DEF Settle, Failed, End
<1>19. ASSUME NEW j \in Jobs, DieInPool(j) PROVE TypeOK'
  BY <1>19 DEF DieInPool, End, dbVars
<1>20. ASSUME NEW j \in Jobs, WebCrash(j) PROVE TypeOK'
  BY <1>20 DEF WebCrash, dbVars
<1>21. CASE UNCHANGED vars
  BY <1>21 DEF vars
<1>22. QED
  BY <1>1, <1>2, <1>3, <1>4, <1>5, <1>6, <1>7, <1>8, <1>9, <1>10, <1>11, <1>12, <1>13,
     <1>14, <1>15, <1>16, <1>17, <1>18, <1>19, <1>20, <1>21
     DEF Next, Web, Progress, Fault, DeliverRevoke, SettleLocked, WorkerCrash
-----------------------------------------------------------------------------
\* NULL in uploads.iso_version_id is no version id.
LEMMA VersionIsNotNull == \A v \in Versions : v # NoVersion
BY IsoJobsAssumption

\* Only Extract takes a job from "none", and it sets the target.
LEMMA CreatedStep ==
  ASSUME TypeOK, Created, [Next]_vars
  PROVE  Created'
<1> USE DEF TypeOK, VersionStatus, UploadStatus, Places, Live, InPool
<1>1. CASE \/ \E v \in Versions, n \in Names \cup {NoIso}, manual \in BOOLEAN :
                UploadIso(v, n, manual)
           \/ \E v \in Versions, enabled \in BOOLEAN : SetPurge(v, enabled)
           \/ \E v \in Versions : ViewDetail(v)
           \/ \E v \in Versions : UploadBootFile(v)
           \/ \E v \in Versions : DeleteIso(v)
  BY <1>1 DEF UploadIso, taskVars, SetPurge, ViewDetail, UploadBootFile, DeleteIso, Created
<1>2. ASSUME NEW v \in Versions, NEW j \in Jobs, Extract(v, j) PROVE Created'
  BY <1>2 DEF Extract, Created
<1>3. ASSUME NEW j \in Jobs, KillJob(j) PROVE Created'
  BY <1>3 DEF KillJob, Unfinished, Created
<1>4. ASSUME KillAll PROVE Created'
  BY <1>4 DEF KillAll, Unfinished, Active, Created
<1>5. ASSUME WebStart PROVE Created'
  BY <1>5 DEF WebStart, Stale, Active, taskVars, Created
<1>6. ASSUME NEW j \in Jobs, Enqueue(j) PROVE Created'
  BY <1>6 DEF Enqueue, dbVars, Created
<1>7. ASSUME NEW j \in Jobs, EnqueueFails(j) PROVE Created'
  BY <1>7 DEF EnqueueFails, Created
<1>8. ASSUME NEW j \in Jobs, Start(j) PROVE Created'
  BY <1>8 DEF Start, Created
<1>9. ASSUME NEW j \in Jobs, ExtractOk(j) PROVE Created'
  BY <1>9 DEF ExtractOk, Move, dbVars, Created
<1>10. ASSUME NEW j \in Jobs, TaskFails(j) PROVE Created'
  BY <1>10 DEF TaskFails, dbVars, Created
<1>11. ASSUME NEW j \in Jobs, PurgeIso(j) PROVE Created'
  BY <1>11 DEF PurgeIso, Move, dbVars, Created
<1>12. ASSUME NEW j \in Jobs, CommitResult(j) PROVE Created'
  BY <1>12 DEF CommitResult, RowMatched, Created
<1>13. ASSUME NEW j \in Jobs, TaskReturns(j) PROVE Created'
  BY <1>13 DEF TaskReturns, End, dbVars, Created
<1>14. ASSUME NEW j \in Jobs, Settle(j) PROVE Created'
  BY <1>14 DEF Settle, Failed, End, Created
<1>15. ASSUME NEW j \in Jobs, DieInPool(j) PROVE Created'
  BY <1>15 DEF DieInPool, End, dbVars, Created
<1>16. ASSUME NEW j \in Jobs, WebCrash(j) PROVE Created'
  BY <1>16 DEF WebCrash, dbVars, Created
<1>17. CASE UNCHANGED vars
  BY <1>17 DEF vars, Created
<1>18. QED
  BY <1>1, <1>2, <1>3, <1>4, <1>5, <1>6, <1>7, <1>8, <1>9, <1>10, <1>11, <1>12, <1>13,
     <1>14, <1>15, <1>16, <1>17
     DEF Next, Web, Progress, Fault, DeliverRevoke, SettleLocked, WorkerCrash

\* Extract links a job to its target; DeleteIso detaches it.
LEMMA LinkIsTargetStep ==
  ASSUME TypeOK, Created, LinkIsTarget, [Next]_vars
  PROVE  LinkIsTarget'
<1> USE DEF TypeOK, VersionStatus, UploadStatus, Places, Live, InPool
<1>1. CASE \/ \E v \in Versions, n \in Names \cup {NoIso}, manual \in BOOLEAN :
                UploadIso(v, n, manual)
           \/ \E v \in Versions, enabled \in BOOLEAN : SetPurge(v, enabled)
           \/ \E v \in Versions : ViewDetail(v)
           \/ \E v \in Versions : UploadBootFile(v)
           \/ \E j \in Jobs : KillJob(j)
           \/ KillAll
           \/ WebStart
           \/ \E j \in Jobs : Enqueue(j)
           \/ \E j \in Jobs : EnqueueFails(j)
           \/ \E j \in Jobs : Start(j)
           \/ \E j \in Jobs : ExtractOk(j)
           \/ \E j \in Jobs : TaskFails(j)
           \/ \E j \in Jobs : PurgeIso(j)
           \/ \E j \in Jobs : CommitResult(j)
           \/ \E j \in Jobs : TaskReturns(j)
           \/ \E j \in Jobs : Settle(j)
           \/ \E j \in Jobs : DieInPool(j)
           \/ \E j \in Jobs : WebCrash(j)
  BY <1>1 DEF UploadIso, taskVars, SetPurge, ViewDetail, UploadBootFile, KillJob,
     Unfinished, KillAll, Active, WebStart, Stale, Enqueue, dbVars, EnqueueFails, Start,
     ExtractOk, Move, TaskFails, PurgeIso, CommitResult, RowMatched, TaskReturns, End,
     Settle, Failed, DieInPool, WebCrash, LinkIsTarget, Created
<1>2. ASSUME NEW v \in Versions, DeleteIso(v) PROVE LinkIsTarget'
  BY <1>2 DEF DeleteIso, taskVars, LinkIsTarget, Created
<1>3. ASSUME NEW v \in Versions, NEW j \in Jobs, Extract(v, j) PROVE LinkIsTarget'
  BY <1>3 DEF Extract, LinkIsTarget, Created
<1>4. CASE UNCHANGED vars
  BY <1>4 DEF vars, LinkIsTarget, Created
<1>5. QED
  BY <1>1, <1>2, <1>3, <1>4
     DEF Next, Web, Progress, Fault, DeliverRevoke, SettleLocked, WorkerCrash

\* A target row can only disappear by DeleteIso and only come back by UploadIso,
\* which marks the id as reused while an old job lives.
LEMMA LiveIsLinkedStep ==
  ASSUME TypeOK, Created, LinkIsTarget, LiveIsLinked, [Next]_vars
  PROVE  LiveIsLinked'
<1> USE DEF TypeOK, VersionStatus, UploadStatus, Places, Live, InPool
<1>1. CASE \/ \E v \in Versions, enabled \in BOOLEAN : SetPurge(v, enabled)
           \/ \E v \in Versions : ViewDetail(v)
  BY <1>1 DEF SetPurge, taskVars, ViewDetail, LiveIsLinked, Created, LinkIsTarget, Exists
<1>2. ASSUME NEW v \in Versions, NEW n \in Names \cup {NoIso}, NEW manual \in BOOLEAN,
            UploadIso(v, n, manual)
     PROVE  LiveIsLinked'
  BY <1>2 DEF UploadIso, taskVars, LiveIsLinked, Created, LinkIsTarget, Exists
<1>3. ASSUME NEW v \in Versions, UploadBootFile(v) PROVE LiveIsLinked'
  BY <1>3 DEF UploadBootFile, taskVars, LiveIsLinked, Created, LinkIsTarget, Exists
<1>4. ASSUME NEW v \in Versions, DeleteIso(v) PROVE LiveIsLinked'
  BY <1>4 DEF DeleteIso, taskVars, LiveIsLinked, Created, LinkIsTarget, Exists
<1>5. ASSUME NEW v \in Versions, NEW j \in Jobs, Extract(v, j) PROVE LiveIsLinked'
  BY <1>5 DEF Extract, LiveIsLinked, Created, LinkIsTarget, Exists
<1>6. ASSUME NEW j \in Jobs, KillJob(j) PROVE LiveIsLinked'
  BY <1>6 DEF KillJob, Unfinished, LiveIsLinked, Created, LinkIsTarget, Exists
<1>7. ASSUME KillAll PROVE LiveIsLinked'
  BY <1>7 DEF KillAll, Unfinished, Active, LiveIsLinked, Created, LinkIsTarget, Exists
<1>8. ASSUME WebStart PROVE LiveIsLinked'
  BY <1>8 DEF WebStart, Stale, Active, taskVars, LiveIsLinked, Created, LinkIsTarget, Exists
<1>9. ASSUME NEW j \in Jobs, Enqueue(j) PROVE LiveIsLinked'
  BY <1>9 DEF Enqueue, dbVars, LiveIsLinked, Created, LinkIsTarget, Exists
<1>10. ASSUME NEW j \in Jobs, EnqueueFails(j) PROVE LiveIsLinked'
  BY <1>10 DEF EnqueueFails, LiveIsLinked, Created, LinkIsTarget, Exists
<1>11. ASSUME NEW j \in Jobs, Start(j) PROVE LiveIsLinked'
  BY <1>11 DEF Start, LiveIsLinked, Created, LinkIsTarget, Exists
<1>12. ASSUME NEW j \in Jobs, ExtractOk(j) PROVE LiveIsLinked'
  BY <1>12 DEF ExtractOk, Move, dbVars, LiveIsLinked, Created, LinkIsTarget, Exists
<1>13. ASSUME NEW j \in Jobs, TaskFails(j) PROVE LiveIsLinked'
  BY <1>13 DEF TaskFails, dbVars, LiveIsLinked, Created, LinkIsTarget, Exists
<1>14. ASSUME NEW j \in Jobs, PurgeIso(j) PROVE LiveIsLinked'
  BY <1>14 DEF PurgeIso, Move, dbVars, LiveIsLinked, Created, LinkIsTarget, Exists
<1>15. ASSUME NEW j \in Jobs, CommitResult(j) PROVE LiveIsLinked'
  BY <1>15 DEF CommitResult, RowMatched, LiveIsLinked, Created, LinkIsTarget, Exists
<1>16. ASSUME NEW j \in Jobs, TaskReturns(j) PROVE LiveIsLinked'
  BY <1>16 DEF TaskReturns, End, dbVars, LiveIsLinked, Created, LinkIsTarget, Exists
<1>17. ASSUME NEW j \in Jobs, Settle(j) PROVE LiveIsLinked'
  BY <1>17 DEF Settle, Failed, End, LiveIsLinked, Created, LinkIsTarget, Exists
<1>18. ASSUME NEW j \in Jobs, DieInPool(j) PROVE LiveIsLinked'
  BY <1>18 DEF DieInPool, End, dbVars, LiveIsLinked, Created, LinkIsTarget, Exists
<1>19. ASSUME NEW j \in Jobs, WebCrash(j) PROVE LiveIsLinked'
  BY <1>19 DEF WebCrash, dbVars, LiveIsLinked, Created, LinkIsTarget, Exists
<1>20. CASE UNCHANGED vars
  BY <1>20 DEF vars, LiveIsLinked, Created, LinkIsTarget, Exists
<1>21. QED
  BY <1>1, <1>2, <1>3, <1>4, <1>5, <1>6, <1>7, <1>8, <1>9, <1>10, <1>11, <1>12, <1>13,
     <1>14, <1>15, <1>16, <1>17, <1>18, <1>19, <1>20
     DEF Next, Web, Progress, Fault, DeliverRevoke, SettleLocked, WorkerCrash

\* CommitResult settles the row, and only Start makes a row active again.
LEMMA MenusSettledStep ==
  ASSUME TypeOK, MenusSettled, [Next]_vars
  PROVE  MenusSettled'
<1> USE DEF TypeOK, VersionStatus, UploadStatus, Places, Live, InPool
<1>1. CASE \/ \E v \in Versions, n \in Names \cup {NoIso}, manual \in BOOLEAN :
                UploadIso(v, n, manual)
           \/ \E v \in Versions, enabled \in BOOLEAN : SetPurge(v, enabled)
           \/ \E v \in Versions : ViewDetail(v)
           \/ \E v \in Versions : UploadBootFile(v)
           \/ \E v \in Versions : DeleteIso(v)
  BY <1>1 DEF UploadIso, taskVars, SetPurge, ViewDetail, UploadBootFile, DeleteIso,
     MenusSettled, Active
<1>2. ASSUME NEW v \in Versions, NEW j \in Jobs, Extract(v, j) PROVE MenusSettled'
  BY <1>2 DEF Extract, MenusSettled, Active
<1>3. ASSUME NEW j \in Jobs, KillJob(j) PROVE MenusSettled'
  BY <1>3 DEF KillJob, Unfinished, MenusSettled, Active
<1>4. ASSUME KillAll PROVE MenusSettled'
  BY <1>4 DEF KillAll, Unfinished, Active, MenusSettled
<1>5. ASSUME WebStart PROVE MenusSettled'
  BY <1>5 DEF WebStart, Stale, Active, taskVars, MenusSettled
<1>6. ASSUME NEW j \in Jobs, Enqueue(j) PROVE MenusSettled'
  BY <1>6 DEF Enqueue, dbVars, MenusSettled, Active
<1>7. ASSUME NEW j \in Jobs, EnqueueFails(j) PROVE MenusSettled'
  BY <1>7 DEF EnqueueFails, MenusSettled, Active
<1>8. ASSUME NEW j \in Jobs, Start(j) PROVE MenusSettled'
  BY <1>8 DEF Start, MenusSettled, Active
<1>9. ASSUME NEW j \in Jobs, ExtractOk(j) PROVE MenusSettled'
  BY <1>9 DEF ExtractOk, Move, dbVars, MenusSettled, Active
<1>10. ASSUME NEW j \in Jobs, TaskFails(j) PROVE MenusSettled'
  BY <1>10 DEF TaskFails, dbVars, MenusSettled, Active
<1>11. ASSUME NEW j \in Jobs, PurgeIso(j) PROVE MenusSettled'
  BY <1>11 DEF PurgeIso, Move, dbVars, MenusSettled, Active
<1>12. ASSUME NEW j \in Jobs, CommitResult(j) PROVE MenusSettled'
  BY <1>12 DEF CommitResult, RowMatched, MenusSettled, Active
<1>13. ASSUME NEW j \in Jobs, TaskReturns(j) PROVE MenusSettled'
  BY <1>13 DEF TaskReturns, End, dbVars, MenusSettled, Active
<1>14. ASSUME NEW j \in Jobs, Settle(j) PROVE MenusSettled'
  BY <1>14 DEF Settle, Failed, End, MenusSettled, Active
<1>15. ASSUME NEW j \in Jobs, DieInPool(j) PROVE MenusSettled'
  BY <1>15 DEF DieInPool, End, dbVars, MenusSettled, Active
<1>16. ASSUME NEW j \in Jobs, WebCrash(j) PROVE MenusSettled'
  BY <1>16 DEF WebCrash, dbVars, MenusSettled, Active
<1>17. CASE UNCHANGED vars
  BY <1>17 DEF vars, MenusSettled, Active
<1>18. QED
  BY <1>1, <1>2, <1>3, <1>4, <1>5, <1>6, <1>7, <1>8, <1>9, <1>10, <1>11, <1>12, <1>13,
     <1>14, <1>15, <1>16, <1>17
     DEF Next, Web, Progress, Fault, DeliverRevoke, SettleLocked, WorkerCrash

\* Whoever settles the last active row of an extracting version takes the version
\* out of "extracting" in the same step.
LEMMA ExtractingHasActiveJobStep ==
  ASSUME TypeOK, Created, LinkIsTarget, LiveIsLinked, ExtractingHasActiveJob, [Next]_vars
  PROVE  ExtractingHasActiveJob'
<1> USE DEF TypeOK, VersionStatus, UploadStatus, Places, Live, InPool
<1>1. CASE \/ \E v \in Versions, enabled \in BOOLEAN : SetPurge(v, enabled)
           \/ \E v \in Versions : ViewDetail(v)
           \/ \E j \in Jobs : Enqueue(j)
           \/ \E j \in Jobs : ExtractOk(j)
           \/ \E j \in Jobs : TaskFails(j)
           \/ \E j \in Jobs : PurgeIso(j)
           \/ \E j \in Jobs : TaskReturns(j)
           \/ \E j \in Jobs : DieInPool(j)
           \/ \E j \in Jobs : WebCrash(j)
  BY <1>1 DEF SetPurge, taskVars, ViewDetail, Enqueue, dbVars, ExtractOk, Move, TaskFails,
     PurgeIso, TaskReturns, End, DieInPool, WebCrash, ExtractingHasActiveJob, Active,
     Exists, Created, LiveIsLinked
<1>2. ASSUME NEW v \in Versions, NEW n \in Names \cup {NoIso}, NEW manual \in BOOLEAN,
            UploadIso(v, n, manual)
     PROVE  ExtractingHasActiveJob'
  BY <1>2 DEF UploadIso, taskVars, ExtractingHasActiveJob, Active, Exists, Created,
     LiveIsLinked
<1>3. ASSUME NEW v \in Versions, UploadBootFile(v) PROVE ExtractingHasActiveJob'
  BY <1>3 DEF UploadBootFile, taskVars, ExtractingHasActiveJob, Active, Exists, Created,
     LiveIsLinked
<1>4. ASSUME NEW v \in Versions, DeleteIso(v) PROVE ExtractingHasActiveJob'
  BY <1>4 DEF DeleteIso, taskVars, ExtractingHasActiveJob, Active, Exists, Created,
     LiveIsLinked
<1>5. ASSUME NEW v \in Versions, NEW j \in Jobs, Extract(v, j) PROVE ExtractingHasActiveJob'
  BY <1>5 DEF Extract, ExtractingHasActiveJob, Active, Exists, Created, LiveIsLinked
<1>6. ASSUME NEW j \in Jobs, KillJob(j) PROVE ExtractingHasActiveJob'
  <2> SUFFICES ASSUME NEW u \in Versions, vstatus'[u] = "extracting", u \notin reused
               PROVE  \E k \in Jobs : link[k] = u /\ ustatus'[k] \in {"pending", "processing"}
    BY <1>6 DEF KillJob, ExtractingHasActiveJob, Active
  <2>1. vstatus[u] = "extracting" /\ u \notin Resolve(j)
    BY <1>6 DEF KillJob, Unfinished
  <2>2. PICK k \in Jobs : link[k] = u /\ Active(k)
    BY <2>1 DEF ExtractingHasActiveJob
  <2>3. k # j
    BY <2>1, <2>2, VersionIsNotNull DEF Resolve
  <2>4. QED
    BY <1>6, <2>2, <2>3 DEF KillJob, Active
<1>7. ASSUME KillAll PROVE ExtractingHasActiveJob'
  BY <1>7 DEF KillAll, Unfinished, Active, ExtractingHasActiveJob, Exists, Created,
     LiveIsLinked
<1>8. ASSUME WebStart PROVE ExtractingHasActiveJob'
  BY <1>8 DEF WebStart, Stale, Active, taskVars, ExtractingHasActiveJob, Exists, Created,
     LiveIsLinked
<1>9. ASSUME NEW j \in Jobs, EnqueueFails(j) PROVE ExtractingHasActiveJob'
  <2> SUFFICES ASSUME NEW u \in Versions, vstatus'[u] = "extracting", u \notin reused
               PROVE  \E k \in Jobs : link[k] = u /\ ustatus'[k] \in {"pending", "processing"}
    BY <1>9 DEF EnqueueFails, ExtractingHasActiveJob, Active
  <2>1. vstatus[u] = "extracting" /\ (ustatus'[j] = ustatus[j] \/ u # target[j])
    BY <1>9 DEF EnqueueFails, Exists, Created
  <2>2. PICK k \in Jobs : link[k] = u /\ Active(k)
    BY <2>1 DEF ExtractingHasActiveJob
  <2>3. ustatus'[j] = ustatus[j] \/ k # j
    BY <2>1, <2>2, VersionIsNotNull DEF LinkIsTarget
  <2>4. QED
    BY <1>9, <2>2, <2>3 DEF EnqueueFails, Active
<1>10. ASSUME NEW j \in Jobs, Start(j) PROVE ExtractingHasActiveJob'
  BY <1>10 DEF Start, ExtractingHasActiveJob, Active, Exists, Created, LiveIsLinked
<1>11. ASSUME NEW j \in Jobs, CommitResult(j) PROVE ExtractingHasActiveJob'
  <2> SUFFICES ASSUME NEW u \in Versions, vstatus'[u] = "extracting", u \notin reused
               PROVE  \E k \in Jobs : link[k] = u /\ ustatus'[k] \in {"pending", "processing"}
    BY <1>11 DEF CommitResult, RowMatched, ExtractingHasActiveJob, Active
  <2>1. vstatus[u] = "extracting" /\ (ustatus'[j] = ustatus[j] \/ u # target[j])
    BY <1>11 DEF CommitResult, RowMatched, Exists, Created
  <2>2. PICK k \in Jobs : link[k] = u /\ Active(k)
    BY <2>1 DEF ExtractingHasActiveJob
  <2>3. ustatus'[j] = ustatus[j] \/ k # j
    BY <2>1, <2>2, VersionIsNotNull DEF LinkIsTarget
  <2>4. QED
    BY <1>11, <2>2, <2>3 DEF CommitResult, RowMatched, Active
<1>12. ASSUME NEW j \in Jobs, Settle(j) PROVE ExtractingHasActiveJob'
  <2> SUFFICES ASSUME NEW u \in Versions, vstatus'[u] = "extracting", u \notin reused
               PROVE  \E k \in Jobs : link[k] = u /\ ustatus'[k] \in {"pending", "processing"}
    BY <1>12 DEF Settle, Failed, End, ExtractingHasActiveJob, Active
  <2>1. vstatus[u] = "extracting" /\ (ustatus'[j] = ustatus[j] \/ u # target[j])
    BY <1>12 DEF Settle, Failed, End, Exists, Created
  <2>2. PICK k \in Jobs : link[k] = u /\ Active(k)
    BY <2>1 DEF ExtractingHasActiveJob
  <2>3. ustatus'[j] = ustatus[j] \/ k # j
    BY <2>1, <2>2, VersionIsNotNull DEF LinkIsTarget
  <2>4. QED
    BY <1>12, <2>2, <2>3 DEF Settle, Failed, End, Active
<1>13. CASE UNCHANGED vars
  BY <1>13 DEF vars, ExtractingHasActiveJob, Active, Exists, Created, LiveIsLinked
<1>14. QED
  BY <1>1, <1>2, <1>3, <1>4, <1>5, <1>6, <1>7, <1>8, <1>9, <1>10, <1>11, <1>12, <1>13
     DEF Next, Web, Progress, Fault, DeliverRevoke, SettleLocked, WorkerCrash

\* Every exit from the pool settles the row or records the job as lost.
LEMMA ActiveJobIsLiveStep ==
  ASSUME TypeOK, MenusSettled, ActiveJobIsLive, [Next]_vars
  PROVE  ActiveJobIsLive'
<1> USE DEF TypeOK, VersionStatus, UploadStatus, Places, Live, InPool
<1>1. CASE \/ \E v \in Versions, n \in Names \cup {NoIso}, manual \in BOOLEAN :
                UploadIso(v, n, manual)
           \/ \E v \in Versions, enabled \in BOOLEAN : SetPurge(v, enabled)
           \/ \E v \in Versions : ViewDetail(v)
           \/ \E v \in Versions : UploadBootFile(v)
           \/ \E v \in Versions : DeleteIso(v)
  BY <1>1 DEF UploadIso, taskVars, SetPurge, ViewDetail, UploadBootFile, DeleteIso,
     ActiveJobIsLive, MenusSettled, Active
<1>2. ASSUME NEW v \in Versions, NEW j \in Jobs, Extract(v, j) PROVE ActiveJobIsLive'
  BY <1>2 DEF Extract, ActiveJobIsLive, MenusSettled, Active
<1>3. ASSUME NEW j \in Jobs, KillJob(j) PROVE ActiveJobIsLive'
  BY <1>3 DEF KillJob, Unfinished, ActiveJobIsLive, MenusSettled, Active
<1>4. ASSUME KillAll PROVE ActiveJobIsLive'
  BY <1>4 DEF KillAll, Unfinished, Active, ActiveJobIsLive, MenusSettled
<1>5. ASSUME WebStart PROVE ActiveJobIsLive'
  BY <1>5 DEF WebStart, Stale, Active, taskVars, ActiveJobIsLive, MenusSettled
<1>6. ASSUME NEW j \in Jobs, Enqueue(j) PROVE ActiveJobIsLive'
  BY <1>6 DEF Enqueue, dbVars, ActiveJobIsLive, MenusSettled, Active
<1>7. ASSUME NEW j \in Jobs, EnqueueFails(j) PROVE ActiveJobIsLive'
  BY <1>7 DEF EnqueueFails, ActiveJobIsLive, MenusSettled, Active
<1>8. ASSUME NEW j \in Jobs, Start(j) PROVE ActiveJobIsLive'
  BY <1>8 DEF Start, ActiveJobIsLive, MenusSettled, Active
<1>9. ASSUME NEW j \in Jobs, ExtractOk(j) PROVE ActiveJobIsLive'
  BY <1>9 DEF ExtractOk, Move, dbVars, ActiveJobIsLive, MenusSettled, Active
<1>10. ASSUME NEW j \in Jobs, TaskFails(j) PROVE ActiveJobIsLive'
  BY <1>10 DEF TaskFails, dbVars, ActiveJobIsLive, MenusSettled, Active
<1>11. ASSUME NEW j \in Jobs, PurgeIso(j) PROVE ActiveJobIsLive'
  BY <1>11 DEF PurgeIso, Move, dbVars, ActiveJobIsLive, MenusSettled, Active
<1>12. ASSUME NEW j \in Jobs, CommitResult(j) PROVE ActiveJobIsLive'
  BY <1>12 DEF CommitResult, RowMatched, ActiveJobIsLive, MenusSettled, Active
<1>13. ASSUME NEW j \in Jobs, TaskReturns(j) PROVE ActiveJobIsLive'
  BY <1>13 DEF TaskReturns, End, dbVars, ActiveJobIsLive, MenusSettled, Active
<1>14. ASSUME NEW j \in Jobs, Settle(j) PROVE ActiveJobIsLive'
  BY <1>14 DEF Settle, Failed, End, ActiveJobIsLive, MenusSettled, Active
<1>15. ASSUME NEW j \in Jobs, DieInPool(j) PROVE ActiveJobIsLive'
  BY <1>15 DEF DieInPool, End, dbVars, ActiveJobIsLive, MenusSettled, Active
<1>16. ASSUME NEW j \in Jobs, WebCrash(j) PROVE ActiveJobIsLive'
  BY <1>16 DEF WebCrash, dbVars, ActiveJobIsLive, MenusSettled, Active
<1>17. CASE UNCHANGED vars
  BY <1>17 DEF vars, ActiveJobIsLive, MenusSettled, Active
<1>18. QED
  BY <1>1, <1>2, <1>3, <1>4, <1>5, <1>6, <1>7, <1>8, <1>9, <1>10, <1>11, <1>12, <1>13,
     <1>14, <1>15, <1>16, <1>17
     DEF Next, Web, Progress, Fault, DeliverRevoke, SettleLocked, WorkerCrash
-----------------------------------------------------------------------------
\* Every reachable state satisfies the inductive invariant.
THEOREM Invariance == Spec => []IInv
<1>1. Init => IInv
  <2> SUFFICES ASSUME Init PROVE IInv
    OBVIOUS
  <2>1. TypeOK
    BY TypeAtStart
  <2>2. Created /\ LinkIsTarget /\ LiveIsLinked /\ MenusSettled
    BY DEF Init, Created, LinkIsTarget, LiveIsLinked, MenusSettled, Live, InPool
  <2>3. ExtractingHasActiveJob /\ ActiveJobIsLive
    BY DEF Init, ExtractingHasActiveJob, ActiveJobIsLive, Active
  <2>4. QED
    BY <2>1, <2>2, <2>3 DEF IInv
<1>2. IInv /\ [Next]_vars => IInv'
  BY TypeStep, CreatedStep, LinkIsTargetStep, LiveIsLinkedStep, MenusSettledStep,
     ExtractingHasActiveJobStep, ActiveJobIsLiveStep DEF IInv
<1>3. QED
  BY <1>1, <1>2, PTL DEF Spec

\* All variables stay within their types.
THEOREM TypeCorrect == Spec => []TypeOK
<1>1. IInv => TypeOK
  BY DEF IInv
<1>2. QED
  BY <1>1, Invariance, PTL

\* No version is left "extracting" without a job of its own to stop.
THEOREM ExtractingIsOwned == Spec => []ExtractingHasActiveJob
<1>1. IInv => ExtractingHasActiveJob
  BY DEF IInv
<1>2. QED
  BY <1>1, Invariance, PTL

\* No row stays pending or processing behind the back of the code.
THEOREM NoForgottenJob == Spec => []ActiveJobIsLive
<1>1. IInv => ActiveJobIsLive
  BY DEF IInv
<1>2. QED
  BY <1>1, Invariance, PTL

\* Success is only reported for the job's own version.
THEOREM DoneIsOwn == Spec => DoneForOwnVersion
<1>1. ASSUME IInv, [Next]_vars
      PROVE  [\A j \in Jobs : ustatus[j] # "done" /\ ustatus'[j] = "done" =>
                /\ vstatus'[target[j]] = "ready"
                /\ link[j] = target[j] \/ target[j] \in reused]_vars
  <2> SUFFICES ASSUME NEW k \in Jobs, ustatus[k] # "done", ustatus'[k] = "done"
               PROVE  /\ vstatus'[target[k]] = "ready"
                      /\ link[k] = target[k] \/ target[k] \in reused
    OBVIOUS
  <2> USE <1>1 DEF IInv, TypeOK, UploadStatus
  <2>1. CASE \/ \E v \in Versions, n \in Names \cup {NoIso}, manual \in BOOLEAN :
                UploadIso(v, n, manual)
             \/ \E v \in Versions, enabled \in BOOLEAN : SetPurge(v, enabled)
             \/ \E v \in Versions : ViewDetail(v)
             \/ \E v \in Versions : UploadBootFile(v)
             \/ \E v \in Versions : DeleteIso(v)
             \/ \E j \in Jobs : Enqueue(j)
             \/ \E j \in Jobs : ExtractOk(j)
             \/ \E j \in Jobs : TaskFails(j)
             \/ \E j \in Jobs : PurgeIso(j)
             \/ \E j \in Jobs : TaskReturns(j)
             \/ \E j \in Jobs : DieInPool(j)
             \/ \E j \in Jobs : WebCrash(j)
    BY <2>1 DEF UploadIso, taskVars, SetPurge, ViewDetail, UploadBootFile, DeleteIso,
       Enqueue, dbVars, ExtractOk, Move, TaskFails, PurgeIso, TaskReturns, End,
       DieInPool, WebCrash
  <2>2. CASE \/ \E v \in Versions, j \in Jobs : Extract(v, j)
             \/ \E j \in Jobs : KillJob(j)
             \/ KillAll
             \/ WebStart
             \/ \E j \in Jobs : EnqueueFails(j)
             \/ \E j \in Jobs : Start(j)
             \/ \E j \in Jobs : Settle(j)
    BY <2>2 DEF Extract, KillJob, Unfinished, KillAll, Active, WebStart, Stale,
       taskVars, EnqueueFails, Start, Settle, Failed, End
  <2>3. ASSUME NEW j \in Jobs, CommitResult(j)
        PROVE  /\ vstatus'[target[k]] = "ready"
               /\ link[k] = target[k] \/ target[k] \in reused
    <3>1. k = j /\ Exists(target[j]) /\ vstatus' = [vstatus EXCEPT ![target[j]] = "ready"]
      BY <2>3 DEF CommitResult, RowMatched
    <3>2. target[j] \in Versions /\ (link[j] = target[j] \/ target[j] \in reused)
      BY <2>3, <3>1 DEF CommitResult, Created, LiveIsLinked, Live, InPool
    <3>3. QED
      BY <3>1, <3>2
  <2>4. QED
    BY <2>1, <2>2, <2>3 DEF vars, Next, Web, Progress, Fault, DeliverRevoke, SettleLocked,
                            WorkerCrash
<1>2. QED
  BY <1>1, Invariance, PTL DEF Spec, DoneForOwnVersion
=============================================================================
