------------------------ MODULE WinpeStores_proofs ------------------------
(***************************************************************************)
(* Proofs about the stores of drivers and of language packs, for any       *)
(* number of uploads, readers, folders, labels and packs.                  *)
(***************************************************************************)
EXTENDS WinpeStores, FiniteSetTheorems, WellFoundedInduction, TLAPS

(***************************************************************************)
(* Drivers: the invariant                                                  *)
(***************************************************************************)
Cats    == [Labels -> Slugs \cup {0}]
InHand  == {"copying", "sending", "discarding", "queued", "unpacking", "rebuilding", "truncating",
            "writing", "loading", "committing", "failing", "cleaning"}
Thens   == {"none", "load", "upsert", "commit", "end"}
DriverState == [pc : InHand \cup {"idle", "ended"}, label : Labels \cup {"none"},
                slug : Slugs \cup {0}, id : Ids \cup {0}, then : Thens, seen : Cats]

\* Every variable has its type.
DriverTypeOK ==
  /\ folder \in [Slugs -> {"absent", "empty", "drivers"}]
  /\ json \in Cats \cup {Unreadable}
  /\ dpart \in [Ids -> Int]
  /\ dop \in [Actors -> DriverState]
  /\ drow \in [DriverUploads -> {"none", "processing", "done", "error"}]
  /\ draced \in BOOLEAN

Committed == {u \in DriverUploads : drow[u] # "none"}

\* What an upload has in hand at each step: a machine and its folder, then a row.
Holds(u) ==
  /\ dop[u].pc \in InHand \/ drow[u] = "done" =>
       dop[u].label \in Labels /\ dop[u].slug \in Present /\ dop[u].id \in Ids
  /\ dop[u].pc \in {"idle", "copying"} => drow[u] = "none"
  /\ dop[u].pc \in InHand \ {"copying", "discarding"} => drow[u] # "none"
  /\ drow[u] = "done" => dop[u].pc \in {"cleaning", "ended"}
  /\ dop[u].pc = "rebuilding" => dop[u].then \in {"load", "upsert"}
  /\ dop[u].pc \in {"truncating", "writing"} => dop[u].then \in {"load", "upsert", "commit"}
UploadsHold == \A u \in DriverUploads : Holds(u)
ReadersHold == \A v \in Viewers :
  dop[v].pc \in {"idle", "ended"} \/ (dop[v].pc \in {"rebuilding", "truncating", "writing"} /\ dop[v].then = "end")

\* The name of a staged archive is the id of a row that is committed, or the next one,
\* which the holder of the write lock has.
LockHeld   == \A u \in DriverUploads : dop[u].pc = "copying" => dlock = u /\ dop[u].id = NextId
IdsBelow   == \A u \in Committed : dop[u].id < NextId
IdsDiffer  == \A u, v \in Committed : u # v /\ dop[u].id = dop[v].id => dop[u].id = 0

\* The archive of an upload is there until its task has unpacked it.
Staged == \A u \in DriverUploads :
  /\ dop[u].pc = "copying" => dpart[dop[u].id] = -u \/ u \in hit
  /\ dop[u].pc \in {"sending", "queued", "unpacking"} => dpart[dop[u].id] = u \/ u \in hit

StagingInv == DriverTypeOK /\ UploadsHold /\ ReadersHold /\ LockHeld /\ IdsBelow /\ IdsDiffer /\ Staged

\* A label is lost to another upload of the label or the folder, once it has been sent, or
\* to a folder that has this label by default.
Settled(v) == dop[v].pc \notin {"idle", "copying", "sending", "discarding"}
Rival(u, v)  == dop[v].label = dop[u].label \/ dop[v].slug = dop[u].slug
Displaced(u) ==
  \/ \E v \in DriverUploads \ {u} : Settled(v) /\ Rival(u, v)
  \/ \E t \in Present \ {dop[u].slug} : DefaultLabel[t] = dop[u].label

\* The folder has the label, and no other.
Names1(cat, label, slug) == cat[label] = slug /\ \A l \in Labels \ {label} : cat[l] # slug
Lists(cat, u) == Names1(cat, dop[u].label, dop[u].slug)

\* Without overlap one actor changes drivers.json at a time.  What it is about to write, or
\* the file once it has, has every label that was written.
OneWriter == ~draced => \A a, b \in InWindow : a = b
WrittenLabels ==
  ~draced => \A u \in DriverUploads : Displaced(u) \/
    /\ dop[u].pc = "committing" \/ drow[u] = "done" =>
         IF InWindow = {} THEN json # Unreadable /\ Lists(json, u)
         ELSE \A a \in InWindow : Lists(dop[a].seen, u)
    /\ u \in InWindow /\ dop[u].then = "commit" => Lists(dop[u].seen, u)

DriverInv == StagingInv /\ OneWriter /\ WrittenLabels
-----------------------------------------------------------------------------
(***************************************************************************)
(* Language packs: the invariant                                           *)
(***************************************************************************)
PackPlaces == {"idle", "next cab", "writing cab", "rebuilding", "truncating", "writing", "ended"}

IsPack(x) == x = [pc |-> x.pc, todo |-> x.todo, saved |-> x.saved, seen |-> x.seen]

\* Every variable has its type; the names still to come are any sequence.
PackTypeOK ==
  /\ cab = [n \in Names |-> cab[n]]
  /\ pop = [a \in PackActors |-> pop[a]]
  /\ \A a \in PackActors : IsPack(pop[a]) /\ pop[a].pc \in PackPlaces
  /\ praced \in BOOLEAN /\ unlisted \in BOOLEAN

\* A rebuild is still to come from an upload.
Owed == \E u \in PackUploads : pop[u].pc \in {"next cab", "writing cab", "rebuilding"}

\* Without overlap one actor rewrites the list at a time.  What it is about to write, or the
\* list once it has, follows the files unless a rebuild is to come.
OneRebuild  == ~praced => \A a, b \in Rebuilding : a = b
ListFollows == ~praced /\ ~unlisted => Owed \/
  IF Rebuilding = {} THEN list \in {NoList, OnDiskPacks}
  ELSE \A a \in Rebuilding : pop[a].seen = OnDiskPacks

\* A name that uploads never wrote at once has one writer, whose bytes it holds, or none.
OneAuthor == \A n \in Names \ crossing :
  /\ \A u \in WritersOf(n) : WritersOf(n) = {u} /\ cab[n] = -u
  /\ WritersOf(n) = {} /\ ~unlisted => cab[n] \in PackUploads \cup {0, Hollow}

PackInv == PackTypeOK /\ OneRebuild /\ ListFollows /\ OneAuthor

\* The inductive invariant: each store keeps its own whatever the other does.
IInv == DriverInv /\ PackInv
-----------------------------------------------------------------------------
(***************************************************************************)
(* Drivers: the operators                                                  *)
(***************************************************************************)
\* Of some folders one comes last.
LEMMA LastFolder ==
  ASSUME DriverAssumption, NEW S \in SUBSET Slugs, S # {}
  PROVE  \E s \in S : \A t \in S : s >= t
<1>1. PICK N \in Nat : N = Cardinality(Slugs)
  BY FS_CardinalityType DEF DriverAssumption
<1>2. \A s \in S : s \in Nat /\ s <= N
  BY <1>1 DEF DriverAssumption
<1> DEFINE F == {n \in Nat : N - n \in S}
<1>3. \A s \in S : N - s \in F
  BY <1>1, <1>2
<1>4. F # {} /\ F \subseteq Nat
  BY <1>3
<1>5. PICK n \in F : \A k \in F : ~(k < n)
  <2> DEFINE R == OpToRel(<, Nat)
  <2>1. PICK n \in F : \A k \in F : ~(<<k, n>> \in R)
    BY <1>4, WFMin, NatLessThanWellFounded, Zenon
  <2>2. \A k \in F : ~(k < n)
    BY <1>4, <2>1, Zenon DEF OpToRel
  <2> QED
    BY <2>2
<1>6. N - n \in S /\ n \in Nat
  BY <1>5
<1>7. ASSUME NEW t \in S PROVE N - n >= t
  <2>1. N - t \in F
    BY <1>3
  <2>2. ~(N - t < n) /\ t \in Nat
    BY <1>2, <1>5, <2>1
  <2> QED
    BY <1>1, <1>6, <2>2
<1> QED
  BY <1>6, <1>7

\* A rebuilt catalogue has, for each label, a folder that is there or none; a folder that
\* has a label, and no other, keeps it unless another folder has it by default.
LEMMA RebuiltIs ==
  ASSUME DriverAssumption, DriverTypeOK
  PROVE  /\ Rebuilt \in Cats
         /\ \A l \in Labels, s \in Present :
              json # Unreadable /\ Names1(json, l, s) /\ (\A t \in Present \ {s} : DefaultLabel[t] # l)
                => Names1(Rebuilt, l, s)
<1> DEFINE old == IF Readable THEN json ELSE NoLabels
           Given(s) == {l \in Labels : old[l] = s}
           LabelOf(s) == IF Given(s) = {} THEN DefaultLabel[s] ELSE CHOOSE l \in Given(s) : TRUE
           Of(l) == {s \in Present : LabelOf(s) = l}
           new(l) == IF Of(l) # {} THEN CHOOSE s \in Of(l) : \A t \in Of(l) : s >= t
                     ELSE IF old[l] \in Present THEN old[l] ELSE 0
<1>1. Rebuilt = [l \in Labels |-> new(l)]
  BY DEF Rebuilt
<1>2. old \in Cats
  BY DEF DriverTypeOK, NoLabels, Readable, Cats
<1>3. Present \subseteq Slugs
  BY DEF Present
<1>4. \A l : Of(l) \in SUBSET Slugs
  BY <1>3
<1>5. ASSUME NEW l, Of(l) # {} PROVE new(l) \in Of(l)
  <2> HIDE DEF Of
  <2>1. \E s \in Of(l) : \A t \in Of(l) : s >= t
    BY <1>4, <1>5, LastFolder
  <2> QED
    BY <1>5, <2>1
<1>6. ASSUME NEW l \in Labels PROVE new(l) \in Slugs \cup {0}
  <2>1. CASE Of(l) # {}
    BY <1>4, <1>5, <2>1
  <2>2. CASE Of(l) = {}
    BY <1>3, <2>2
  <2> QED
    BY <2>1, <2>2
<1>7. ASSUME NEW l \in Labels, NEW s \in Present, json # Unreadable, Names1(json, l, s),
             \A t \in Present \ {s} : DefaultLabel[t] # l
      PROVE  Names1(Rebuilt, l, s)
  <2>1. s # 0
    BY <1>3 DEF DriverAssumption
  <2>2. old = json /\ Readable
    BY <1>7, <2>1 DEF Readable, NoLabels, Names1
  <2>3. old[l] = s /\ \A k \in Labels \ {l} : old[k] # s
    BY <1>7, <2>2 DEF Names1
  <2> HIDE DEF old
  <2>4. Given(s) = {l}
    BY <2>3
  <2>5. LabelOf(s) = l
    BY <2>4
  <2>6. ASSUME NEW t \in Present, t # s PROVE LabelOf(t) # l
    <3>1. CASE Given(t) = {}
      BY <1>7, <2>6, <3>1
    <3>2. CASE Given(t) # {}
      <4>1. LabelOf(t) \in Given(t)
        BY <3>2
      <4>2. l \notin Given(t)
        BY <2>3, <2>6
      <4> QED
        BY <4>1, <4>2
    <3> QED
      BY <3>1, <3>2
  <2> HIDE DEF Given
  <2>7. Of(l) = {s}
    BY <2>5, <2>6
  <2>8. \A k \in Labels \ {l} : s \notin Of(k)
    BY <2>5
  <2> HIDE DEF LabelOf
  <2>9. new(l) = s
    <3>1. new(l) \in Of(l)
      BY <1>5, <2>7
    <3> HIDE DEF new, Of
    <3> QED
      BY <2>7, <3>1
  <2>10. ASSUME NEW k \in Labels \ {l} PROVE new(k) # s
    <3>1. CASE Of(k) # {}
      <4>1. new(k) \in Of(k)
        BY <1>5, <3>1
      <4> HIDE DEF new, Of
      <4> QED
        BY <2>8, <4>1
    <3>2. CASE Of(k) = {}
      BY <2>1, <2>3, <3>2
    <3> QED
      BY <3>1, <3>2
  <2> HIDE DEF new
  <2> QED
    BY <1>1, <2>9, <2>10 DEF Names1
<1>8. Rebuilt \in Cats
  <2> HIDE DEF new
  <2> QED
    BY <1>1, <1>6 DEF Cats
<1> QED
  BY <1>7, <1>8

\* A label forced on a folder leaves it no other, and leaves other labels of other folders.
LEMMA UpsertedIs ==
  ASSUME DriverAssumption, NEW cat \in Cats, NEW label \in Labels, NEW slug \in Slugs
  PROVE  /\ Upserted(cat, label, slug) \in Cats
         /\ Names1(Upserted(cat, label, slug), label, slug)
         /\ \A l \in Labels \ {label}, s \in Slugs \ {slug} :
              Names1(cat, l, s) => Names1(Upserted(cat, label, slug), l, s)
<1>1. slug # 0
  BY DEF DriverAssumption
<1>2. \A l \in Labels : Upserted(cat, label, slug)[l] =
        IF l = label THEN slug ELSE IF cat[l] = slug THEN 0 ELSE cat[l]
  BY DEF Upserted
<1>3. Upserted(cat, label, slug) \in Cats
  BY DEF Upserted, Cats
<1>4. Names1(Upserted(cat, label, slug), label, slug)
  BY <1>1, <1>2 DEF Names1
<1>5. ASSUME NEW l \in Labels \ {label}, NEW s \in Slugs \ {slug}, Names1(cat, l, s)
      PROVE  Names1(Upserted(cat, label, slug), l, s)
  <2>1. s # 0
    BY DEF DriverAssumption
  <2> QED
    BY <1>2, <1>5, <2>1 DEF Names1
<1> QED
  BY <1>3, <1>4, <1>5

\* The id that SQLite gives next is in range as long as some upload has no row.
LEMMA NextIdIs ==
  ASSUME DriverAssumption
  PROVE  /\ Committed \subseteq DriverUploads /\ IsFiniteSet(Committed)
         /\ NextId = 1 + Cardinality(Committed) /\ NextId \in Nat \ {0}
         /\ \A u \in DriverUploads : drow[u] = "none" => NextId \in Ids
<1>1. Committed \subseteq DriverUploads /\ IsFiniteSet(DriverUploads)
  BY DEF Committed, DriverAssumption
<1>2. IsFiniteSet(Committed)
  BY <1>1, FS_Subset
<1>3. Cardinality(Committed) \in Nat /\ Cardinality(DriverUploads) \in Nat
  BY <1>1, <1>2, FS_CardinalityType
<1>4. NextId = 1 + Cardinality(Committed)
  BY DEF NextId, Committed
<1>5. ASSUME NEW u \in DriverUploads, drow[u] = "none" PROVE NextId \in Ids
  <2>1. Committed # DriverUploads
    BY <1>5 DEF Committed
  <2>2. Cardinality(Committed) <= Cardinality(DriverUploads)
    BY <1>1, FS_Subset
  <2>3. Cardinality(Committed) # Cardinality(DriverUploads)
    BY <1>1, <2>1, FS_Subset
  <2> QED
    BY <1>3, <1>4, <2>2, <2>3 DEF Ids
<1> QED
  BY <1>1, <1>2, <1>3, <1>4, <1>5
-----------------------------------------------------------------------------
(***************************************************************************)
(* Drivers: the staged archives                                            *)
(***************************************************************************)
Working == InHand \ {"copying"}
Waiting == {"sending", "queued", "unpacking"}

LEMMA ActorsApart ==
  ASSUME DriverAssumption
  PROVE  /\ DriverUploads \subseteq Actors /\ Viewers \subseteq Actors
         /\ \A u \in DriverUploads : u \in Nat \ {0} /\ u \notin Viewers
  BY DEF Actors, DriverAssumption

\* A step of one actor that leaves rows, archives and the lock alone.
LEMMA MoveKeepsStaging ==
  ASSUME DriverAssumption, StagingInv, NEW a \in Actors, NEW r \in DriverState,
         dop' = [dop EXCEPT ![a] = r],
         r.label = dop[a].label, r.slug = dop[a].slug, r.id = dop[a].id,
         UNCHANGED <<dpart, drow, dlock, hit>>,
         folder' \in [Slugs -> {"absent", "empty", "drivers"}], Present \subseteq Present',
         json' \in Cats \cup {Unreadable}, draced' \in BOOLEAN,
         a \in Viewers =>
           r.pc = "ended" \/ (r.pc \in {"rebuilding", "truncating", "writing"} /\ r.then = "end"),
         a \in DriverUploads =>
           /\ dop[a].pc \in Working /\ r.pc \in Working
           /\ dop[a].pc = "discarding" => r.pc = "discarding"
           /\ drow[a] = "done" => r.pc = "cleaning"
           /\ r.pc \in Waiting => dop[a].pc \in Waiting
           /\ r.pc = "rebuilding" => r.then \in {"load", "upsert"}
           /\ r.pc \in {"truncating", "writing"} => r.then \in {"load", "upsert", "commit"}
  PROVE  StagingInv'
<1>1. DriverTypeOK'
  BY DEF StagingInv, DriverTypeOK
<1>2. \A u \in Actors : /\ u # a => dop'[u] = dop[u]
                        /\ u = a => dop'[u] = r
                        /\ dop'[u].label = dop[u].label /\ dop'[u].slug = dop[u].slug /\ dop'[u].id = dop[u].id
  BY DEF StagingInv, DriverTypeOK
<1>3. \A u \in DriverUploads : u \in Actors
  BY ActorsApart
<1>4. UploadsHold'
  <2> SUFFICES ASSUME NEW u \in DriverUploads PROVE Holds(u)'
    BY DEF UploadsHold
  <2>1. Holds(u)
    BY DEF StagingInv, UploadsHold
  <2>2. CASE u # a
    BY <1>2, <1>3, <2>1, <2>2 DEF Holds
  <2>3. CASE u = a
    <3>1. dop'[u] = r
      BY <1>2, <1>3, <2>3
    <3> QED
      BY <1>2, <1>3, <2>1, <2>3, <3>1 DEF Holds, Working, InHand, DriverState
  <2> QED
    BY <2>2, <2>3
<1>5. ReadersHold'
  <2>1. \A v \in Viewers : v \in Actors
    BY ActorsApart
  <2> QED
    BY <1>2, <2>1 DEF ReadersHold, StagingInv
<1>6. NextId' = NextId /\ Committed' = Committed
  BY DEF NextId, Committed
<1>7. LockHeld'
  BY <1>2, <1>3, <1>6 DEF LockHeld, StagingInv, Working
<1>8. IdsBelow' /\ IdsDiffer'
  <2>1. Committed \subseteq DriverUploads
    BY DEF Committed
  <2> QED
    BY <1>2, <1>3, <1>6, <2>1 DEF IdsBelow, IdsDiffer, StagingInv
<1>9. Staged'
  <2> SUFFICES ASSUME NEW u \in DriverUploads
               PROVE  /\ dop'[u].pc = "copying" => dpart[dop'[u].id] = -u \/ u \in hit
                      /\ dop'[u].pc \in Waiting => dpart[dop'[u].id] = u \/ u \in hit
    BY DEF Staged, Waiting
  <2>1. /\ dop[u].pc = "copying" => dpart[dop[u].id] = -u \/ u \in hit
        /\ dop[u].pc \in Waiting => dpart[dop[u].id] = u \/ u \in hit
    BY DEF Staged, StagingInv, Waiting
  <2> QED
    BY <1>2, <1>3, <2>1 DEF Working
<1> QED
  BY <1>1, <1>4, <1>5, <1>7, <1>8, <1>9 DEF StagingInv

LEMMA BeginCopyKeepsStaging ==
  ASSUME DriverAssumption, StagingInv, NEW u \in DriverUploads, NEW label \in Labels, NEW slug \in Slugs,
         BeginCopy(u, label, slug)
  PROVE  StagingInv'
<1> DEFINE r == [IdleActor EXCEPT !.pc = "copying", !.label = label, !.slug = slug, !.id = NextId]
<1>1. dop[u].pc = "idle" /\ dlock = 0 /\ dlock' = u /\ drow' = drow /\ hit' = hit /\ draced' = draced
      /\ json' = json
  BY DEF BeginCopy, DAt
<1>2. drow[u] = "none"
  BY <1>1 DEF StagingInv, UploadsHold, Holds
<1>3. NextId \in Ids /\ Committed \subseteq DriverUploads /\ NextId \in Nat \ {0}
  BY <1>2, NextIdIs
<1>4. u \in Actors /\ DriverUploads \subseteq Actors
  BY ActorsApart
<1>5. dop' = [dop EXCEPT ![u] = r] /\ dpart' = [dpart EXCEPT ![NextId] = -u]
  BY DEF BeginCopy
<1>6. /\ r \in DriverState
      /\ r.pc = "copying" /\ r.label = label /\ r.slug = slug /\ r.id = NextId /\ r.then = "none"
  <2>1. NoLabels \in Cats
    BY DEF NoLabels, Cats
  <2> QED
    BY <1>3, <2>1 DEF IdleActor, DriverState, InHand, Thens
<1> HIDE DEF r
<1>7. \A v \in Actors : IF v = u THEN dop'[v] = r ELSE dop'[v] = dop[v]
  BY <1>5, <1>4 DEF StagingInv, DriverTypeOK
<1>8. /\ folder' \in [Slugs -> {"absent", "empty", "drivers"}]
      /\ Present \subseteq Present' /\ slug \in Present'
  BY DEF BeginCopy, StagingInv, DriverTypeOK, Present
<1>9. \A i \in Ids : IF i = NextId THEN dpart'[i] = -u ELSE dpart'[i] = dpart[i]
  BY <1>5 DEF StagingInv, DriverTypeOK
<1>10. u \in Nat \ {0}
  BY DEF DriverAssumption
<1>11. DriverTypeOK'
  <2>1. dpart' \in [Ids -> Int]
    <3>1. -u \in Int
      BY <1>10
    <3> QED
      BY <1>5, <3>1 DEF StagingInv, DriverTypeOK
  <2>2. dop' \in [Actors -> DriverState]
    BY <1>4, <1>5, <1>6 DEF StagingInv, DriverTypeOK
  <2> QED
    BY <1>1, <1>8, <2>1, <2>2 DEF StagingInv, DriverTypeOK
<1>12. UploadsHold'
  <2> SUFFICES ASSUME NEW v \in DriverUploads PROVE Holds(v)'
    BY DEF UploadsHold
  <2>1. Holds(v) /\ v \in Actors
    BY <1>4 DEF StagingInv, UploadsHold
  <2>2. CASE v # u
    BY <1>1, <1>7, <1>8, <2>1, <2>2 DEF Holds
  <2>3. CASE v = u
    BY <1>1, <1>2, <1>3, <1>6, <1>7, <1>8, <2>1, <2>3 DEF Holds, InHand
  <2> QED
    BY <2>2, <2>3
<1>13. ReadersHold'
  <2>1. \A v \in Viewers : v \in Actors /\ v # u
    BY ActorsApart
  <2> QED
    BY <1>7, <2>1 DEF ReadersHold, StagingInv
<1>14. NextId' = NextId /\ Committed' = Committed
  BY <1>1 DEF NextId, Committed
<1>15. \A v \in DriverUploads : dop[v].pc # "copying"
  BY <1>1, <1>10 DEF StagingInv, LockHeld, DriverAssumption
<1>16. LockHeld'
  BY <1>1, <1>4, <1>6, <1>7, <1>14, <1>15 DEF LockHeld
<1>17. \A v \in Committed : v # u /\ v \in Actors
  BY <1>2, <1>4 DEF Committed
<1>18. IdsBelow' /\ IdsDiffer'
  BY <1>7, <1>14, <1>17 DEF IdsBelow, IdsDiffer, StagingInv
<1>19. Staged'
  <2> SUFFICES ASSUME NEW v \in DriverUploads
               PROVE  /\ dop'[v].pc = "copying" => dpart'[dop'[v].id] = -v \/ v \in hit
                      /\ dop'[v].pc \in Waiting => dpart'[dop'[v].id] = v \/ v \in hit
    BY <1>1 DEF Staged, Waiting
  <2>1. CASE v = u
    BY <1>3, <1>4, <1>6, <1>7, <1>9, <2>1 DEF Waiting
  <2>2. CASE v # u
    <3>1. dop'[v] = dop[v] /\ dop[v].pc # "copying"
      BY <1>4, <1>7, <1>15, <2>2
    <3>2. ASSUME dop[v].pc \in Waiting PROVE dpart'[dop[v].id] = v \/ v \in hit
      <4>1. v \in Committed /\ dop[v].id \in Ids
        BY <3>2 DEF Waiting, Committed, StagingInv, UploadsHold, Holds, InHand
      <4>2. dop[v].id < NextId /\ dop[v].id \in Nat
        BY <4>1 DEF IdsBelow, StagingInv, Ids
      <4>3. dpart'[dop[v].id] = dpart[dop[v].id]
        BY <1>3, <1>9, <4>1, <4>2
      <4> QED
        BY <3>2, <4>3 DEF Staged, StagingInv, Waiting
    <3> QED
      BY <3>1, <3>2
  <2> QED
    BY <2>1, <2>2
<1> QED
  BY <1>11, <1>12, <1>13, <1>16, <1>18, <1>19 DEF StagingInv
LEMMA CopiedKeepsStaging ==
  ASSUME DriverAssumption, StagingInv, NEW u \in DriverUploads, Copied(u)
  PROVE  StagingInv'
<1> DEFINE r == [dop[u] EXCEPT !.pc = "sending"]
<1>1. u \in Actors /\ DriverUploads \subseteq Actors /\ \A v \in DriverUploads : v \in Nat \ {0}
  BY ActorsApart
<1>2. dop[u].pc = "copying" /\ dlock = u /\ dop[u].id = NextId /\ drow[u] = "none"
  BY DEF Copied, DAt, StagingInv, LockHeld, UploadsHold, Holds
<1>3. /\ dop' = [dop EXCEPT ![u] = r] /\ drow' = [drow EXCEPT ![u] = "processing"]
      /\ dpart' = [i \in Ids |-> IF dpart[i] = -u THEN u ELSE dpart[i]]
      /\ UNCHANGED <<folder, json, draced, hit>>
  BY DEF Copied, DGo
<1>4. /\ r \in DriverState /\ r.pc = "sending"
      /\ r.label = dop[u].label /\ r.slug = dop[u].slug /\ r.id = NextId
  BY <1>1, <1>2 DEF StagingInv, DriverTypeOK, DriverState, InHand
<1> HIDE DEF r
<1>5. \A v \in Actors : IF v = u THEN dop'[v] = r ELSE dop'[v] = dop[v]
  BY <1>1, <1>3 DEF StagingInv, DriverTypeOK
<1>6. \A v \in DriverUploads : IF v = u THEN drow'[v] = "processing" ELSE drow'[v] = drow[v]
  BY <1>3 DEF StagingInv, DriverTypeOK
<1>7. DriverTypeOK'
  <2>1. dpart' \in [Ids -> Int]
    BY <1>1, <1>3 DEF StagingInv, DriverTypeOK
  <2> QED
    BY <1>1, <1>3, <1>4, <2>1 DEF StagingInv, DriverTypeOK
<1>8. Present' = Present
  BY <1>3 DEF Present
<1>9. UploadsHold'
  <2> SUFFICES ASSUME NEW v \in DriverUploads PROVE Holds(v)'
    BY DEF UploadsHold
  <2>1. Holds(v) /\ v \in Actors
    BY <1>1 DEF StagingInv, UploadsHold
  <2>2. CASE v # u
    BY <1>5, <1>6, <1>8, <2>1, <2>2 DEF Holds
  <2>3. CASE v = u
    BY <1>2, <1>4, <1>5, <1>6, <1>8, <2>1, <2>3 DEF Holds, InHand
  <2> QED
    BY <2>2, <2>3
<1>10. ReadersHold'
  <2>1. \A v \in Viewers : v \in Actors /\ v # u
    BY ActorsApart
  <2> QED
    BY <1>5, <2>1 DEF ReadersHold, StagingInv
<1>11. Committed' = Committed \cup {u} /\ u \notin Committed
  BY <1>2, <1>6 DEF Committed
<1>12. NextId' = NextId + 1 /\ NextId \in Nat \ {0}
  <2>1. NextId' = 1 + Cardinality(Committed')
    BY DEF NextId, Committed
  <2>2. Cardinality(Committed') = Cardinality(Committed) + 1
    BY <1>11, NextIdIs, FS_AddElement
  <2>3. Cardinality(Committed) \in Nat /\ NextId = 1 + Cardinality(Committed)
    BY NextIdIs, FS_CardinalityType
  <2> QED
    BY <2>1, <2>2, <2>3
<1>13. \A v \in DriverUploads : v # u => dop[v].pc # "copying"
  BY <1>2 DEF StagingInv, LockHeld
<1>14. LockHeld'
  BY <1>4, <1>5, <1>1, <1>13 DEF LockHeld
<1>15. \A v \in Committed : v # u /\ v \in Actors /\ dop[v].id < NextId /\ dop[v].id \in Nat
  <2>1. \A v \in Committed : v \in DriverUploads
    BY DEF Committed
  <2>2. \A v \in DriverUploads : dop[v].id \in Nat
    BY <1>1 DEF StagingInv, DriverTypeOK, DriverState, Ids
  <2> QED
    BY <1>1, <1>11, <2>1, <2>2 DEF StagingInv, IdsBelow
<1>16. \A v \in Committed' : IF v = u THEN dop'[v].id = NextId
                                     ELSE v \in Committed /\ dop'[v].id = dop[v].id
  BY <1>1, <1>4, <1>5, <1>11, <1>15
<1>17. IdsBelow'
  <2> SUFFICES ASSUME NEW v \in Committed' PROVE dop'[v].id < NextId'
    BY DEF IdsBelow
  <2>1. CASE v = u
    BY <1>12, <1>16, <2>1
  <2>2. CASE v # u
    BY <1>12, <1>15, <1>16, <2>2
  <2> QED
    BY <2>1, <2>2
<1>18. IdsDiffer'
  <2> SUFFICES ASSUME NEW v \in Committed', NEW w \in Committed', v # w, dop'[v].id = dop'[w].id
               PROVE  dop'[v].id = 0
    BY DEF IdsDiffer
  <2>1. CASE v # u /\ w # u
    BY <1>16, <2>1 DEF StagingInv, IdsDiffer
  <2>2. CASE v = u
    BY <1>12, <1>15, <1>16, <2>2
  <2>3. CASE w = u
    BY <1>12, <1>15, <1>16, <2>3
  <2> QED
    BY <2>1, <2>2, <2>3
<1>19. Staged'
  <2> SUFFICES ASSUME NEW v \in DriverUploads
               PROVE  /\ dop'[v].pc = "copying" => dpart'[dop'[v].id] = -v \/ v \in hit
                      /\ dop'[v].pc \in Waiting => dpart'[dop'[v].id] = v \/ v \in hit
    BY <1>3 DEF Staged, Waiting
  <2>1. dop[v].pc \in InHand => dop[v].id \in Ids
    BY DEF StagingInv, UploadsHold, Holds
  <2>2. CASE v = u
    <3>1. dop[v].id \in Ids /\ (dpart[dop[v].id] = -u \/ u \in hit)
      BY <1>2, <2>1, <2>2 DEF StagingInv, Staged, InHand
    <3> QED
      BY <1>1, <1>2, <1>3, <1>4, <1>5, <2>2, <3>1
  <2>3. CASE v # u
    <3>1. dop'[v] = dop[v] /\ dop[v].pc # "copying"
      BY <1>1, <1>5, <1>13, <2>3
    <3>2. ASSUME dop[v].pc \in Waiting PROVE dpart'[dop[v].id] = v \/ v \in hit
      <4>1. dop[v].id \in Ids /\ (dpart[dop[v].id] = v \/ v \in hit)
        BY <2>1, <3>2 DEF StagingInv, Staged, Waiting, InHand
      <4>2. v # -u
        BY <1>1
      <4> QED
        BY <1>3, <4>1, <4>2
    <3> QED
      BY <3>1, <3>2
  <2> QED
    BY <2>2, <2>3
<1> QED
  BY <1>7, <1>9, <1>10, <1>14, <1>17, <1>18, <1>19 DEF StagingInv

LEMMA CopyFailsKeepsStaging ==
  ASSUME DriverAssumption, StagingInv, NEW u \in DriverUploads, CopyFails(u)
  PROVE  StagingInv'
<1> DEFINE r == [dop[u] EXCEPT !.pc = "discarding"]
<1>1. u \in Actors /\ DriverUploads \subseteq Actors /\ \A v \in DriverUploads : v \in Nat \ {0}
  BY ActorsApart
<1>2. dop[u].pc = "copying" /\ dlock = u /\ drow[u] = "none"
  BY DEF CopyFails, DAt, StagingInv, LockHeld, UploadsHold, Holds
<1>3. dop' = [dop EXCEPT ![u] = r] /\ UNCHANGED <<folder, json, dpart, drow, draced, hit>>
  BY DEF CopyFails, DGo
<1>4. /\ r \in DriverState /\ r.pc = "discarding"
      /\ r.label = dop[u].label /\ r.slug = dop[u].slug /\ r.id = dop[u].id
  BY <1>1, <1>2 DEF StagingInv, DriverTypeOK, DriverState, InHand
<1> HIDE DEF r
<1>5. \A v \in Actors : IF v = u THEN dop'[v] = r ELSE dop'[v] = dop[v]
  BY <1>1, <1>3 DEF StagingInv, DriverTypeOK
<1>6. DriverTypeOK'
  BY <1>1, <1>3, <1>4 DEF StagingInv, DriverTypeOK
<1>7. Present' = Present /\ NextId' = NextId /\ Committed' = Committed /\ u \notin Committed
  BY <1>2, <1>3 DEF Present, NextId, Committed
<1>8. UploadsHold'
  <2> SUFFICES ASSUME NEW v \in DriverUploads PROVE Holds(v)'
    BY DEF UploadsHold
  <2>1. Holds(v) /\ v \in Actors
    BY <1>1 DEF StagingInv, UploadsHold
  <2>2. CASE v # u
    BY <1>3, <1>5, <1>7, <2>1, <2>2 DEF Holds
  <2>3. CASE v = u
    BY <1>2, <1>3, <1>4, <1>5, <1>7, <2>1, <2>3 DEF Holds, InHand
  <2> QED
    BY <2>2, <2>3
<1>9. ReadersHold'
  <2>1. \A v \in Viewers : v \in Actors /\ v # u
    BY ActorsApart
  <2> QED
    BY <1>5, <2>1 DEF ReadersHold, StagingInv
<1>10. \A v \in DriverUploads : v # u => dop[v].pc # "copying"
  BY <1>2 DEF StagingInv, LockHeld
<1>11. LockHeld'
  BY <1>1, <1>4, <1>5, <1>10 DEF LockHeld
<1>12. \A v \in Committed : v # u /\ v \in Actors
  BY <1>1, <1>7 DEF Committed
<1>13. IdsBelow' /\ IdsDiffer'
  BY <1>5, <1>7, <1>12 DEF StagingInv, IdsBelow, IdsDiffer
<1>14. Staged'
  BY <1>1, <1>3, <1>4, <1>5 DEF StagingInv, Staged
<1> QED
  BY <1>6, <1>8, <1>9, <1>11, <1>13, <1>14 DEF StagingInv

LEMMA DiscardKeepsStaging ==
  ASSUME DriverAssumption, StagingInv, NEW u \in DriverUploads, DiscardZip(u)
  PROVE  StagingInv'
<1> DEFINE r == [IdleActor EXCEPT !.pc = "ended"]
<1>1. u \in Actors /\ DriverUploads \subseteq Actors /\ \A v \in DriverUploads : v \in Nat \ {0}
  BY ActorsApart
<1>2. dop[u].pc = "discarding" /\ dop[u].id \in Ids /\ drow[u] # "done"
  BY DEF DiscardZip, DAt, StagingInv, UploadsHold, Holds, InHand
<1>3. /\ dop' = [dop EXCEPT ![u] = r] /\ dpart' = [dpart EXCEPT ![dop[u].id] = 0]
      /\ hit' = hit \cup {v \in DriverUploads \ {u} : dpart[dop[u].id] \in {v, -v}}
      /\ UNCHANGED <<folder, json, drow, dlock, draced>>
  BY DEF DiscardZip
<1>4. r \in DriverState /\ r.pc = "ended" /\ r.id = 0
  <2>1. NoLabels \in Cats
    BY DEF NoLabels, Cats
  <2> QED
    BY <2>1 DEF IdleActor, DriverState, InHand, Thens
<1> HIDE DEF r
<1>5. \A v \in Actors : IF v = u THEN dop'[v] = r ELSE dop'[v] = dop[v]
  BY <1>1, <1>3 DEF StagingInv, DriverTypeOK
<1>6. DriverTypeOK'
  <2>1. dpart' \in [Ids -> Int]
    <3>1. dpart \in [Ids -> Int] /\ 0 \in Int
      BY DEF StagingInv, DriverTypeOK
    <3> QED
      BY <1>3, <3>1
  <2>2. dop' \in [Actors -> DriverState]
    BY <1>1, <1>3, <1>4 DEF StagingInv, DriverTypeOK
  <2> QED
    BY <1>3, <2>1, <2>2 DEF StagingInv, DriverTypeOK
<1>7. Present' = Present /\ NextId' = NextId /\ Committed' = Committed
  BY <1>3 DEF Present, NextId, Committed
<1>8. UploadsHold'
  <2> SUFFICES ASSUME NEW v \in DriverUploads PROVE Holds(v)'
    BY DEF UploadsHold
  <2>1. Holds(v) /\ v \in Actors
    BY <1>1 DEF StagingInv, UploadsHold
  <2>2. CASE v # u
    BY <1>3, <1>5, <1>7, <2>1, <2>2 DEF Holds
  <2>3. CASE v = u
    BY <1>2, <1>3, <1>4, <1>5, <1>7, <2>1, <2>3 DEF Holds, InHand
  <2> QED
    BY <2>2, <2>3
<1>9. ReadersHold'
  <2>1. \A v \in Viewers : v \in Actors /\ v # u
    BY ActorsApart
  <2> QED
    BY <1>5, <2>1 DEF ReadersHold, StagingInv
<1>10. LockHeld'
  BY <1>1, <1>3, <1>4, <1>5, <1>7 DEF StagingInv, LockHeld
<1>11. \A v \in Committed : v \in Actors /\ v \in DriverUploads
  BY <1>1 DEF Committed
<1>12. IdsBelow'
  BY <1>4, <1>5, <1>7, <1>11, NextIdIs DEF StagingInv, IdsBelow
<1>13. IdsDiffer'
  BY <1>4, <1>5, <1>7, <1>11 DEF StagingInv, IdsDiffer
<1>14. Staged'
  <2> SUFFICES ASSUME NEW v \in DriverUploads
               PROVE  /\ dop'[v].pc = "copying" => dpart'[dop'[v].id] = -v \/ v \in hit'
                      /\ dop'[v].pc \in Waiting => dpart'[dop'[v].id] = v \/ v \in hit'
    BY DEF Staged, Waiting
  <2>1. CASE v = u
    BY <1>1, <1>4, <1>5, <2>1 DEF Waiting
  <2>2. CASE v # u
    <3>1. dop'[v] = dop[v]
      BY <1>1, <1>5, <2>2
    <3>2. /\ dop[v].pc = "copying" => dpart[dop[v].id] = -v \/ v \in hit
          /\ dop[v].pc \in Waiting => dpart[dop[v].id] = v \/ v \in hit
      BY DEF StagingInv, Staged, Waiting
    <3>3. dop[v].pc \in Waiting \cup {"copying"} => dop[v].id \in Ids
      BY DEF StagingInv, UploadsHold, Holds, InHand, Waiting
    <3>4. \A i \in Ids : IF i = dop[u].id THEN dpart[i] \in {v, -v} => v \in hit'
                                          ELSE dpart'[i] = dpart[i]
      BY <1>3, <2>2 DEF StagingInv, DriverTypeOK
    <3> QED
      BY <1>3, <3>1, <3>2, <3>3, <3>4
  <2> QED
    BY <2>1, <2>2
<1> QED
  BY <1>6, <1>8, <1>9, <1>10, <1>12, <1>13, <1>14 DEF StagingInv

LEMMA CommitKeepsStaging ==
  ASSUME DriverAssumption, StagingInv, NEW u \in DriverUploads, ZipTaskCommits(u) \/ ZipTaskFails(u)
  PROVE  StagingInv'
<1>1. u \in Actors /\ DriverUploads \subseteq Actors
  BY ActorsApart
<1>2. PICK p \in {"cleaning", "failing"}, s \in {"processing", "done", "error"} :
        /\ dop' = [dop EXCEPT ![u] = [dop[u] EXCEPT !.pc = p]] /\ drow' = [drow EXCEPT ![u] = s]
        /\ p = "failing" => s # "done"
  <2>1. dop[u].pc \in {"committing", "failing"}
    BY DEF ZipTaskCommits, ZipTaskFails, DAt
  <2>2. drow[u] \in {"processing", "error"}
    BY <2>1 DEF StagingInv, UploadsHold, Holds, InHand, DriverTypeOK
  <2>3. drow = [drow EXCEPT ![u] = drow[u]]
    BY DEF StagingInv, DriverTypeOK
  <2>4. ASSUME ZipTaskCommits(u)
        PROVE  \/ DGo(u, "cleaning") /\ drow' = [drow EXCEPT ![u] = "done"]
               \/ DGo(u, "failing") /\ drow' = [drow EXCEPT ![u] = drow[u]]
    BY <2>3, <2>4 DEF ZipTaskCommits
  <2>5. ASSUME ZipTaskFails(u)
        PROVE  DGo(u, "cleaning") /\ \E s \in {"processing", "error"} : drow' = [drow EXCEPT ![u] = s]
    BY <2>2, <2>3, <2>5 DEF ZipTaskFails
  <2> QED
    BY <2>2, <2>4, <2>5 DEF DGo
<1>3. dop[u].pc \in {"committing", "failing"} /\ UNCHANGED <<folder, json, dpart, dlock, draced, hit>>
  BY DEF ZipTaskCommits, ZipTaskFails, DAt
<1> DEFINE r == [dop[u] EXCEPT !.pc = p]
<1>4. /\ r \in DriverState /\ r.pc = p
      /\ r.label = dop[u].label /\ r.slug = dop[u].slug /\ r.id = dop[u].id
  BY <1>1 DEF StagingInv, DriverTypeOK, DriverState, InHand
<1>5. dop' = [dop EXCEPT ![u] = r]
  BY <1>2
<1> HIDE DEF r
<1>6. \A v \in Actors : IF v = u THEN dop'[v] = r ELSE dop'[v] = dop[v]
  BY <1>1, <1>5 DEF StagingInv, DriverTypeOK
<1>7. \A v \in DriverUploads : IF v = u THEN drow'[v] = s ELSE drow'[v] = drow[v]
  BY <1>2 DEF StagingInv, DriverTypeOK
<1>8. DriverTypeOK'
  BY <1>1, <1>2, <1>3, <1>4, <1>5 DEF StagingInv, DriverTypeOK
<1>9. drow[u] # "none"
  BY <1>3 DEF StagingInv, UploadsHold, Holds, InHand
<1>10. Present' = Present /\ Committed' = Committed
  BY <1>3, <1>7, <1>9 DEF Present, Committed
<1>11. NextId' = NextId
  BY <1>10 DEF NextId, Committed
<1>12. UploadsHold'
  <2> SUFFICES ASSUME NEW v \in DriverUploads PROVE Holds(v)'
    BY DEF UploadsHold
  <2>1. Holds(v) /\ v \in Actors
    BY <1>1 DEF StagingInv, UploadsHold
  <2>2. CASE v # u
    BY <1>6, <1>7, <1>10, <2>1, <2>2 DEF Holds
  <2>3. CASE v = u
    BY <1>2, <1>3, <1>4, <1>6, <1>7, <1>10, <2>1, <2>3 DEF Holds, InHand
  <2> QED
    BY <2>2, <2>3
<1>13. ReadersHold'
  <2>1. \A v \in Viewers : v \in Actors /\ v # u
    BY ActorsApart
  <2> QED
    BY <1>6, <2>1 DEF ReadersHold, StagingInv
<1>14. LockHeld'
  BY <1>1, <1>2, <1>3, <1>4, <1>6, <1>11 DEF StagingInv, LockHeld
<1>15. \A v \in Committed : v \in Actors
  BY <1>1 DEF Committed
<1>16. IdsBelow' /\ IdsDiffer'
  BY <1>4, <1>6, <1>10, <1>11, <1>15 DEF StagingInv, IdsBelow, IdsDiffer
<1>17. Staged'
  BY <1>1, <1>2, <1>3, <1>4, <1>6 DEF StagingInv, Staged
<1> QED
  BY <1>8, <1>12, <1>13, <1>14, <1>16, <1>17 DEF StagingInv

LEMMA CleanKeepsStaging ==
  ASSUME DriverAssumption, StagingInv, NEW u \in DriverUploads, ZipTaskCleans(u)
  PROVE  StagingInv'
<1> DEFINE r == [dop[u] EXCEPT !.pc = "ended"]
<1>1. u \in Actors /\ DriverUploads \subseteq Actors
  BY ActorsApart
<1>2. dop[u].pc = "cleaning" /\ dop[u].id \in Ids /\ u \in Committed
  BY DEF ZipTaskCleans, DAt, StagingInv, UploadsHold, Holds, InHand, Committed
<1>3. /\ dop' = [dop EXCEPT ![u] = r] /\ dpart' = [dpart EXCEPT ![dop[u].id] = 0]
      /\ UNCHANGED <<folder, json, drow, dlock, draced, hit>>
  BY DEF ZipTaskCleans, DGo
<1>4. /\ r \in DriverState /\ r.pc = "ended"
      /\ r.label = dop[u].label /\ r.slug = dop[u].slug /\ r.id = dop[u].id
  BY <1>1 DEF StagingInv, DriverTypeOK, DriverState, InHand
<1> HIDE DEF r
<1>5. \A v \in Actors : IF v = u THEN dop'[v] = r ELSE dop'[v] = dop[v]
  BY <1>1, <1>3 DEF StagingInv, DriverTypeOK
<1>6. DriverTypeOK'
  <2>1. dpart' \in [Ids -> Int]
    <3>1. dpart \in [Ids -> Int] /\ 0 \in Int
      BY DEF StagingInv, DriverTypeOK
    <3> QED
      BY <1>3, <3>1
  <2>2. dop' \in [Actors -> DriverState]
    BY <1>1, <1>3, <1>4 DEF StagingInv, DriverTypeOK
  <2> QED
    BY <1>3, <2>1, <2>2 DEF StagingInv, DriverTypeOK
<1>7. Present' = Present /\ NextId' = NextId /\ Committed' = Committed
  BY <1>3 DEF Present, NextId, Committed
<1>8. UploadsHold'
  <2> SUFFICES ASSUME NEW v \in DriverUploads PROVE Holds(v)'
    BY DEF UploadsHold
  <2>1. Holds(v) /\ v \in Actors
    BY <1>1 DEF StagingInv, UploadsHold
  <2>2. CASE v # u
    BY <1>3, <1>5, <1>7, <2>1, <2>2 DEF Holds
  <2>3. CASE v = u
    BY <1>2, <1>3, <1>4, <1>5, <1>7, <2>1, <2>3 DEF Holds, InHand
  <2> QED
    BY <2>2, <2>3
<1>9. ReadersHold'
  <2>1. \A v \in Viewers : v \in Actors /\ v # u
    BY ActorsApart
  <2> QED
    BY <1>5, <2>1 DEF ReadersHold, StagingInv
<1>10. LockHeld'
  BY <1>1, <1>3, <1>4, <1>5, <1>7 DEF StagingInv, LockHeld
<1>11. \A v \in Committed : v \in Actors
  BY <1>1 DEF Committed
<1>12. IdsBelow' /\ IdsDiffer'
  BY <1>4, <1>5, <1>7, <1>11 DEF StagingInv, IdsBelow, IdsDiffer
<1>13. Staged'
  <2> SUFFICES ASSUME NEW v \in DriverUploads, v # u, dop[v].pc \in Waiting \cup {"copying"}
               PROVE  dpart'[dop[v].id] = dpart[dop[v].id]
    BY <1>1, <1>3, <1>4, <1>5 DEF StagingInv, Staged, Waiting
  <2>1. dop[v].id \in Ids
    BY DEF StagingInv, UploadsHold, Holds, InHand, Waiting
  <2>2. dop[v].id # dop[u].id
    <3>1. CASE dop[v].pc = "copying"
      BY <1>2, <3>1, NextIdIs DEF StagingInv, LockHeld, IdsBelow, Ids
    <3>2. CASE dop[v].pc \in Waiting
      <4>1. v \in Committed
        BY <3>2 DEF StagingInv, UploadsHold, Holds, InHand, Waiting, Committed
      <4> QED
        BY <1>2, <2>1, <4>1 DEF StagingInv, IdsDiffer, Ids
    <3> QED
      BY <3>1, <3>2
  <2> QED
    BY <1>2, <1>3, <2>1, <2>2 DEF StagingInv, DriverTypeOK
<1> QED
  BY <1>6, <1>8, <1>9, <1>10, <1>12, <1>13 DEF StagingInv
-----------------------------------------------------------------------------
(***************************************************************************)
(* Drivers: the labels of the catalogue                                    *)
(***************************************************************************)
LEMMA WindowIs ==
  ASSUME DriverAssumption, DriverTypeOK
  PROVE  InWindow = {a \in Actors : dop[a].pc \in {"truncating", "writing"}}
  BY DEF InWindow

\* Once displaced, always displaced: uploads that were sent keep their machine and folders stay.
LEMMA StaysDisplaced ==
  ASSUME NEW u \in DriverUploads, Displaced(u), Present \subseteq Present',
         dop'[u].label = dop[u].label, dop'[u].slug = dop[u].slug,
         \A v \in DriverUploads : Settled(v) =>
           Settled(v)' /\ dop'[v].label = dop[v].label /\ dop'[v].slug = dop[v].slug
  PROVE  Displaced(u)'
  BY DEF Displaced, Rival

\* A step that neither enters nor leaves the window, nor touches drivers.json.
LEMMA QuietKeepsLabels ==
  ASSUME DriverAssumption, StagingInv, OneWriter, WrittenLabels,
         json' = json, draced' = draced, Present \subseteq Present', InWindow' = InWindow,
         \A a \in InWindow : dop'[a].seen = dop[a].seen,
         \A u \in DriverUploads :
           /\ Settled(u) => Settled(u)' /\ dop'[u].label = dop[u].label /\ dop'[u].slug = dop[u].slug
           /\ dop'[u].pc = "committing" \/ drow'[u] = "done" =>
                dop[u].pc = "committing" \/ drow[u] = "done"
           /\ u \in InWindow => dop'[u].then = dop[u].then
  PROVE  OneWriter' /\ WrittenLabels'
<1>1. OneWriter'
  BY DEF OneWriter
<1>2. ASSUME ~draced, NEW u \in DriverUploads, ~Displaced(u)'
      PROVE  /\ dop'[u].pc = "committing" \/ drow'[u] = "done" =>
                  IF InWindow = {} THEN json # Unreadable /\ Lists(json, u)'
                  ELSE \A a \in InWindow : Lists(dop[a].seen, u)'
             /\ u \in InWindow /\ dop[u].then = "commit" => Lists(dop[u].seen, u)'
  <2>1. CASE ~Settled(u)
    <3>1. u \notin InWindow /\ dop[u].pc # "committing" /\ drow[u] # "done"
      BY <2>1 DEF Settled, InWindow, StagingInv, UploadsHold, Holds
    <3> QED
      BY <3>1
  <2>2. CASE Settled(u)
    <3>1. dop'[u].label = dop[u].label /\ dop'[u].slug = dop[u].slug
      BY <2>2
    <3>2. ~Displaced(u)
      BY <1>2, <3>1, StaysDisplaced
    <3>3. \A cat : Lists(cat, u) => Lists(cat, u)'
      BY <3>1 DEF Lists, Names1
    <3> QED
      BY <1>2, <3>2, <3>3 DEF WrittenLabels
  <2> QED
    BY <2>1, <2>2
<1>3. WrittenLabels'
  BY <1>2 DEF WrittenLabels, Lists
<1> QED
  BY <1>1, <1>3

LEMMA QuietMoveKeepsLabels ==
  ASSUME DriverAssumption, StagingInv, OneWriter, WrittenLabels, NEW a \in Actors, NEW r \in DriverState,
         dop' = [dop EXCEPT ![a] = r], json' = json, draced' = draced, Present \subseteq Present',
         dop[a].pc \notin {"truncating", "writing"}, r.pc \notin {"truncating", "writing", "committing"},
         Settled(a) => r.pc \notin {"idle", "copying", "sending", "discarding"}
                       /\ r.label = dop[a].label /\ r.slug = dop[a].slug,
         \A u \in DriverUploads : drow'[u] = "done" =>
           drow[u] = "done" \/ (u = a /\ dop[a].pc = "committing")
  PROVE  OneWriter' /\ WrittenLabels'
<1>1. \A u \in Actors : IF u = a THEN dop'[u] = r ELSE dop'[u] = dop[u]
  BY DEF StagingInv, DriverTypeOK
<1>2. DriverUploads \subseteq Actors
  BY ActorsApart
<1>3. InWindow' = InWindow /\ a \notin InWindow
  BY <1>1 DEF InWindow
<1>4. \A b \in InWindow : dop'[b] = dop[b]
  BY <1>1, <1>3 DEF InWindow
<1>5. ASSUME NEW u \in DriverUploads
      PROVE  /\ Settled(u) => Settled(u)' /\ dop'[u].label = dop[u].label /\ dop'[u].slug = dop[u].slug
             /\ dop'[u].pc = "committing" \/ drow'[u] = "done" =>
                  dop[u].pc = "committing" \/ drow[u] = "done"
             /\ u \in InWindow => dop'[u].then = dop[u].then
  <2>1. CASE u = a
    BY <1>1, <1>3, <2>1 DEF Settled
  <2>2. CASE u # a
    BY <1>1, <1>2, <2>2 DEF Settled
  <2> QED
    BY <2>1, <2>2
<1> QED
  BY <1>3, <1>4, <1>5, QuietKeepsLabels

\* Nothing is said once changes of the catalogue have overlapped.
LEMMA RacedKeepsLabels ==
  ASSUME draced' = TRUE
  PROVE  OneWriter' /\ WrittenLabels'
  BY DEF OneWriter, WrittenLabels
-----------------------------------------------------------------------------
(***************************************************************************)
(* Drivers: the steps                                                      *)
(***************************************************************************)
LEMMA ScanKeeps ==
  ASSUME DriverAssumption, DriverInv, NEW a \in Actors, ReadAndScan(a)
  PROVE  DriverInv'
<1> DEFINE r == [dop[a] EXCEPT !.pc = "truncating", !.seen = Rebuilt]
<1>1. StagingInv /\ OneWriter /\ WrittenLabels /\ DriverTypeOK
  BY DEF DriverInv, StagingInv
<1>2. /\ dop[a].pc = "rebuilding" /\ dop' = [dop EXCEPT ![a] = r]
      /\ UNCHANGED <<folder, json, dpart, drow, dlock, hit>>
      /\ draced' = (draced \/ InWindow # {})
  BY DEF ReadAndScan, DAt
<1>3. /\ r \in DriverState /\ r.pc = "truncating" /\ r.seen = Rebuilt
      /\ r.label = dop[a].label /\ r.slug = dop[a].slug /\ r.id = dop[a].id /\ r.then = dop[a].then
  <2>1. Rebuilt \in Cats
    BY <1>1, RebuiltIs
  <2>2. dop[a] \in DriverState
    BY <1>1 DEF DriverTypeOK
  <2> QED
    BY <2>1, <2>2 DEF DriverState, InHand
<1> HIDE DEF r
<1>4. Present' = Present
  BY <1>2 DEF Present
<1>5. a \in Viewers => r.then = "end"
  BY <1>1, <1>2, <1>3 DEF StagingInv, ReadersHold
<1>6. a \in DriverUploads => Holds(a)
  BY <1>1 DEF StagingInv, UploadsHold
<1>7. StagingInv'
  <2>1. draced' \in BOOLEAN
    BY <1>2
  <2> QED
    BY <1>1, <1>2, <1>3, <1>4, <1>5, <1>6, <2>1, MoveKeepsStaging
       DEF DriverTypeOK, Holds, Working, InHand, Waiting
<1>8. CASE draced'
  BY <1>2, <1>7, <1>8, RacedKeepsLabels DEF DriverInv
<1>9. CASE ~draced'
  <2>1. ~draced /\ InWindow = {}
    BY <1>2, <1>9
  <2>2. \A u \in Actors : IF u = a THEN dop'[u] = r ELSE dop'[u] = dop[u]
    BY <1>1, <1>2 DEF DriverTypeOK
  <2>3. InWindow' = {a}
    BY <1>3, <2>1, <2>2 DEF InWindow
  <2>4. ASSUME NEW u \in DriverUploads, ~Displaced(u)'
        PROVE  /\ dop'[u].pc = "committing" \/ drow'[u] = "done" =>
                    Names1(r.seen, dop'[u].label, dop'[u].slug)
               /\ u = a => r.then # "commit"
    <3>1. u \in Actors
      BY ActorsApart
    <3>2. dop'[u].label = dop[u].label /\ dop'[u].slug = dop[u].slug
      BY <1>3, <2>2, <3>1
    <3>3. \A v \in DriverUploads : v \in Actors
      BY ActorsApart
    <3>4. \A v \in DriverUploads : Settled(v) =>
             Settled(v)' /\ dop'[v].label = dop[v].label /\ dop'[v].slug = dop[v].slug
      BY <1>3, <2>2, <3>3 DEF Settled
    <3>5. ~Displaced(u)
      BY <1>4, <2>4, <3>2, <3>4, StaysDisplaced
    <3>6. ASSUME dop'[u].pc = "committing" \/ drow'[u] = "done"
          PROVE  Names1(r.seen, dop'[u].label, dop'[u].slug)
      <4>1. dop[u].pc = "committing" \/ drow[u] = "done"
        BY <1>2, <1>3, <2>2, <3>1, <3>6
      <4>2. json # Unreadable /\ Lists(json, u)
        BY <1>1, <2>1, <3>5, <4>1 DEF WrittenLabels
      <4>3. dop[u].label \in Labels /\ dop[u].slug \in Present
        BY <1>1, <4>1 DEF StagingInv, UploadsHold, Holds, InHand
      <4>4. \A t \in Present \ {dop[u].slug} : DefaultLabel[t] # dop[u].label
        BY <3>5 DEF Displaced
      <4>5. Names1(Rebuilt, dop[u].label, dop[u].slug)
        BY <1>1, <4>2, <4>3, <4>4, RebuiltIs DEF Lists
      <4> QED
        BY <1>3, <3>2, <4>5
    <3>7. u = a => r.then # "commit"
      BY <1>2, <1>3, <1>6 DEF Holds
    <3> QED
      BY <3>6, <3>7
  <2>5. WrittenLabels'
    BY <2>2, <2>3, <2>4 DEF WrittenLabels, Lists, Names1
  <2>6. OneWriter'
    BY <2>3 DEF OneWriter
  <2> QED
    BY <1>7, <2>5, <2>6 DEF DriverInv
<1> QED
  BY <1>8, <1>9

LEMMA TruncateKeeps ==
  ASSUME DriverAssumption, DriverInv, NEW a \in Actors, TruncateJson(a)
  PROVE  DriverInv'
<1> DEFINE r == [dop[a] EXCEPT !.pc = "writing"]
<1>1. StagingInv /\ OneWriter /\ WrittenLabels /\ DriverTypeOK
  BY DEF DriverInv, StagingInv
<1>2. /\ dop[a].pc = "truncating" /\ dop' = [dop EXCEPT ![a] = r] /\ json' = Unreadable
      /\ UNCHANGED <<folder, dpart, drow, dlock, draced, hit>>
  BY DEF TruncateJson, DAt, DGo
<1>3. /\ r \in DriverState /\ r.pc = "writing" /\ r.seen = dop[a].seen
      /\ r.label = dop[a].label /\ r.slug = dop[a].slug /\ r.id = dop[a].id /\ r.then = dop[a].then
  BY <1>1 DEF DriverTypeOK, DriverState, InHand
<1> HIDE DEF r
<1>4. Present' = Present
  BY <1>2 DEF Present
<1>5. a \in Viewers => r.then = "end"
  BY <1>1, <1>2, <1>3 DEF StagingInv, ReadersHold
<1>6. a \in DriverUploads => Holds(a)
  BY <1>1 DEF StagingInv, UploadsHold
<1>7. StagingInv'
  BY <1>1, <1>2, <1>3, <1>4, <1>5, <1>6, MoveKeepsStaging
     DEF DriverTypeOK, Holds, Working, InHand, Waiting
<1>8. \A u \in Actors : IF u = a THEN dop'[u] = r ELSE dop'[u] = dop[u]
  BY <1>1, <1>2 DEF DriverTypeOK
<1>9. InWindow' = InWindow /\ a \in InWindow
  BY <1>2, <1>3, <1>8 DEF InWindow
<1>10. DriverUploads \subseteq Actors /\ InWindow \subseteq Actors
  BY ActorsApart DEF InWindow
<1>11. \A u \in Actors : /\ dop'[u].label = dop[u].label /\ dop'[u].slug = dop[u].slug
                         /\ dop'[u].seen = dop[u].seen /\ dop'[u].then = dop[u].then
                         /\ dop'[u].pc = "committing" => dop[u].pc = "committing"
                         /\ Settled(u) => Settled(u)'
  BY <1>3, <1>8 DEF Settled
<1>12. ASSUME ~draced, NEW u \in DriverUploads, ~Displaced(u)'
       PROVE  /\ dop'[u].pc = "committing" \/ drow[u] = "done" =>
                   \A b \in InWindow : Names1(dop'[b].seen, dop'[u].label, dop'[u].slug)
              /\ u \in InWindow /\ dop'[u].then = "commit" =>
                   Names1(dop'[u].seen, dop'[u].label, dop'[u].slug)
  <2>1. ~Displaced(u)
    BY <1>4, <1>10, <1>11, <1>12, StaysDisplaced
  <2>2. /\ dop[u].pc = "committing" \/ drow[u] = "done" => \A b \in InWindow : Lists(dop[b].seen, u)
        /\ u \in InWindow /\ dop[u].then = "commit" => Lists(dop[u].seen, u)
    BY <1>1, <1>9, <1>12, <2>1 DEF WrittenLabels
  <2> QED
    BY <1>10, <1>11, <2>2 DEF Lists
<1>13. WrittenLabels'
  BY <1>2, <1>9, <1>12 DEF WrittenLabels, Lists, Names1
<1>14. OneWriter'
  BY <1>1, <1>2, <1>9 DEF OneWriter
<1> QED
  BY <1>7, <1>13, <1>14 DEF DriverInv
\* The last write of drivers.json: what was in hand is in the file.
LEMMA WriteEnds ==
  ASSUME DriverAssumption, DriverInv, NEW a \in Actors, dop[a].pc = "writing",
         NEW p \in {"loading", "committing", "ended"},
         a \in DriverUploads => p # "ended" /\ (p = "committing" => dop[a].then = "commit"),
         a \in Viewers => p = "ended",
         dop' = [dop EXCEPT ![a] = [dop[a] EXCEPT !.pc = p, !.seen = NoLabels]], json' = dop[a].seen,
         UNCHANGED <<folder, dpart, drow, dlock, draced, hit>>
  PROVE  DriverInv'
<1> DEFINE r == [dop[a] EXCEPT !.pc = p, !.seen = NoLabels]
<1>1. StagingInv /\ OneWriter /\ WrittenLabels /\ DriverTypeOK
  BY DEF DriverInv, StagingInv
<1>2. /\ r \in DriverState /\ r.pc = p
      /\ r.label = dop[a].label /\ r.slug = dop[a].slug /\ r.id = dop[a].id
  <2>1. NoLabels \in Cats
    BY DEF NoLabels, Cats
  <2>2. dop[a] \in DriverState
    BY <1>1 DEF DriverTypeOK
  <2> QED
    BY <2>1, <2>2 DEF DriverState, InHand
<1>3. dop' = [dop EXCEPT ![a] = r]
  OBVIOUS
<1> HIDE DEF r
<1>4. Present' = Present
  BY DEF Present
<1>5. json' \in Cats /\ json' # Unreadable
  BY <1>1 DEF DriverTypeOK, DriverState, DriverAssumption, Cats
<1>6. a \in DriverUploads => Holds(a)
  BY <1>1 DEF StagingInv, UploadsHold
<1>7. StagingInv'
  <2>1. a \in DriverUploads =>
         /\ dop[a].pc \in Working /\ r.pc \in Working
         /\ dop[a].pc = "discarding" => r.pc = "discarding"
         /\ drow[a] = "done" => r.pc = "cleaning"
         /\ r.pc \in Waiting => dop[a].pc \in Waiting
         /\ r.pc = "rebuilding" => r.then \in {"load", "upsert"}
         /\ r.pc \in {"truncating", "writing"} => r.then \in {"load", "upsert", "commit"}
    BY <1>2, <1>6 DEF Holds, Working, InHand, Waiting
  <2>2. folder' \in [Slugs -> {"absent", "empty", "drivers"}] /\ draced' \in BOOLEAN
    BY <1>1 DEF DriverTypeOK
  <2>3. json' \in Cats \cup {Unreadable} /\ (a \in Viewers => r.pc = "ended")
    BY <1>2, <1>5
  <2> QED
    BY <1>1, <1>2, <1>3, <1>4, <2>1, <2>2, <2>3, MoveKeepsStaging
<1>8. \A u \in Actors : IF u = a THEN dop'[u] = r ELSE dop'[u] = dop[u]
  BY <1>1, <1>3 DEF DriverTypeOK
<1>9. DriverUploads \subseteq Actors
  BY ActorsApart
<1>10. \A u \in Actors : /\ dop'[u].label = dop[u].label /\ dop'[u].slug = dop[u].slug
                         /\ Settled(u) => Settled(u)'
  BY <1>2, <1>8 DEF Settled
<1>11. a \in InWindow
  BY DEF InWindow
<1>12. CASE draced
  BY <1>7, <1>12, RacedKeepsLabels DEF DriverInv
<1>13. CASE ~draced
  <2>1. InWindow = {a}
    BY <1>1, <1>11, <1>13 DEF OneWriter
  <2>2. InWindow' = {}
    BY <1>2, <1>8, <2>1 DEF InWindow
  <2>3. ASSUME NEW u \in DriverUploads, ~Displaced(u)', dop'[u].pc = "committing" \/ drow[u] = "done"
        PROVE  Names1(dop[a].seen, dop'[u].label, dop'[u].slug)
    <3>1. ~Displaced(u)
      BY <1>4, <1>9, <1>10, <2>3, StaysDisplaced
    <3>2. CASE dop[u].pc = "committing" \/ drow[u] = "done"
      BY <1>1, <1>9, <1>10, <1>13, <2>1, <3>1, <3>2 DEF WrittenLabels, Lists
    <3>3. CASE ~(dop[u].pc = "committing" \/ drow[u] = "done")
      <4>1. u = a /\ dop[u].then = "commit"
        BY <1>2, <1>8, <1>9, <2>3, <3>3
      <4> QED
        BY <1>1, <1>9, <1>10, <1>11, <1>13, <3>1, <4>1 DEF WrittenLabels, Lists
    <3> QED
      BY <3>2, <3>3
  <2>4. WrittenLabels'
    BY <1>5, <2>2, <2>3 DEF WrittenLabels, Lists, Names1
  <2>5. OneWriter'
    BY <2>2 DEF OneWriter
  <2> QED
    BY <1>7, <2>4, <2>5 DEF DriverInv
<1> QED
  BY <1>12, <1>13

\* A label forced on what is about to be in the file: cat is what the others are listed in.
LEMMA ForceKeeps ==
  ASSUME DriverAssumption, DriverInv, NEW u \in DriverUploads, NEW cat \in Cats,
         dop[u].pc \in {"loading", "writing"}, InWindow \subseteq {u},
         \A v \in DriverUploads \ {u} : ~draced /\ ~Displaced(v) /\ (dop[v].pc = "committing" \/ drow[v] = "done")
            => Lists(cat, v),
         dop' = [dop EXCEPT ![u] = [dop[u] EXCEPT !.pc = "truncating", !.then = "commit",
                                                 !.seen = Upserted(cat, dop[u].label, dop[u].slug)]],
         json' \in Cats, UNCHANGED <<folder, dpart, drow, dlock, draced, hit>>
  PROVE  DriverInv'
<1> DEFINE new == Upserted(cat, dop[u].label, dop[u].slug)
           r == [dop[u] EXCEPT !.pc = "truncating", !.then = "commit", !.seen = new]
<1>1. StagingInv /\ OneWriter /\ WrittenLabels /\ DriverTypeOK /\ Holds(u) /\ u \in Actors
  BY ActorsApart DEF DriverInv, StagingInv, UploadsHold
<1>2. dop[u].label \in Labels /\ dop[u].slug \in Slugs
  BY <1>1 DEF Holds, InHand, Present
<1>3. new \in Cats
  BY <1>2, UpsertedIs
<1>4. /\ r \in DriverState /\ r.pc = "truncating" /\ r.then = "commit" /\ r.seen = new
      /\ r.label = dop[u].label /\ r.slug = dop[u].slug /\ r.id = dop[u].id
  <2>1. dop[u] \in DriverState
    BY <1>1 DEF DriverTypeOK
  <2> HIDE DEF new
  <2> QED
    BY <1>3, <2>1 DEF DriverState, InHand, Thens
<1>5. dop' = [dop EXCEPT ![u] = r]
  OBVIOUS
<1> HIDE DEF r
<1>6. Present' = Present
  BY DEF Present
<1>7. StagingInv'
  <2>1. u \notin Viewers
    BY ActorsApart
  <2>2. /\ dop[u].pc \in Working /\ r.pc \in Working
        /\ dop[u].pc = "discarding" => r.pc = "discarding"
        /\ drow[u] = "done" => r.pc = "cleaning"
        /\ r.pc \in Waiting => dop[u].pc \in Waiting
        /\ r.pc = "rebuilding" => r.then \in {"load", "upsert"}
        /\ r.pc \in {"truncating", "writing"} => r.then \in {"load", "upsert", "commit"}
    BY <1>1, <1>4 DEF Holds, Working, InHand, Waiting
  <2>3. folder' \in [Slugs -> {"absent", "empty", "drivers"}] /\ draced' \in BOOLEAN
    BY <1>1 DEF DriverTypeOK
  <2>4. json' \in Cats \cup {Unreadable}
    OBVIOUS
  <2> QED
    BY <1>1, <1>4, <1>5, <1>6, <2>1, <2>2, <2>3, <2>4, MoveKeepsStaging
<1>8. \A v \in Actors : IF v = u THEN dop'[v] = r ELSE dop'[v] = dop[v]
  BY <1>1, <1>5 DEF DriverTypeOK
<1>9. DriverUploads \subseteq Actors
  BY ActorsApart
<1>10. \A v \in Actors : /\ dop'[v].label = dop[v].label /\ dop'[v].slug = dop[v].slug
                         /\ Settled(v) => Settled(v)'
  BY <1>4, <1>8 DEF Settled
<1>11. InWindow' = {u}
  BY <1>1, <1>4, <1>8 DEF InWindow
<1>12. Names1(new, dop[u].label, dop[u].slug)
  BY <1>2, UpsertedIs
<1>13. ASSUME ~draced, NEW v \in DriverUploads, ~Displaced(v)'
       PROVE  /\ dop'[v].pc = "committing" \/ drow[v] = "done" => Names1(new, dop'[v].label, dop'[v].slug)
              /\ v = u => Names1(new, dop'[v].label, dop'[v].slug)
  <2>1. ~Displaced(v)
    BY <1>6, <1>9, <1>10, <1>13, StaysDisplaced
  <2>2. CASE v = u
    BY <1>1, <1>10, <1>12, <2>2
  <2>3. CASE v # u
    <3> SUFFICES ASSUME dop[v].pc = "committing" \/ drow[v] = "done"
                 PROVE  Names1(new, dop[v].label, dop[v].slug)
      BY <1>8, <1>9, <1>10, <2>3
    <3>1. Lists(cat, v)
      BY <1>13, <2>1, <2>3
    <3>2. dop[v].label \in Labels /\ dop[v].slug \in Slugs
      BY <1>1 DEF StagingInv, UploadsHold, Holds, InHand, Present
    <3>3. Settled(u)
      BY DEF Settled
    <3>4. dop[v].label # dop[u].label /\ dop[v].slug # dop[u].slug
      BY <2>1, <2>3, <3>3 DEF Displaced, Rival
    <3> QED
      BY <1>2, <3>1, <3>2, <3>4, UpsertedIs DEF Lists
  <2> QED
    BY <2>2, <2>3
<1>14. WrittenLabels'
  <2>1. dop'[u].seen = new
    BY <1>1, <1>4, <1>8
  <2> HIDE DEF new
  <2> QED
    BY <1>11, <1>13, <2>1 DEF WrittenLabels, Lists, Names1
<1>15. OneWriter'
  BY <1>11 DEF OneWriter
<1> QED
  BY <1>7, <1>14, <1>15 DEF DriverInv

LEMMA WriteKeeps ==
  ASSUME DriverAssumption, DriverInv, NEW a \in Actors, WriteJson(a)
  PROVE  DriverInv'
<1>1. StagingInv /\ OneWriter /\ WrittenLabels /\ DriverTypeOK
  BY DEF DriverInv, StagingInv
<1>2. /\ dop[a].pc = "writing" /\ json' = dop[a].seen /\ UNCHANGED <<folder, dpart, drow, dlock, draced, hit>>
  BY DEF WriteJson, DAt
<1>3. a \in InWindow /\ dop[a].seen \in Cats
  BY <1>1, <1>2 DEF InWindow, DriverTypeOK, DriverState
<1>4. CASE a \in DriverUploads
  <2>1. dop[a].then \in {"load", "upsert", "commit"}
    BY <1>1, <1>2, <1>4 DEF StagingInv, UploadsHold, Holds
  <2>2. a \notin Viewers
    BY <1>4, ActorsApart
  <2>3. CASE dop[a].then = "upsert"
    <3>1. dop' = [dop EXCEPT ![a] = [dop[a] EXCEPT !.pc = "truncating", !.then = "commit",
                                                  !.seen = Upserted(dop[a].seen, dop[a].label, dop[a].slug)]]
      BY <2>3 DEF WriteJson
    <3>2. CASE draced
      <4> DEFINE new == Upserted(dop[a].seen, dop[a].label, dop[a].slug)
                 r == [dop[a] EXCEPT !.pc = "truncating", !.then = "commit", !.seen = new]
      <4>1. new \in Cats
        <5>1. dop[a].label \in Labels /\ dop[a].slug \in Slugs
          BY <1>1, <1>2, <1>4 DEF StagingInv, UploadsHold, Holds, InHand, Present
        <5> QED
          BY <1>3, <5>1, UpsertedIs
      <4>2. /\ r \in DriverState /\ r.pc = "truncating" /\ r.then = "commit"
            /\ r.label = dop[a].label /\ r.slug = dop[a].slug /\ r.id = dop[a].id
        <5>1. dop[a] \in DriverState
          BY <1>1 DEF DriverTypeOK
        <5> HIDE DEF new
        <5> QED
          BY <4>1, <5>1 DEF DriverState, InHand, Thens
      <4>3. dop' = [dop EXCEPT ![a] = r]
        BY <3>1
      <4> HIDE DEF r
      <4>4. Present' = Present
        BY <1>2 DEF Present
      <4>5. Holds(a)
        BY <1>1, <1>4 DEF StagingInv, UploadsHold
      <4>6. StagingInv'
        BY <1>1, <1>2, <1>3, <2>2, <4>2, <4>3, <4>4, <4>5, MoveKeepsStaging
           DEF DriverTypeOK, Holds, Working, InHand, Waiting
      <4> QED
        BY <1>2, <3>2, <4>6, RacedKeepsLabels DEF DriverInv
    <3>3. CASE ~draced
      <4>1. InWindow = {a}
        BY <1>1, <1>3, <3>3 DEF OneWriter
      <4>2. \A v \in DriverUploads \ {a} : ~Displaced(v) /\ (dop[v].pc = "committing" \/ drow[v] = "done")
              => Lists(dop[a].seen, v)
        BY <1>1, <3>3, <4>1 DEF WrittenLabels
      <4> QED
        BY <1>2, <1>3, <1>4, <3>1, <4>1, <4>2, ForceKeeps
    <3> QED
      BY <3>2, <3>3
  <2>4. CASE dop[a].then = "load"
    <3>1. dop' = [dop EXCEPT ![a] = [dop[a] EXCEPT !.pc = "loading", !.seen = NoLabels]]
      BY <2>4 DEF WriteJson
    <3> QED
      BY <1>2, <2>2, <3>1, WriteEnds
  <2>5. CASE dop[a].then = "commit"
    <3>1. dop' = [dop EXCEPT ![a] = [dop[a] EXCEPT !.pc = "committing", !.seen = NoLabels]]
      BY <2>5 DEF WriteJson
    <3> QED
      BY <1>2, <2>2, <2>5, <3>1, WriteEnds
  <2> QED
    BY <2>1, <2>3, <2>4, <2>5
<1>5. CASE a \in Viewers
  <2>1. dop[a].then = "end" /\ a \notin DriverUploads
    BY <1>1, <1>2, <1>5, ActorsApart DEF StagingInv, ReadersHold
  <2>2. dop' = [dop EXCEPT ![a] = [dop[a] EXCEPT !.pc = "ended", !.seen = NoLabels]]
    BY <2>1 DEF WriteJson
  <2> QED
    BY <1>2, <2>1, <2>2, WriteEnds
<1> QED
  BY <1>4, <1>5 DEF Actors

LEMMA WriteFailsKeeps ==
  ASSUME DriverAssumption, DriverInv, NEW a \in Actors, WriteJsonFails(a)
  PROVE  DriverInv'
<1> DEFINE r == [dop[a] EXCEPT !.pc = IF a \in DriverUploads THEN "failing" ELSE "ended", !.seen = NoLabels]
<1>1. StagingInv /\ DriverTypeOK
  BY DEF DriverInv, StagingInv
<1>2. /\ dop[a].pc = "writing" /\ dop' = [dop EXCEPT ![a] = r] /\ draced' = TRUE
      /\ UNCHANGED <<folder, json, dpart, drow, dlock, hit>>
  BY DEF WriteJsonFails, DAt
<1>3. /\ r \in DriverState /\ r.pc = IF a \in DriverUploads THEN "failing" ELSE "ended"
      /\ r.label = dop[a].label /\ r.slug = dop[a].slug /\ r.id = dop[a].id
  <2>1. NoLabels \in Cats
    BY DEF NoLabels, Cats
  <2>2. dop[a] \in DriverState
    BY <1>1 DEF DriverTypeOK
  <2> QED
    BY <2>1, <2>2 DEF DriverState, InHand
<1> HIDE DEF r
<1>4. Present' = Present
  BY <1>2 DEF Present
<1>5. a \in DriverUploads => Holds(a)
  BY <1>1 DEF StagingInv, UploadsHold
<1>6. a \in Viewers => a \notin DriverUploads
  BY ActorsApart
<1>7. a \in DriverUploads => /\ dop[a].pc \in Working /\ r.pc \in Working /\ r.pc = "failing"
                             /\ drow[a] # "done"
  BY <1>2, <1>3, <1>5 DEF Holds, Working, InHand
<1>8. StagingInv'
  <2>1. folder' \in [Slugs -> {"absent", "empty", "drivers"}] /\ draced' \in BOOLEAN
        /\ json' \in Cats \cup {Unreadable}
    BY <1>1, <1>2 DEF DriverTypeOK
  <2> QED
    BY <1>1, <1>2, <1>3, <1>4, <1>6, <1>7, <2>1, MoveKeepsStaging DEF Waiting
<1> QED
  BY <1>2, <1>8, RacedKeepsLabels DEF DriverInv

\* load_catalog and what it leads to: the label is forced on the file's catalogue, or the
\* file is rebuilt first.
LEMMA LoadKeeps ==
  ASSUME DriverAssumption, DriverInv, NEW u \in DriverUploads, LoadForUpsert(u)
  PROVE  DriverInv'
<1>1. StagingInv /\ OneWriter /\ WrittenLabels /\ DriverTypeOK /\ Holds(u) /\ u \in Actors
  BY ActorsApart DEF DriverInv, StagingInv, UploadsHold
<1>2. /\ dop[u].pc = "loading" /\ draced' = (draced \/ InWindow # {})
      /\ UNCHANGED <<folder, json, dpart, drow, dlock, hit>>
  BY DEF LoadForUpsert, DAt
<1>3. Present' = Present
  BY <1>2 DEF Present
<1>4. dop[u].label \in Labels /\ dop[u].slug \in Slugs /\ drow[u] \notin {"none", "done"}
  BY <1>1, <1>2 DEF Holds, InHand, Present
<1>5. json' \in Cats \cup {Unreadable} /\ folder' \in [Slugs -> {"absent", "empty", "drivers"}]
      /\ draced' \in BOOLEAN
  BY <1>1, <1>2 DEF DriverTypeOK
<1>6. u \notin Viewers
  BY ActorsApart
<1>7. ASSUME NEW r \in DriverState, dop' = [dop EXCEPT ![u] = r],
             r.label = dop[u].label, r.slug = dop[u].slug, r.id = dop[u].id,
             \/ r.pc = "truncating" /\ r.then = "commit"
             \/ r.pc = "rebuilding" /\ r.then = "upsert"
      PROVE  StagingInv'
  <2>1. /\ dop[u].pc \in Working /\ r.pc \in Working
        /\ dop[u].pc # "discarding" /\ r.pc \notin Waiting
        /\ r.pc = "rebuilding" => r.then \in {"load", "upsert"}
        /\ r.pc \in {"truncating", "writing"} => r.then \in {"load", "upsert", "commit"}
    BY <1>2, <1>7 DEF Working, InHand, Waiting
  <2> QED
    BY <1>1, <1>2, <1>3, <1>4, <1>5, <1>6, <1>7, <2>1, MoveKeepsStaging
<1>8. CASE Readable
  <2> DEFINE new == Upserted(json, dop[u].label, dop[u].slug)
             r == [dop[u] EXCEPT !.pc = "truncating", !.then = "commit", !.seen = new]
  <2>1. json \in Cats
    BY <1>1, <1>8 DEF DriverTypeOK, Readable
  <2>2. dop' = [dop EXCEPT ![u] = r]
    BY <1>8 DEF LoadForUpsert
  <2>3. CASE draced \/ InWindow # {}
    <3>1. new \in Cats
      BY <1>4, <2>1, UpsertedIs
    <3>2. /\ r \in DriverState /\ r.pc = "truncating" /\ r.then = "commit"
          /\ r.label = dop[u].label /\ r.slug = dop[u].slug /\ r.id = dop[u].id
      <4>1. dop[u] \in DriverState
        BY <1>1 DEF DriverTypeOK
      <4> HIDE DEF new
      <4> QED
        BY <3>1, <4>1 DEF DriverState, InHand, Thens
    <3> HIDE DEF r
    <3>3. StagingInv'
      BY <1>7, <2>2, <3>2
    <3> QED
      BY <1>2, <2>3, <3>3, RacedKeepsLabels DEF DriverInv
  <2>4. CASE ~draced /\ InWindow = {}
    <3>1. \A v \in DriverUploads \ {u} : ~Displaced(v) /\ (dop[v].pc = "committing" \/ drow[v] = "done")
            => Lists(json, v)
      BY <1>1, <2>4 DEF WrittenLabels
    <3>2. draced' = draced
      BY <1>1, <1>2, <2>4 DEF DriverTypeOK
    <3>3. json' \in Cats /\ UNCHANGED <<folder, dpart, drow, dlock, draced, hit>>
      BY <1>2, <2>1, <3>2
    <3>4. InWindow \subseteq {u} /\ dop[u].pc \in {"loading", "writing"}
      BY <1>2, <2>4
    <3>5. dop' = [dop EXCEPT ![u] = [dop[u] EXCEPT !.pc = "truncating", !.then = "commit",
                                        !.seen = Upserted(json, dop[u].label, dop[u].slug)]]
      BY <2>2
    <3> QED
      BY <2>1, <3>1, <3>3, <3>4, <3>5, ForceKeeps
  <2> QED
    BY <2>3, <2>4
<1>9. CASE ~Readable
  <2> DEFINE r == [dop[u] EXCEPT !.pc = "rebuilding", !.then = "upsert"]
  <2>1. dop' = [dop EXCEPT ![u] = r]
    BY <1>9 DEF LoadForUpsert
  <2>2. /\ r \in DriverState /\ r.pc = "rebuilding" /\ r.then = "upsert"
        /\ r.label = dop[u].label /\ r.slug = dop[u].slug /\ r.id = dop[u].id
    <3>1. dop[u] \in DriverState
      BY <1>1 DEF DriverTypeOK
    <3> QED
      BY <3>1 DEF DriverState, InHand, Thens
  <2> HIDE DEF r
  <2>3. StagingInv'
    BY <1>7, <2>1, <2>2
  <2>4. CASE draced \/ InWindow # {}
    BY <1>2, <2>3, <2>4, RacedKeepsLabels DEF DriverInv
  <2>5. CASE ~draced /\ InWindow = {}
    <3>1. draced' = draced
      BY <1>1, <1>2, <2>5 DEF DriverTypeOK
    <3> QED
      BY <1>1, <1>2, <1>3, <2>1, <2>2, <2>3, <3>1, QuietMoveKeepsLabels DEF DriverInv
  <2> QED
    BY <2>4, <2>5
<1> QED
  BY <1>8, <1>9

LEMMA ViewKeeps ==
  ASSUME DriverAssumption, DriverInv, NEW v \in Viewers, View(v)
  PROVE  DriverInv'
<1> DEFINE r == [dop[v] EXCEPT !.pc = "rebuilding", !.then = "end"]
<1>1. StagingInv /\ OneWriter /\ WrittenLabels /\ DriverTypeOK /\ v \in Actors /\ v \notin DriverUploads
  BY ActorsApart DEF DriverInv, StagingInv
<1>2. /\ dop[v].pc = "idle" /\ dop' = [dop EXCEPT ![v] = r]
      /\ UNCHANGED <<folder, json, dpart, drow, dlock, draced, hit>>
  BY DEF View, DAt
<1>3. /\ r \in DriverState /\ r.pc = "rebuilding" /\ r.then = "end"
      /\ r.label = dop[v].label /\ r.slug = dop[v].slug /\ r.id = dop[v].id
  <2>1. dop[v] \in DriverState
    BY <1>1 DEF DriverTypeOK
  <2> QED
    BY <2>1 DEF DriverState, InHand, Thens
<1> HIDE DEF r
<1>4. Present' = Present
  BY <1>2 DEF Present
<1>5. json' \in Cats \cup {Unreadable} /\ folder' \in [Slugs -> {"absent", "empty", "drivers"}]
      /\ draced' \in BOOLEAN
  BY <1>1, <1>2 DEF DriverTypeOK
<1>6. StagingInv'
  BY <1>1, <1>2, <1>3, <1>4, <1>5, MoveKeepsStaging
<1> QED
  BY <1>1, <1>2, <1>3, <1>4, <1>6, QuietMoveKeepsLabels DEF DriverInv, Settled

LEMMA UploadKeeps ==
  ASSUME DriverAssumption, DriverInv, NEW u \in DriverUploads,
         \/ \E l \in Labels, s \in Slugs : BeginCopy(u, l, s)
         \/ Copied(u) \/ CopyFails(u) \/ DiscardZip(u)
  PROVE  DriverInv'
<1>1. StagingInv /\ OneWriter /\ WrittenLabels /\ DriverTypeOK /\ u \in Actors
  BY ActorsApart DEF DriverInv, StagingInv
<1>2. NoLabels \in Cats
  BY DEF NoLabels, Cats
<1>3. dop[u] \in DriverState
  BY <1>1 DEF DriverTypeOK
<1>4. CASE \E l \in Labels, s \in Slugs : BeginCopy(u, l, s)
  <2>1. PICK l \in Labels, s \in Slugs : BeginCopy(u, l, s)
    BY <1>4
  <2> DEFINE r == [IdleActor EXCEPT !.pc = "copying", !.label = l, !.slug = s, !.id = NextId]
  <2>2. StagingInv'
    BY <1>1, <2>1, BeginCopyKeepsStaging
  <2>3. /\ dop[u].pc = "idle" /\ dop' = [dop EXCEPT ![u] = r]
        /\ UNCHANGED <<json, drow, draced, hit>>
    BY <2>1 DEF BeginCopy, DAt
  <2>4. r.pc = "copying"
    BY DEF IdleActor
  <2>5. r \in DriverState
    <3>1. dop'[u] = r
      BY <1>1, <2>3 DEF DriverTypeOK
    <3> HIDE DEF r
    <3> QED
      BY <1>1, <2>2, <3>1 DEF StagingInv, DriverTypeOK
  <2>6. Present \subseteq Present'
    BY <1>1, <2>1 DEF BeginCopy, Present, DriverTypeOK
  <2> HIDE DEF r
  <2> QED
    BY <1>1, <2>2, <2>3, <2>4, <2>5, <2>6, QuietMoveKeepsLabels DEF DriverInv, Settled
<1>5. CASE Copied(u)
  <2> DEFINE r == [dop[u] EXCEPT !.pc = "sending"]
  <2>1. StagingInv'
    BY <1>1, <1>5, CopiedKeepsStaging
  <2>2. /\ dop[u].pc = "copying" /\ dop' = [dop EXCEPT ![u] = r] /\ drow' = [drow EXCEPT ![u] = "processing"]
        /\ UNCHANGED <<folder, json, draced, hit>>
    BY <1>5 DEF Copied, DAt, DGo
  <2>3. r \in DriverState /\ r.pc = "sending"
    BY <1>3 DEF DriverState, InHand
  <2>4. Present' = Present
    BY <2>2 DEF Present
  <2>5. \A v \in DriverUploads : drow'[v] = "done" => drow[v] = "done"
    BY <1>1, <2>2 DEF DriverTypeOK
  <2> HIDE DEF r
  <2> QED
    BY <1>1, <2>1, <2>2, <2>3, <2>4, <2>5, QuietMoveKeepsLabels DEF DriverInv, Settled
<1>6. CASE CopyFails(u)
  <2> DEFINE r == [dop[u] EXCEPT !.pc = "discarding"]
  <2>1. StagingInv'
    BY <1>1, <1>6, CopyFailsKeepsStaging
  <2>2. /\ dop[u].pc = "copying" /\ dop' = [dop EXCEPT ![u] = r]
        /\ UNCHANGED <<folder, json, dpart, drow, draced, hit>>
    BY <1>6 DEF CopyFails, DAt, DGo
  <2>3. r \in DriverState /\ r.pc = "discarding"
    BY <1>3 DEF DriverState, InHand
  <2>4. Present' = Present
    BY <2>2 DEF Present
  <2> HIDE DEF r
  <2> QED
    BY <1>1, <2>1, <2>2, <2>3, <2>4, QuietMoveKeepsLabels DEF DriverInv, Settled
<1>7. CASE DiscardZip(u)
  <2> DEFINE r == [IdleActor EXCEPT !.pc = "ended"]
  <2>1. StagingInv'
    BY <1>1, <1>7, DiscardKeepsStaging
  <2>2. /\ dop[u].pc = "discarding" /\ dop' = [dop EXCEPT ![u] = r]
        /\ UNCHANGED <<folder, json, drow, dlock, draced>>
    BY <1>7 DEF DiscardZip, DAt
  <2>3. r \in DriverState /\ r.pc = "ended"
    BY <1>2 DEF IdleActor, DriverState, InHand, Thens
  <2>4. Present' = Present
    BY <2>2 DEF Present
  <2> HIDE DEF r
  <2> QED
    BY <1>1, <2>1, <2>2, <2>3, <2>4, QuietMoveKeepsLabels DEF DriverInv, Settled
<1> QED
  BY <1>4, <1>5, <1>6, <1>7

LEMMA TaskKeeps ==
  ASSUME DriverAssumption, DriverInv, NEW u \in DriverUploads,
         \/ SendZip(u) \/ ZipTaskStarts(u) \/ Unpack(u)
         \/ ZipTaskCommits(u) \/ ZipTaskFails(u) \/ ZipTaskCleans(u)
  PROVE  DriverInv'
<1>1. StagingInv /\ OneWriter /\ WrittenLabels /\ DriverTypeOK /\ u \in Actors /\ u \notin Viewers /\ Holds(u)
  BY ActorsApart DEF DriverInv, StagingInv, UploadsHold
<1>2. dop[u] \in DriverState
  BY <1>1 DEF DriverTypeOK
<1>3. CASE SendZip(u) \/ ZipTaskStarts(u) \/ Unpack(u)
  <2>1. PICK p \in {"queued", "discarding", "unpacking", "failing", "rebuilding"},
             t \in {dop[u].then, "load"} :
          /\ dop' = [dop EXCEPT ![u] = [dop[u] EXCEPT !.pc = p, !.then = t]]
          /\ dop[u].pc \in Waiting /\ (p = "rebuilding" => t = "load")
          /\ p \in {"queued", "discarding"} => dop[u].pc = "sending"
          /\ UNCHANGED <<json, dpart, drow, dlock, draced, hit>>
    <3>1. \A p : DGo(u, p) => dop' = [dop EXCEPT ![u] = [dop[u] EXCEPT !.pc = p, !.then = dop[u].then]]
      BY <1>2 DEF DGo, DriverState
    <3>2. CASE SendZip(u)
      BY <3>1, <3>2 DEF SendZip, DAt, Waiting
    <3>3. CASE ZipTaskStarts(u)
      BY <3>1, <3>3 DEF ZipTaskStarts, DAt, Waiting
    <3>4. CASE Unpack(u)
      <4>1. \/ DGo(u, "failing")
            \/ dop' = [dop EXCEPT ![u] = [dop[u] EXCEPT !.pc = "rebuilding", !.then = "load"]]
        BY <3>4 DEF Unpack
      <4> QED
        BY <3>1, <3>4, <4>1 DEF Unpack, DAt, Waiting
    <3> QED
      BY <1>3, <3>2, <3>3, <3>4
  <2> DEFINE r == [dop[u] EXCEPT !.pc = p, !.then = t]
  <2>2. /\ r \in DriverState /\ r.pc = p /\ r.then = t
        /\ r.label = dop[u].label /\ r.slug = dop[u].slug /\ r.id = dop[u].id
    <3>1. p \in InHand /\ t \in Thens
      BY <1>2 DEF DriverState, InHand, Thens
    <3>2. r \in DriverState
      BY <1>2, <3>1 DEF DriverState
    <3>3. /\ r.pc = p /\ r.then = t
          /\ r.label = dop[u].label /\ r.slug = dop[u].slug /\ r.id = dop[u].id
      BY <1>2 DEF DriverState
    <3> QED
      BY <3>2, <3>3
  <2>3. dop' = [dop EXCEPT ![u] = r]
    BY <2>1
  <2> HIDE DEF r
  <2>4. folder' \in [Slugs -> {"absent", "empty", "drivers"}] /\ Present \subseteq Present'
    <3>1. folder' = folder \/ folder' = [folder EXCEPT ![dop[u].slug] = "drivers"]
      BY <1>3 DEF SendZip, ZipTaskStarts, Unpack
    <3> QED
      BY <1>1, <3>1 DEF DriverTypeOK, Present
  <2>5. json' \in Cats \cup {Unreadable} /\ draced' \in BOOLEAN
    BY <1>1, <2>1 DEF DriverTypeOK
  <2>6. /\ dop[u].pc \in Working /\ r.pc \in Working /\ dop[u].pc # "discarding"
        /\ drow[u] # "done" /\ r.pc \notin {"truncating", "writing", "committing"}
        /\ r.pc = "rebuilding" => r.then \in {"load", "upsert"}
        /\ dop[u].pc \in Waiting
    BY <1>1, <2>1, <2>2 DEF Holds, Working, InHand, Waiting
  <2>7. StagingInv'
    BY <1>1, <2>1, <2>2, <2>3, <2>4, <2>5, <2>6, MoveKeepsStaging
  <2>8. /\ dop[u].pc \notin {"truncating", "writing"}
        /\ Settled(u) => r.pc \notin {"idle", "copying", "sending", "discarding"}
    BY <2>1, <2>2 DEF Settled, Waiting
  <2> QED
    BY <1>1, <2>1, <2>2, <2>3, <2>4, <2>6, <2>7, <2>8, QuietMoveKeepsLabels DEF DriverInv
<1>4. CASE ZipTaskCommits(u) \/ ZipTaskFails(u)
  <2>1. StagingInv'
    BY <1>1, <1>4, CommitKeepsStaging
  <2>2. PICK p \in {"cleaning", "failing"} :
          /\ dop' = [dop EXCEPT ![u] = [dop[u] EXCEPT !.pc = p]]
          /\ dop[u].pc \in {"committing", "failing"}
          /\ UNCHANGED <<folder, json, dpart, dlock, draced, hit>>
    BY <1>4 DEF ZipTaskCommits, ZipTaskFails, DAt, DGo
  <2>3. \A v \in DriverUploads : drow'[v] = "done" => drow[v] = "done" \/ (v = u /\ dop[u].pc = "committing")
    BY <1>1, <1>4 DEF ZipTaskCommits, ZipTaskFails, DAt, DriverTypeOK
  <2> DEFINE r == [dop[u] EXCEPT !.pc = p]
  <2>4. r \in DriverState /\ r.pc = p /\ r.label = dop[u].label /\ r.slug = dop[u].slug
    BY <1>2 DEF DriverState, InHand
  <2>5. dop' = [dop EXCEPT ![u] = r] /\ Present' = Present
    BY <2>2 DEF Present
  <2> HIDE DEF r
  <2> QED
    BY <1>1, <2>1, <2>2, <2>3, <2>4, <2>5, QuietMoveKeepsLabels DEF DriverInv
<1>5. CASE ZipTaskCleans(u)
  <2> DEFINE r == [dop[u] EXCEPT !.pc = "ended"]
  <2>1. StagingInv'
    BY <1>1, <1>5, CleanKeepsStaging
  <2>2. /\ dop[u].pc = "cleaning" /\ dop' = [dop EXCEPT ![u] = r]
        /\ UNCHANGED <<folder, json, drow, dlock, draced, hit>>
    BY <1>5 DEF ZipTaskCleans, DAt, DGo
  <2>3. r \in DriverState /\ r.pc = "ended" /\ r.label = dop[u].label /\ r.slug = dop[u].slug
    BY <1>2 DEF DriverState, InHand
  <2>4. Present' = Present
    BY <2>2 DEF Present
  <2> HIDE DEF r
  <2> QED
    BY <1>1, <2>1, <2>2, <2>3, <2>4, QuietMoveKeepsLabels DEF DriverInv
<1> QED
  BY <1>3, <1>4, <1>5

LEMMA DriverNextKeeps ==
  ASSUME DriverAssumption, DriverInv, DriverNext
  PROVE  DriverInv'
<1>1. CASE \E u \in DriverUploads :
             \/ \E l \in Labels, s \in Slugs : BeginCopy(u, l, s)
             \/ Copied(u) \/ CopyFails(u) \/ SendZip(u) \/ DiscardZip(u)
             \/ ZipTaskStarts(u) \/ Unpack(u) \/ LoadForUpsert(u)
             \/ ZipTaskCommits(u) \/ ZipTaskFails(u) \/ ZipTaskCleans(u)
  BY <1>1, UploadKeeps, LoadKeeps, TaskKeeps
<1>2. CASE \E v \in Viewers : View(v)
  BY <1>2, ViewKeeps
<1>3. CASE \E a \in Actors : ReadAndScan(a) \/ TruncateJson(a) \/ WriteJson(a) \/ WriteJsonFails(a)
  BY <1>3, ScanKeeps, TruncateKeeps, WriteKeeps, WriteFailsKeeps
<1> QED
  BY <1>1, <1>2, <1>3 DEF DriverNext

LEMMA DriverInitHolds ==
  ASSUME DriverAssumption, DriverInit
  PROVE  DriverInv
<1>1. NoLabels \in Cats
  BY DEF NoLabels, Cats
<1>2. \A a \in Actors : dop[a] = IdleActor
  BY DEF DriverInit
<1>3. IdleActor \in DriverState /\ IdleActor.pc = "idle"
  BY <1>1 DEF IdleActor, DriverState, Thens
<1>4. DriverUploads \subseteq Actors /\ Viewers \subseteq Actors
  BY ActorsApart
<1>5. DriverTypeOK
  <2>1. folder \in [Slugs -> {"absent", "empty", "drivers"}]
    BY DEF DriverInit
  <2>2. dop \in [Actors -> DriverState]
    BY <1>3 DEF DriverInit
  <2>3. dpart \in [Ids -> Int]
    <3>1. 0 \in Int
      OBVIOUS
    <3> QED
      BY <3>1 DEF DriverInit
  <2> QED
    BY <2>1, <2>2, <2>3 DEF DriverTypeOK, DriverInit
<1>6. \A u \in DriverUploads : drow[u] = "none" /\ dop[u].pc = "idle"
  BY <1>2, <1>3, <1>4 DEF DriverInit
<1>7. UploadsHold /\ ReadersHold /\ LockHeld /\ Staged
  BY <1>2, <1>3, <1>4, <1>6 DEF UploadsHold, Holds, InHand, ReadersHold, LockHeld, Staged
<1>8. Committed = {}
  BY <1>6 DEF Committed
<1>9. InWindow = {}
  BY <1>2, <1>3 DEF InWindow
<1> QED
  BY <1>5, <1>6, <1>7, <1>8, <1>9 DEF DriverInv, StagingInv, IdsBelow, IdsDiffer, OneWriter, WrittenLabels
-----------------------------------------------------------------------------
(***************************************************************************)
(* Language packs                                                          *)
(***************************************************************************)
\* What a step changes in the record of an actor.
LEMMA WithPc ==
  ASSUME NEW x, IsPack(x), NEW p
  PROVE  /\ [x EXCEPT !.pc = p].pc = p /\ [x EXCEPT !.pc = p].todo = x.todo
         /\ [x EXCEPT !.pc = p].seen = x.seen /\ IsPack([x EXCEPT !.pc = p])
<1> DEFINE r == [x EXCEPT !.pc = p]
<1>1. r = [pc |-> p, todo |-> x.todo, saved |-> x.saved, seen |-> x.seen]
  BY DEF IsPack
<1> HIDE DEF r
<1> QED
  <2>1. r.pc = p /\ r.todo = x.todo /\ r.seen = x.seen /\ IsPack(r)
    BY <1>1 DEF IsPack
  <2> QED
    BY <2>1 DEF r

LEMMA WithSeen ==
  ASSUME NEW y, IsPack(y), NEW s
  PROVE  [y EXCEPT !.seen = s].pc = y.pc /\ [y EXCEPT !.seen = s].seen = s /\ IsPack([y EXCEPT !.seen = s])
<1> DEFINE r == [y EXCEPT !.seen = s]
<1>1. r = [pc |-> y.pc, todo |-> y.todo, saved |-> y.saved, seen |-> s]
  BY DEF IsPack
<1> HIDE DEF r
<1>2. r.pc = y.pc /\ r.seen = s /\ IsPack(r)
  BY <1>1 DEF IsPack
<1> QED
  BY <1>2 DEF r

LEMMA WithPcTodoSaved ==
  ASSUME NEW x, IsPack(x), NEW p, NEW t, NEW s
  PROVE  /\ [x EXCEPT !.pc = p, !.todo = t, !.saved = s].pc = p
         /\ IsPack([x EXCEPT !.pc = p, !.todo = t, !.saved = s])
<1> DEFINE y == [x EXCEPT !.pc = p]
           z == [y EXCEPT !.todo = t]
           r == [x EXCEPT !.pc = p, !.todo = t, !.saved = s]
<1>1. IsPack(y) /\ y.pc = p
  BY WithPc
<1>2. r = [z EXCEPT !.saved = s]
  OBVIOUS
<1> HIDE DEF y, r
<1>3. IsPack(z) /\ z.pc = p
  <2>1. z = [pc |-> p, todo |-> t, saved |-> y.saved, seen |-> y.seen]
    BY <1>1 DEF IsPack
  <2> HIDE DEF z
  <2> QED
    BY <2>1 DEF IsPack
<1> HIDE DEF z
<1>4. r = [pc |-> p, todo |-> z.todo, saved |-> s, seen |-> z.seen]
  BY <1>2, <1>3 DEF IsPack
<1>5. r.pc = p /\ IsPack(r)
  BY <1>4 DEF IsPack
<1> QED
  BY <1>5 DEF r

LEMMA PackRecord ==
  ASSUME PackInv, NEW a \in PackActors
  PROVE  IsPack(pop[a])
  BY DEF PackInv, PackTypeOK

LEMMA IdlePackIs ==
  /\ IsPack(IdlePack) /\ IdlePack.pc = "idle"
  /\ \A t : /\ IsPack([IdlePack EXCEPT !.pc = "next cab", !.todo = t])
           /\ [IdlePack EXCEPT !.pc = "next cab", !.todo = t].pc = "next cab"
<1>1. IsPack(IdlePack) /\ IdlePack.pc = "idle"
  BY DEF IdlePack, IsPack
<1>2. ASSUME NEW t
      PROVE  /\ IsPack([IdlePack EXCEPT !.pc = "next cab", !.todo = t])
             /\ [IdlePack EXCEPT !.pc = "next cab", !.todo = t].pc = "next cab"
  <2> DEFINE y == [IdlePack EXCEPT !.pc = "next cab"]
             r == [IdlePack EXCEPT !.pc = "next cab", !.todo = t]
  <2>1. IsPack(y) /\ y.pc = "next cab"
    BY <1>1, WithPc
  <2>2. r = [y EXCEPT !.todo = t]
    OBVIOUS
  <2> HIDE DEF y, r
  <2>3. r = [pc |-> "next cab", todo |-> t, saved |-> y.saved, seen |-> y.seen]
    BY <2>1, <2>2 DEF IsPack
  <2>4. r.pc = "next cab" /\ IsPack(r)
    BY <2>3 DEF IsPack
  <2> QED
    BY <2>4 DEF r
<1> QED
  BY <1>1, <1>2

\* A step of one actor that leaves the files alone.
LEMMA QuietPackStep ==
  ASSUME PackInv, NEW a \in PackActors, NEW r,
         IsPack(r), r.pc \in PackPlaces,
         pop' = [pop EXCEPT ![a] = r], cab' = cab, crossing' = crossing,
         praced' \in BOOLEAN, unlisted' \in BOOLEAN, unlisted => unlisted',
         pop[a].pc = "writing cab" => unlisted', r.pc # "writing cab"
  PROVE  /\ PackTypeOK' /\ OneAuthor' /\ OnDiskPacks' = OnDiskPacks
         /\ \A b \in PackActors : IF b = a THEN pop'[b] = r ELSE pop'[b] = pop[b]
<1>1. \A b \in PackActors : IF b = a THEN pop'[b] = r ELSE pop'[b] = pop[b]
  BY DEF PackInv, PackTypeOK
<1>2. PackTypeOK'
  <2>1. pop' = [b \in PackActors |-> pop'[b]]
    BY DEF PackInv, PackTypeOK
  <2>2. cab' = [n \in Names |-> cab'[n]]
    BY DEF PackInv, PackTypeOK
  <2>3. ASSUME NEW b \in PackActors
        PROVE  IsPack(pop'[b]) /\ pop'[b].pc \in PackPlaces
    <3>1. CASE b = a
      BY <1>1, <3>1
    <3>2. CASE b # a
      BY <1>1, <3>2 DEF PackInv, PackTypeOK
    <3> QED
      BY <3>1, <3>2
  <2> QED
    BY <2>1, <2>2, <2>3 DEF PackTypeOK
<1>3. PackUploads \subseteq PackActors
  BY DEF PackActors
<1>4. ASSUME NEW n PROVE WritersOf(n)' = WritersOf(n) \ {a}
  BY <1>1, <1>3 DEF WritersOf
<1>5. OneAuthor'
  <2> SUFFICES ASSUME NEW n \in Names \ crossing
               PROVE  /\ \A u \in WritersOf(n)' : WritersOf(n)' = {u} /\ cab[n] = -u
                      /\ WritersOf(n)' = {} /\ ~unlisted' => cab[n] \in PackUploads \cup {0, Hollow}
    BY DEF OneAuthor, Hollow
  <2>1. /\ \A u \in WritersOf(n) : WritersOf(n) = {u} /\ cab[n] = -u
        /\ WritersOf(n) = {} /\ ~unlisted => cab[n] \in PackUploads \cup {0, Hollow}
    BY DEF OneAuthor, PackInv
  <2>2. ~unlisted' => a \notin WritersOf(n)
    BY DEF WritersOf
  <2> QED
    BY <1>4, <2>1, <2>2
<1>6. OnDiskPacks' = OnDiskPacks
  BY DEF OnDiskPacks
<1> QED
  BY <1>1, <1>2, <1>5, <1>6

\* An upload that is not over owes a rebuild.
LEMMA OwedKeepsList ==
  ASSUME PackInv, NEW u \in PackUploads,
         pop'[u].pc \in {"next cab", "writing cab", "rebuilding"}, praced' = praced,
         Rebuilding' = Rebuilding
  PROVE  OneRebuild' /\ ListFollows'
<1>1. Owed'
  BY DEF Owed
<1>2. ListFollows'
  BY <1>1 DEF ListFollows
<1> QED
  BY <1>2 DEF PackInv, OneRebuild

LEMMA BeginPacksKeeps ==
  ASSUME PackInv, NEW u \in PackUploads, NEW fs, BeginPacks(u, fs)
  PROVE  PackInv'
<1> DEFINE known == SelectSeq(fs, LAMBDA n : FolderOf[n] # NoLocale)
           r == [IdlePack EXCEPT !.pc = "next cab", !.todo = known]
<1>1. /\ pop[u].pc = "idle" /\ pop' = [pop EXCEPT ![u] = r]
      /\ UNCHANGED <<cab, list, praced, crossing, unlisted>>
  BY DEF BeginPacks, PAt
<1> HIDE DEF known
<1>2. r.pc = "next cab" /\ IsPack(r)
  BY IdlePackIs
<1> HIDE DEF r
<1>3. u \in PackActors
  BY DEF PackActors
<1>4. /\ PackTypeOK' /\ OneAuthor'
      /\ \A b \in PackActors : IF b = u THEN pop'[b] = r ELSE pop'[b] = pop[b]
  BY <1>1, <1>2, <1>3, QuietPackStep DEF PackInv, PackTypeOK, PackPlaces
<1>5. Rebuilding' = Rebuilding
  BY <1>1, <1>2, <1>4 DEF Rebuilding
<1> QED
  BY <1>1, <1>2, <1>3, <1>4, <1>5, OwedKeepsList DEF PackInv

LEMMA OpenCabKeeps ==
  ASSUME PackInv, NEW u \in PackUploads, OpenCab(u)
  PROVE  PackInv'
<1> DEFINE n0 == Head(pop[u].todo)
           others == WritersOf(n0)
           r == [pop[u] EXCEPT !.pc = "writing cab"]
<1>1. /\ pop[u].pc = "next cab" /\ pop' = [pop EXCEPT ![u] = r]
      /\ cab' = [cab EXCEPT ![n0] = IF others = {} THEN -u ELSE Mixed]
      /\ crossing' = IF others = {} THEN crossing ELSE crossing \cup {n0}
      /\ UNCHANGED <<list, praced, unlisted>>
  BY DEF OpenCab, PAt
<1>2. u \in PackActors /\ PackUploads \subseteq PackActors
  BY DEF PackActors
<1>3. /\ r.pc = "writing cab" /\ r.todo = pop[u].todo
      /\ IsPack(r)
  BY <1>2, PackRecord, WithPc
<1> HIDE DEF r
<1>4. \A b \in PackActors : IF b = u THEN pop'[b] = r ELSE pop'[b] = pop[b]
  BY <1>1, <1>2 DEF PackInv, PackTypeOK
<1>5. PackTypeOK'
  <2>1. pop' = [b \in PackActors |-> pop'[b]]
    BY <1>1 DEF PackInv, PackTypeOK
  <2>2. cab' = [n \in Names |-> cab'[n]]
    BY <1>1 DEF PackInv, PackTypeOK
  <2>3. ASSUME NEW b \in PackActors
        PROVE  IsPack(pop'[b]) /\ pop'[b].pc \in PackPlaces
    <3>1. CASE b = u
      BY <1>3, <1>4, <3>1 DEF PackPlaces
    <3>2. CASE b # u
      BY <1>4, <3>2 DEF PackInv, PackTypeOK
    <3> QED
      BY <3>1, <3>2
  <2> QED
    BY <1>1, <2>1, <2>2, <2>3 DEF PackTypeOK, PackInv
<1>6. Rebuilding' = Rebuilding
  BY <1>1, <1>3, <1>4 DEF Rebuilding
<1>7. OneRebuild' /\ ListFollows'
  BY <1>1, <1>2, <1>3, <1>4, <1>6, OwedKeepsList
<1>8. OneAuthor'
  <2> SUFFICES ASSUME NEW n \in Names \ crossing'
               PROVE  /\ \A v \in WritersOf(n)' : WritersOf(n)' = {v} /\ cab'[n] = -v
                      /\ WritersOf(n)' = {} /\ ~unlisted => cab'[n] \in PackUploads \cup {0, Hollow}
    BY <1>1 DEF OneAuthor, Hollow
  <2>1. n \notin crossing
    BY <1>1
  <2>2. /\ \A v \in WritersOf(n) : WritersOf(n) = {v} /\ cab[n] = -v
        /\ WritersOf(n) = {} /\ ~unlisted => cab[n] \in PackUploads \cup {0, Hollow}
    BY <2>1 DEF OneAuthor, PackInv
  <2>3. CASE n = n0
    <3>1. others = {}
      BY <1>1, <2>3
    <3>2. cab'[n] = -u
      BY <1>1, <2>3, <3>1 DEF PackInv, PackTypeOK
    <3>3. WritersOf(n)' = {u}
      BY <1>2, <1>3, <1>4, <2>3, <3>1 DEF WritersOf
    <3> QED
      BY <3>2, <3>3
  <2>4. CASE n # n0
    <3>1. cab'[n] = cab[n]
      BY <1>1, <2>4 DEF PackInv, PackTypeOK
    <3>2. WritersOf(n)' = WritersOf(n)
      BY <1>1, <1>2, <1>3, <1>4, <2>4 DEF WritersOf
    <3> QED
      BY <2>2, <3>1, <3>2
  <2> QED
    BY <2>3, <2>4
<1> QED
  BY <1>5, <1>7, <1>8 DEF PackInv

LEMMA SaveCabKeeps ==
  ASSUME PackInv, NEW u \in PackUploads, SaveCab(u)
  PROVE  PackInv'
<1> DEFINE n0 == Head(pop[u].todo)
<1>1. PICK got \in BOOLEAN :
        /\ pop' = [pop EXCEPT ![u].pc = "next cab", ![u].todo = Tail(@), ![u].saved = @ \/ got]
        /\ cab' = [cab EXCEPT ![n0] = IF @ # -u THEN @ ELSE IF got THEN u ELSE Hollow]
  BY DEF SaveCab
<1>2. pop[u].pc = "writing cab" /\ UNCHANGED <<list, praced, crossing, unlisted>>
  BY DEF SaveCab, PAt
<1> DEFINE r == [pop[u] EXCEPT !.pc = "next cab", !.todo = Tail(pop[u].todo), !.saved = pop[u].saved \/ got]
<1>3. u \in PackActors /\ PackUploads \subseteq PackActors
  BY DEF PackActors
<1>4. pop' = [pop EXCEPT ![u] = r]
  BY <1>1, <1>3, PackRecord DEF PackInv, PackTypeOK
<1>5. r.pc = "next cab" /\ IsPack(r)
  <2>1. IsPack(pop[u])
    BY <1>3, PackRecord
  <2> DEFINE t == Tail(pop[u].todo)
             s == pop[u].saved \/ got
             q == [pop[u] EXCEPT !.pc = "next cab", !.todo = t, !.saved = s]
  <2> HIDE DEF t, s
  <2>2. q.pc = "next cab" /\ IsPack(q)
    BY <2>1, WithPcTodoSaved
  <2> QED
    BY <2>2 DEF t, s
<1> HIDE DEF r
<1>6. \A b \in PackActors : IF b = u THEN pop'[b] = r ELSE pop'[b] = pop[b]
  BY <1>3, <1>4 DEF PackInv, PackTypeOK
<1>7. PackTypeOK'
  <2>1. pop' = [b \in PackActors |-> pop'[b]]
    BY <1>4 DEF PackInv, PackTypeOK
  <2>2. cab' = [n \in Names |-> cab'[n]]
    BY <1>1 DEF PackInv, PackTypeOK
  <2>3. ASSUME NEW b \in PackActors
        PROVE  IsPack(pop'[b]) /\ pop'[b].pc \in PackPlaces
    <3>1. CASE b = u
      BY <1>5, <1>6, <3>1 DEF PackPlaces
    <3>2. CASE b # u
      BY <1>6, <3>2 DEF PackInv, PackTypeOK
    <3> QED
      BY <3>1, <3>2
  <2> QED
    BY <1>2, <2>1, <2>2, <2>3 DEF PackTypeOK, PackInv
<1>8. Rebuilding' = Rebuilding
  BY <1>2, <1>5, <1>6 DEF Rebuilding
<1>9. OneRebuild' /\ ListFollows'
  BY <1>2, <1>3, <1>5, <1>6, <1>8, OwedKeepsList
<1>10. OneAuthor'
  <2> SUFFICES ASSUME NEW n \in Names \ crossing
               PROVE  /\ \A v \in WritersOf(n)' : WritersOf(n)' = {v} /\ cab'[n] = -v
                      /\ WritersOf(n)' = {} /\ ~unlisted => cab'[n] \in PackUploads \cup {0, Hollow}
    BY <1>2 DEF OneAuthor, Hollow
  <2>1. /\ \A v \in WritersOf(n) : WritersOf(n) = {v} /\ cab[n] = -v
        /\ WritersOf(n) = {} /\ ~unlisted => cab[n] \in PackUploads \cup {0, Hollow}
    BY DEF OneAuthor, PackInv
  <2>2. CASE n = n0
    <3>1. u \in WritersOf(n)
      BY <1>2, <2>2 DEF WritersOf
    <3>2. WritersOf(n) = {u} /\ cab[n] = -u
      BY <2>1, <3>1
    <3>3. WritersOf(n)' = {}
      BY <1>3, <1>5, <1>6, <3>2 DEF WritersOf
    <3>4. cab'[n] = IF got THEN u ELSE Hollow
      BY <1>1, <2>2, <3>2 DEF PackInv, PackTypeOK
    <3> QED
      BY <3>3, <3>4
  <2>3. CASE n # n0
    <3>1. cab'[n] = cab[n]
      BY <1>1, <2>3 DEF PackInv, PackTypeOK
    <3>2. WritersOf(n)' = WritersOf(n)
      BY <1>2, <1>3, <1>5, <1>6, <2>3 DEF WritersOf
    <3> QED
      BY <2>1, <3>1, <3>2
  <2> QED
    BY <2>2, <2>3
<1> QED
  BY <1>7, <1>9, <1>10 DEF PackInv

LEMMA SaveFailsOrEndsKeeps ==
  ASSUME PackInv, NEW u \in PackUploads, SaveCabFails(u) \/ EndPacks(u)
  PROVE  PackInv'
<1>1. u \in PackActors /\ PackUploads \subseteq PackActors
  BY DEF PackActors
<1>2. CASE SaveCabFails(u)
  <2> DEFINE r == [IdlePack EXCEPT !.pc = "ended"]
  <2>1. /\ pop[u].pc = "writing cab" /\ pop' = [pop EXCEPT ![u] = r] /\ unlisted' = TRUE
        /\ UNCHANGED <<cab, list, praced, crossing>>
    BY <1>2 DEF SaveCabFails, PAt
  <2>2. r.pc = "ended" /\ IsPack(r)
    BY IdlePackIs, WithPc
  <2> HIDE DEF r
  <2>3. /\ PackTypeOK' /\ OneAuthor'
        /\ \A b \in PackActors : IF b = u THEN pop'[b] = r ELSE pop'[b] = pop[b]
    BY <1>1, <2>1, <2>2, QuietPackStep DEF PackInv, PackTypeOK, PackPlaces
  <2>4. Rebuilding' = Rebuilding
    BY <2>1, <2>2, <2>3 DEF Rebuilding
  <2> QED
    BY <2>1, <2>3, <2>4 DEF PackInv, OneRebuild, ListFollows
<1>3. CASE EndPacks(u)
  <2> DEFINE p == IF pop[u].saved THEN "rebuilding" ELSE "ended"
             r == [pop[u] EXCEPT !.pc = p]
  <2>1. /\ pop[u].pc = "next cab" /\ pop' = [pop EXCEPT ![u] = r] /\ unlisted' = (unlisted \/ ~pop[u].saved)
        /\ UNCHANGED <<cab, list, praced, crossing>>
    BY <1>3 DEF EndPacks, PAt
  <2>2. r.pc = p /\ IsPack(r)
    BY <1>1, PackRecord, WithPc
  <2> HIDE DEF r
  <2>3. /\ PackTypeOK' /\ OneAuthor'
        /\ \A b \in PackActors : IF b = u THEN pop'[b] = r ELSE pop'[b] = pop[b]
    BY <1>1, <2>1, <2>2, QuietPackStep DEF PackInv, PackTypeOK, PackPlaces
  <2>4. Rebuilding' = Rebuilding
    BY <2>1, <2>2, <2>3 DEF Rebuilding
  <2>5. CASE pop[u].saved
    <3>1. pop'[u].pc = "rebuilding"
      BY <1>1, <2>2, <2>3, <2>5
    <3> QED
      BY <2>1, <2>3, <2>4, <3>1, OwedKeepsList DEF PackInv
  <2>6. CASE ~pop[u].saved
    BY <2>1, <2>3, <2>4, <2>6 DEF PackInv, OneRebuild, ListFollows
  <2> QED
    BY <2>5, <2>6
<1> QED
  BY <1>2, <1>3

LEMMA BeginRebuildKeeps ==
  ASSUME PackInv, NEW a \in Rebuilders, BeginRebuild(a)
  PROVE  PackInv'
<1> DEFINE r == [pop[a] EXCEPT !.pc = "rebuilding"]
<1>1. a \in PackActors /\ PackUploads \subseteq PackActors
  BY DEF PackActors
<1>2. /\ pop[a].pc = "idle" /\ pop' = [pop EXCEPT ![a] = r]
      /\ UNCHANGED <<cab, list, praced, crossing, unlisted>>
  BY DEF BeginRebuild, PAt
<1>3. r.pc = "rebuilding" /\ IsPack(r)
  BY <1>1, PackRecord, WithPc
<1> HIDE DEF r
<1>4. /\ PackTypeOK' /\ OneAuthor' /\ OnDiskPacks' = OnDiskPacks
      /\ \A b \in PackActors : IF b = a THEN pop'[b] = r ELSE pop'[b] = pop[b]
  BY <1>1, <1>2, <1>3, QuietPackStep DEF PackInv, PackTypeOK, PackPlaces
<1>5. Rebuilding' = Rebuilding /\ a \notin Rebuilding
  BY <1>2, <1>3, <1>4 DEF Rebuilding
<1>6. \A b \in Rebuilding : pop'[b] = pop[b]
  BY <1>4, <1>5 DEF Rebuilding
<1>7. Owed => Owed'
  BY <1>1, <1>2, <1>3, <1>4 DEF Owed
<1> QED
  BY <1>2, <1>4, <1>5, <1>6, <1>7 DEF PackInv, OneRebuild, ListFollows

LEMMA ScanPacksKeeps ==
  ASSUME PackInv, NEW a \in PackActors, Scan(a)
  PROVE  PackInv'
<1> DEFINE r == [pop[a] EXCEPT !.pc = "truncating", !.seen = OnDiskPacks]
<1>1. /\ pop[a].pc = "rebuilding" /\ pop' = [pop EXCEPT ![a] = r]
      /\ praced' = (praced \/ Rebuilding # {}) /\ UNCHANGED <<cab, list, crossing, unlisted>>
  BY DEF Scan, PAt, ScanPacks
<1>2. /\ r.pc = "truncating" /\ r.seen = OnDiskPacks
      /\ IsPack(r)
  <2> DEFINE y == [pop[a] EXCEPT !.pc = "truncating"]
  <2>1. IsPack(y) /\ y.pc = "truncating"
    BY PackRecord, WithPc
  <2>2. r = [y EXCEPT !.seen = OnDiskPacks]
    OBVIOUS
  <2> HIDE DEF y, r
  <2> QED
    BY <2>1, <2>2, WithSeen
<1> HIDE DEF r
<1>3. /\ PackTypeOK' /\ OneAuthor' /\ OnDiskPacks' = OnDiskPacks
      /\ \A b \in PackActors : IF b = a THEN pop'[b] = r ELSE pop'[b] = pop[b]
  BY <1>1, <1>2, QuietPackStep DEF PackInv, PackTypeOK, PackPlaces
<1>4. CASE praced'
  BY <1>3, <1>4 DEF PackInv, OneRebuild, ListFollows
<1>5. CASE ~praced'
  <2>1. Rebuilding' = {a}
    BY <1>1, <1>2, <1>3, <1>5 DEF Rebuilding
  <2>2. pop'[a].seen = OnDiskPacks'
    BY <1>2, <1>3
  <2> QED
    BY <1>3, <2>1, <2>2 DEF PackInv, OneRebuild, ListFollows
<1> QED
  BY <1>4, <1>5

LEMMA TruncateListKeeps ==
  ASSUME PackInv, NEW a \in PackActors, TruncateList(a)
  PROVE  PackInv'
<1> DEFINE r == [pop[a] EXCEPT !.pc = "writing"]
<1>1. /\ pop[a].pc = "truncating" /\ pop' = [pop EXCEPT ![a] = r]
      /\ UNCHANGED <<cab, praced, crossing, unlisted>>
  BY DEF TruncateList, PAt
<1>2. /\ r.pc = "writing" /\ r.seen = pop[a].seen
      /\ IsPack(r)
  BY PackRecord, WithPc
<1> HIDE DEF r
<1>3. /\ PackTypeOK' /\ OneAuthor' /\ OnDiskPacks' = OnDiskPacks
      /\ \A b \in PackActors : IF b = a THEN pop'[b] = r ELSE pop'[b] = pop[b]
  BY <1>1, <1>2, QuietPackStep DEF PackInv, PackTypeOK, PackPlaces
<1>4. Rebuilding' = Rebuilding /\ a \in Rebuilding
  BY <1>1, <1>2, <1>3 DEF Rebuilding
<1>5. \A b \in Rebuilding : pop'[b].seen = pop[b].seen
  BY <1>2, <1>3 DEF Rebuilding
<1>6. Owed => Owed'
  <2>1. PackUploads \subseteq PackActors
    BY DEF PackActors
  <2> QED
    BY <1>1, <1>3, <2>1 DEF Owed
<1> QED
  BY <1>1, <1>3, <1>4, <1>5, <1>6 DEF PackInv, OneRebuild, ListFollows

LEMMA WriteListKeeps ==
  ASSUME PackInv, NEW a \in PackActors, WriteList(a)
  PROVE  PackInv'
<1> DEFINE r == [pop[a] EXCEPT !.pc = "ended", !.seen = {}]
<1>1. /\ pop[a].pc = "writing" /\ pop' = [pop EXCEPT ![a] = r]
      /\ UNCHANGED <<cab, crossing, unlisted>>
      /\ (list' = pop[a].seen /\ praced' = praced) \/ praced' = TRUE
  BY DEF WriteList, PAt
<1>2. r.pc = "ended" /\ IsPack(r)
  <2> DEFINE y == [pop[a] EXCEPT !.pc = "ended"]
  <2>1. IsPack(y) /\ y.pc = "ended"
    BY PackRecord, WithPc
  <2>2. r = [y EXCEPT !.seen = {}]
    OBVIOUS
  <2> HIDE DEF y, r
  <2> QED
    BY <2>1, <2>2, WithSeen
<1> HIDE DEF r
<1>3. praced' \in BOOLEAN
  BY <1>1 DEF PackInv, PackTypeOK
<1>4. /\ PackTypeOK' /\ OneAuthor' /\ OnDiskPacks' = OnDiskPacks
      /\ \A b \in PackActors : IF b = a THEN pop'[b] = r ELSE pop'[b] = pop[b]
  BY <1>1, <1>2, <1>3, QuietPackStep DEF PackInv, PackTypeOK, PackPlaces
<1>5. CASE praced' = TRUE
  BY <1>4, <1>5 DEF PackInv, OneRebuild, ListFollows
<1>6. CASE list' = pop[a].seen /\ praced' = praced /\ ~praced
  <2>1. a \in Rebuilding
    BY <1>1 DEF Rebuilding
  <2>2. Rebuilding = {a}
    BY <1>6, <2>1 DEF PackInv, OneRebuild
  <2>3. Rebuilding' = {}
    BY <1>2, <1>4, <2>2 DEF Rebuilding
  <2>4. Owed => Owed'
    <3>1. PackUploads \subseteq PackActors
      BY DEF PackActors
    <3> QED
      BY <1>1, <1>4, <3>1 DEF Owed
  <2>5. ~unlisted => Owed \/ pop[a].seen = OnDiskPacks
    BY <1>6, <2>1, <2>2 DEF PackInv, ListFollows
  <2>6. ListFollows'
    BY <1>1, <1>4, <1>6, <2>3, <2>4, <2>5 DEF ListFollows
  <2>7. OneRebuild'
    BY <2>3 DEF OneRebuild
  <2> QED
    BY <1>4, <2>6, <2>7 DEF PackInv
<1> QED
  BY <1>1, <1>5, <1>6 DEF PackInv, PackTypeOK

LEMMA PackNextKeeps ==
  ASSUME PackInv, PackNext
  PROVE  PackInv'
<1>1. CASE \E u \in PackUploads :
             \/ \E k \in 1..MaxFiles : \E fs \in [1..k -> Names] :
                  (\A i, j \in 1..k : i < j => fs[i] # fs[j]) /\ BeginPacks(u, fs)
             \/ OpenCab(u) \/ SaveCab(u) \/ SaveCabFails(u) \/ EndPacks(u)
  BY <1>1, BeginPacksKeeps, OpenCabKeeps, SaveCabKeeps, SaveFailsOrEndsKeeps
<1>2. CASE \E r \in Rebuilders : BeginRebuild(r)
  BY <1>2, BeginRebuildKeeps
<1>3. CASE \E a \in PackActors : Scan(a) \/ TruncateList(a) \/ WriteList(a)
  BY <1>3, ScanPacksKeeps, TruncateListKeeps, WriteListKeeps
<1> QED
  BY <1>1, <1>2, <1>3 DEF PackNext

LEMMA PackInitHolds ==
  ASSUME PackInit
  PROVE  PackInv
<1>1. \A a \in PackActors : pop[a] = IdlePack
  BY DEF PackInit
<1>2. PackTypeOK
  <2>1. cab = [n \in Names |-> cab[n]] /\ pop = [a \in PackActors |-> pop[a]]
    BY DEF PackInit
  <2>2. praced \in BOOLEAN /\ unlisted \in BOOLEAN
    BY DEF PackInit
  <2> QED
    BY <1>1, <2>1, <2>2, IdlePackIs DEF PackTypeOK, PackPlaces
<1>3. Rebuilding = {}
  BY <1>1, IdlePackIs DEF Rebuilding
<1>4. \A n : WritersOf(n) = {}
  BY <1>1, IdlePackIs DEF WritersOf, PackActors
<1>5. OnDiskPacks = {}
  BY DEF OnDiskPacks, PackInit
<1>6. list \in {NoList, {}} /\ \A n \in Names : cab[n] = 0
  BY DEF PackInit
<1> QED
  BY <1>2, <1>3, <1>4, <1>5, <1>6 DEF PackInv, OneRebuild, ListFollows, OneAuthor
-----------------------------------------------------------------------------
-----------------------------------------------------------------------------
(***************************************************************************)
(* Both stores                                                             *)
(***************************************************************************)
LEMMA DriverStutter ==
  ASSUME DriverInv, UNCHANGED dvars
  PROVE  DriverInv'
<1>1. /\ DriverTypeOK' = DriverTypeOK /\ UploadsHold' = UploadsHold /\ ReadersHold' = ReadersHold
      /\ Committed' = Committed /\ NextId' = NextId /\ Present' = Present /\ InWindow' = InWindow
  BY DEF dvars, DriverTypeOK, UploadsHold, Holds, ReadersHold, Committed, NextId, Present, InWindow
<1>2. LockHeld' = LockHeld /\ IdsBelow' = IdsBelow /\ IdsDiffer' = IdsDiffer /\ Staged' = Staged
  BY <1>1 DEF dvars, LockHeld, IdsBelow, IdsDiffer, Staged
<1>3. \A u \in DriverUploads : Displaced(u)' = Displaced(u)
  BY <1>1 DEF dvars, Displaced, Settled, Rival
<1>4. OneWriter' = OneWriter
  BY <1>1 DEF dvars, OneWriter
<1>5. WrittenLabels'
  BY <1>1, <1>3 DEF dvars, DriverInv, WrittenLabels, Lists, Names1
<1> QED
  BY <1>1, <1>2, <1>4, <1>5 DEF DriverInv, StagingInv

LEMMA PackStutter ==
  ASSUME PackInv, UNCHANGED pvars
  PROVE  PackInv'
<1>1. Rebuilding' = Rebuilding /\ OnDiskPacks' = OnDiskPacks /\ Owed' = Owed
  BY DEF pvars, Rebuilding, OnDiskPacks, Owed
<1>2. \A n \in Names : WritersOf(n)' = WritersOf(n)
  BY DEF pvars, WritersOf
<1>3. PackTypeOK'
  BY DEF pvars, PackInv, PackTypeOK, IsPack
<1>4. OneRebuild' /\ ListFollows'
  BY <1>1 DEF pvars, PackInv, OneRebuild, ListFollows
<1>5. OneAuthor'
  BY <1>2 DEF pvars, PackInv, OneAuthor, Hollow
<1> QED
  BY <1>3, <1>4, <1>5 DEF PackInv

LEMMA InitHolds ==
  ASSUME DriverAssumption, Init
  PROVE  IInv
  BY DriverInitHolds, PackInitHolds DEF Init, IInv

LEMMA NextKeeps ==
  ASSUME DriverAssumption, IInv, [Next]_<<dvars, pvars, store>>
  PROVE  IInv'
<1>1. CASE DriverNext /\ UNCHANGED pvars
  BY <1>1, DriverNextKeeps, PackStutter DEF IInv
<1>2. CASE PackNext /\ UNCHANGED dvars
  BY <1>2, PackNextKeeps, DriverStutter DEF IInv
<1>3. CASE UNCHANGED <<dvars, pvars>>
  BY <1>3, PackStutter, DriverStutter DEF IInv
<1> QED
  BY <1>1, <1>2, <1>3 DEF Next

(* Whatever the uploads, tasks, readers and regenerations do, in whatever  *)
(* order, the two invariants hold.                                         *)
THEOREM Invariance == Spec => []IInv
<1>1. Init => IInv
  BY DriverAssumption, InitHolds
<1>2. IInv /\ [Next]_<<dvars, pvars, store>> => IInv'
  BY DriverAssumption, NextKeeps
<1> QED
  BY <1>1, <1>2, PTL DEF Spec

(* The archive that upload_winpe_drivers commits to a task waits for it,   *)
(* whole and its own: no other upload is given its id while it holds the   *)
(* write lock, and none cleans it up but one whose id a rollback freed.    *)
THEOREM ArchivesAwait == Spec => []ArchiveAwaitsItsTask
<1>1. ASSUME IInv PROVE ArchiveAwaitsItsTask
  BY <1>1 DEF IInv, DriverInv, StagingInv, Staged, ArchiveAwaitsItsTask
<1> QED
  BY <1>1, Invariance, PTL

(* The label that upsert_catalog_label forces for an upload stays in       *)
(* drivers.json through every later rebuild_catalog, until another takes   *)
(* the label or the folder.                                                *)
THEOREM DoneStaysListed == Spec => []DoneIsListed
<1>1. ASSUME IInv PROVE DoneIsListed
  <2> SUFFICES ASSUME InWindow = {}, ~draced, NEW u \in DriverUploads, drow[u] = "done",
                      ~(\E v \in DriverUploads \ {u} : dop[v].label = dop[u].label
                                                        \/ dop[v].slug = dop[u].slug),
                      ~(\E t \in Present \ {dop[u].slug} : DefaultLabel[t] = dop[u].label)
               PROVE  json # Unreadable /\ json[dop[u].label] = dop[u].slug
    BY DEF DoneIsListed
  <2>1. ~Displaced(u)
    BY DEF Displaced, Rival
  <2>2. WrittenLabels
    BY <1>1 DEF IInv, DriverInv
  <2> QED
    BY <2>1, <2>2 DEF WrittenLabels, Lists, Names1
<1> QED
  BY <1>1, Invariance, PTL

(* When all is over, language-packs.json lists the folders that hold a     *)
(* pack: rebuild_catalog runs after the last file of each upload, and what *)
(* it saw is still so when it writes.                                      *)
THEOREM PackListIsCurrent == Spec => []PacksListed
<1>1. ASSUME IInv PROVE PacksListed
  <2> SUFFICES ASSUME \A a \in PackActors : pop[a].pc \in {"idle", "ended"},
                      ~praced, ~unlisted, list # NoList
               PROVE  list = OnDiskPacks
    BY DEF PacksListed
  <2>1. Rebuilding = {}
    BY DEF Rebuilding
  <2>2. ~Owed
    BY DEF Owed, PackActors
  <2> QED
    BY <1>1, <2>1, <2>2 DEF IInv, PackInv, ListFollows
<1> QED
  BY <1>1, Invariance, PTL

(* A pack that nobody is writing is the whole file of one upload, though   *)
(* _write_one_cab writes under the final name: only a failed upload, or    *)
(* two uploads of one name at once, leave anything else.                   *)
THEOREM PacksAreWhole == Spec => []PacksWhole
<1>1. ASSUME IInv PROVE PacksWhole
  BY <1>1 DEF IInv, PackInv, OneAuthor, PacksWhole
<1> QED
  BY <1>1, Invariance, PTL

(***************************************************************************)
(* Language packs: the folder of a name                                    *)
(***************************************************************************)
(* The one known language of a name is a token, and no word of it is ignored. *)
LEMMA KnownIsToken ==
  ASSUME NEW n, Len(n) \in Nat, NEW i \in 1..Len(n) - 1, n[i] \in KnownLangs,
         n[i + 1] \notin Long \cup Ignored \cup {"~"}
  PROVE  Token(n, i) /\ IsLocale(n, i)
BY CabNamesAssumption, Zenon DEF Token, IsLocale

(* A token that no other overlaps is found. *)
LEMMA FirstTokenIsFound ==
  ASSUME NEW n, Len(n) \in Nat, NEW i \in 1..Len(n) - 1, Token(n, i), i = 1 \/ n[i - 1] \notin Short
  PROVE  i \in Found(n)
<1>1. ~Token(n, i - 0 - 1)
  BY DEF Token
<1>2. \A j \in i - 0..i : Token(n, j)
  OBVIOUS
<1>3. 0 \in 0..i - 1 /\ 0 % 2 = 0
  OBVIOUS
<1> QED
  BY <1>1, <1>2, <1>3, Zenon DEF Found

(* The only known language of the tokens found is the locale picked. *)
LEMMA OnlyKnownIsPicked ==
  ASSUME NEW n, Len(n) \in Nat, NEW i \in 1..Len(n) - 1, n[i] \in KnownLangs, i \in Found(n), IsLocale(n, i),
         \A j \in 1..Len(n) \ {i} : n[j] \notin KnownLangs
  PROVE  PickBest(n, Candidates(n)) = LocaleAt(n, i)
<1>1. Found(n) \subseteq 1..Len(n) - 1
  BY Zenon DEF Found
<1>2. ASSUME NEW j \in Found(n), j < i
      PROVE  LocaleAt(n, j) # LocaleAt(n, i)
  <2>1. j \in 1..Len(n) \ {i}
    BY <1>1, <1>2
  <2>2. n[j] # n[i]
    BY <2>1, Zenon
  <2> QED
    BY <2>2 DEF LocaleAt
<1>3. i \in Candidates(n)
  BY <1>2, Zenon DEF Candidates
<1>4. \A j \in Candidates(n) : j # i => n[j] \notin KnownLangs
  <2>1. TAKE j \in Candidates(n)
  <2>2. HAVE j # i
  <2>3. j \in 1..Len(n) - 1
    BY <1>1, Zenon DEF Candidates
  <2>4. j \in 1..Len(n) \ {i}
    BY <2>2, <2>3
  <2> QED
    BY <2>4, Zenon
<1>5. {j \in Candidates(n) : n[j] \in KnownLangs} = {i}
  BY <1>3, <1>4, Zenon
<1>6. Max({i}) = i
  BY DEF Max
<1> QED
  BY <1>5, <1>6 DEF PickBest, LastLocale

(* The folder of a name with one known language is the folder of that language. *)
LEMMA FolderIsLanguage ==
  ASSUME NEW n \in Names, Len(n) \in Nat, NEW i \in 1..Len(n) - 1,
         n[i] \in KnownLangs, n[i + 1] \notin Long \cup Ignored \cup {"~"},
         \A j \in 1..Len(n) \ {i} : n[j] \notin KnownLangs,
         \/ OcrAt(n) = {i - 2}
         \/ OcrAt(n) = {} /\ (i = 1 \/ n[i - 1] \notin Short)
  PROVE  FolderOf[n] = <<n[i], n[i + 1]>>
<1>1. Token(n, i) /\ IsLocale(n, i)
  BY KnownIsToken, Zenon
<1>2. LocaleOf(n) = LocaleAt(n, i)
  <2>1. CASE OcrAt(n) = {i - 2}
    <3>1. Min(OcrAt(n)) = i - 2
      BY <2>1 DEF Min
    <3>2. Min(OcrAt(n)) + 2 = i
      BY <3>1
    <3> QED
      BY <1>1, <2>1, <3>2, Zenon DEF LocaleOf
  <2>2. CASE OcrAt(n) = {} /\ (i = 1 \/ n[i - 1] \notin Short)
    <3>1. i \in Found(n)
      BY <1>1, <2>2, FirstTokenIsFound, Zenon
    <3>2. PickBest(n, Candidates(n)) = LocaleAt(n, i)
      BY <1>1, <3>1, OnlyKnownIsPicked, Zenon
    <3> QED
      BY <2>2, <3>2, Zenon DEF LocaleOf
  <2> QED
    BY <2>1, <2>2, Zenon
<1> QED
  BY <1>2, Zenon DEF FolderOf, LocaleAt

(* locale_id_from_cab_filename files a pack under the one known language   *)
(* of its name, whatever the words around it: behind LanguageFeatures-OCR, *)
(* or where no short word stands before it.                                *)
THEOREM PacksFiledByLanguage == Spec => []FiledUnderItsLanguage
<1>1. FiledUnderItsLanguage
  <2> SUFFICES ASSUME NEW n \in Names, NEW i \in 1..Len(n) - 1,
                      n[i] \in KnownLangs, n[i + 1] \notin Long \cup Ignored \cup {"~"},
                      \A j \in 1..Len(n) \ {i} : n[j] \notin KnownLangs,
                      \/ OcrAt(n) = {i - 2}
                      \/ OcrAt(n) = {} /\ (i = 1 \/ n[i - 1] \notin Short)
               PROVE  FolderOf[n] = <<n[i], n[i + 1]>>
    BY Zenon DEF FiledUnderItsLanguage
  <2>1. Len(n) \in Nat
    BY PackAssumption
  <2> QED
    BY <2>1, FolderIsLanguage, Zenon
<1> QED
  BY <1>1, PTL
=============================================================================
