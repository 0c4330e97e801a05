-------------------------- MODULE BootTree_proofs --------------------------
(***************************************************************************)
(* Proofs about BootTree for any number of versions, directories, roles    *)
(* and actors.                                                             *)
(***************************************************************************)
EXTENDS BootTree, FiniteSetTheorems, TLAPS

Paths    == [Roles -> Dirs \cup {NoDir}]
Memories == UNION {[S -> [read : Paths, paths : Paths, changed : BOOLEAN]] : S \in SUBSET Ids}
ActState == [pc : Places, ver : Ids \cup {0}, dir : Dirs \cup {NoDir},
             saved : SUBSET (Roles \cup {"iso"}), role : Roles \cup {"none", "iso"},
             ready : SUBSET Ids, index : [Ids -> Labels \cup {NoDir}],
             memory : Memories, todo : SUBSET Dirs, windows : BOOLEAN]

\* Every variable has its type.
TypeOK ==
  /\ rdir \in [Ids -> Labels \cup {NoDir}]
  /\ status \in [Ids -> {"absent", "uploaded", "ready", "extracting", "error"}]
  /\ entry \in [Ids -> [Roles -> Dirs \cup {NoDir}]]
  /\ hasIso \subseteq Ids /\ iso \subseteq Ids
  /\ files \in [Dirs -> [Roles -> Ids \cup {Missing, Half}]]
  /\ act \in [Actors -> ActState]
  /\ lock \in Actors \cup {"free"}
  /\ hurt \subseteq Dirs /\ left \subseteq Dirs
  /\ isoTaken \subseteq Ids /\ outlived \subseteq Ids

Is(a, places) == act[a].pc \in places
ByHand        == {"hand", "written"}
Uploading     == {"writing", "discarding"}
AtDirectory   == Uploading \cup ByHand \cup {"deleting"} \cup JobPlaces

\* What an actor has in hand where it is.
Placed ==
  \A a \in Actors :
    /\ Is(a, AtDirectory \cup {"queued"}) => act[a].ver \in Ids
    /\ IF Is(a, AtDirectory) THEN act[a].dir \in Dirs ELSE act[a].dir = NoDir
    /\ Is(a, Uploading) => act[a].dir \in Labels
    /\ Is(a, ByHand) => act[a].role \in Roles
    /\ Is(a, Uploading) /\ act[a].role = "iso" => act[a].saved = {}

\* The write lock belongs to the upload that writes, and its id to nobody.
LockHeld ==
  \A a \in Actors :
    /\ Is(a, {"writing"}) <=> lock = a
    /\ Is(a, {"writing"}) => ~Exists(act[a].ver)
    /\ Is(a, Uploading) => act[a].index[act[a].ver] = NoDir

\* Without its row a version has neither entry nor ISO.
NoRowNoEntry ==
  \A v \in Ids : ~Exists(v) => v \notin hasIso /\ entry[v] = EntryOf(NoDir)

\* The ISO an upload has written is there for its row.
WrittenIsoStays ==
  \A a \in Actors : Is(a, {"writing"}) /\ "iso" \in act[a].saved =>
    act[a].ver \in iso \cup isoTaken

\* A file to be replaced by hand is one of the version's own, unless its entry was not.
HandInOwnDir ==
  \A a \in Actors : Is(a, ByHand) =>
    \/ act[a].dir \in {act[a].index[act[a].ver], act[a].ver}
    \/ act[a].ver \in outlived

\* What a scan is about to record is in a directory it has taken for the version's.
ScanInOwnDir ==
  \A a \in Actors : Is(a, {"scanning"}) =>
    \A v \in Ids, r \in Roles :
      Records(a, v, r) => act[a].memory[v].paths[r] \in {act[a].index[v], v}

\* A half-written file is being written, or known as damaged.
Writes(b, d, r) ==
  /\ act[b].dir = d
  /\ \/ Is(b, {"tool", "failing"})
     \/ Is(b, Uploading \cup {"hand"}) /\ act[b].role = r
HalfIsOwed ==
  \A d \in Dirs, r \in Roles :
    files[d][r] = Half => d \in hurt \/ \E b \in Actors : Writes(b, d, r)

\* An absent file that an entry names, or that somebody goes by, is the doing of an
\* extraction that has yet to look for it, or of whoever deletes that version.
Unpacks(b, d)    == act[b].dir = d /\ Is(b, JobPlaces \ {"found", "purged"})
Unpacking(d)     == \E b \in Actors : Unpacks(b, d)
Deletes(b, v, d) == Is(b, {"deleting"}) /\ act[b].ver = v /\ d \in {act[b].dir, v}
Deleted(v, d)    == \E b \in Actors : Deletes(b, v, d)
Holds(a, d, r) == \E v \in Ids : Records(a, v, r) /\ act[a].memory[v].paths[r] = d
Relies(a, d, r) ==
  \/ /\ act[a].dir = d
     /\ \/ Is(a, {"found", "purged"})
        \/ Is(a, ByHand) /\ act[a].role = r
        \/ Is(a, {"writing"}) /\ (act[a].role = r \/ r \in act[a].saved)
  \/ Is(a, {"scanning"}) /\ Holds(a, d, r)
NotMissed(d, r) ==
  /\ \A a \in Actors : ~Relies(a, d, r)
  /\ \A v \in Ids : entry[v][r] = d => Deleted(v, d)
MissingIsOwed ==
  \A d \in Dirs, r \in Roles :
    files[d][r] = Missing /\ d \notin hurt /\ ~Unpacking(d) => NotMissed(d, r)

\* A file has a version that owns its directory and is not being deleted, or an actor
\* who will see to it, or is known as left behind.
Answers(b, d, r) ==
  /\ act[b].dir = d
  /\ \/ Is(b, JobPlaces)
     \/ Is(b, Uploading) /\ (act[b].role = r \/ r \in act[b].saved)
     \/ Is(b, ByHand) /\ act[b].role = r /\ d \in {act[b].index[act[b].ver], act[b].ver}
Owns(v, d) == Exists(v) /\ d \in {rdir[v], v} /\ ~Deleted(v, d)
FilesAreOwned ==
  \A d \in Dirs, r \in Roles :
    files[d][r] # Missing =>
      d \in left \/ (\E b \in Actors : Answers(b, d, r)) \/ (\E v \in Ids : Owns(v, d))

IInv ==
  /\ TypeOK /\ Placed /\ LockHeld /\ NoRowNoEntry
  /\ IsoOnDisk /\ WrittenIsoStays
  /\ EntryInOwnDir /\ HandInOwnDir /\ ScanInOwnDir
  /\ HalfIsOwed /\ MissingIsOwed /\ FilesAreOwned
-----------------------------------------------------------------------------
\* A step of a brings it to place p and leaves the others.
Moves(a, p) ==
  /\ act' \in [Actors -> ActState]
  /\ \A o \in Actors \ {a} : act'[o] = act[o]
  /\ act'[a].pc = p

\* What a has in hand stays the same, but for its role and what it has saved.
KeepsAim(a) ==
  /\ act'[a].ver = act[a].ver /\ act'[a].dir = act[a].dir /\ act'[a].index = act[a].index
Keeps(a) == KeepsAim(a) /\ act'[a].role = act[a].role /\ act'[a].saved = act[a].saved

LEMMA BecomeMoves ==
  ASSUME TypeOK, NEW a \in Actors, NEW p \in Places, Become(a, p)
  PROVE  Moves(a, p) /\ Keeps(a)
<1>1. act[a] \in ActState
  BY DEF TypeOK
<1>2. [act[a] EXCEPT !.pc = p] \in ActState
  BY <1>1 DEF ActState
<1>3. act' = [act EXCEPT ![a] = [act[a] EXCEPT !.pc = p]]
  BY DEF Become
<1>4. act'[a] = [act[a] EXCEPT !.pc = p] /\ \A o \in Actors \ {a} : act'[o] = act[o]
  BY <1>3 DEF TypeOK
<1>5. act' \in [Actors -> ActState]
  BY <1>2, <1>3 DEF TypeOK
<1> QED
  BY <1>1, <1>4, <1>5 DEF ActState, Moves, Keeps, KeepsAim

LEMMA MemoryIsTyped ==
  ASSUME NEW m
  PROVE  m \in Memories <=> \E S \in SUBSET Ids : m \in [S -> [read : Paths, paths : Paths, changed : BOOLEAN]]
<1> DEFINE All(S) == [S -> [read : Paths, paths : Paths, changed : BOOLEAN]]
<1>1. Memories = UNION {All(S) : S \in SUBSET Ids}
  BY DEF Memories
<1> HIDE DEF All
<1>2. m \in UNION {All(S) : S \in SUBSET Ids} <=> \E S \in SUBSET Ids : m \in All(S)
  BY Zenon
<1>3. m \in Memories <=> \E S \in SUBSET Ids : m \in All(S)
  BY <1>1, <1>2
<1> QED
  BY <1>3 DEF All

LEMMA IdleIsTyped ==
  ASSUME BootTreeAssumption
  PROVE  Idle \in ActState /\ Ended \in ActState /\ Ended.pc = "ended" /\ Ended.dir = NoDir
<1>1. Idle.memory \in Memories
  <2>1. <<>> \in [{} -> [read : Paths, paths : Paths, changed : BOOLEAN]]
    OBVIOUS
  <2>2. {} \in SUBSET Ids
    OBVIOUS
  <2>3. Idle.memory = <<>>
    BY DEF Idle
  <2> QED
    BY <2>1, <2>2, <2>3, MemoryIsTyped
<1> QED
  BY <1>1 DEF Idle, Ended, ActState, Places, Dirs, NoDir, Ids, BootTreeAssumption

LEMMA EndMoves ==
  ASSUME BootTreeAssumption, TypeOK, NEW a \in Actors, End(a)
  PROVE  Moves(a, "ended") /\ act'[a].dir = NoDir
  BY IdleIsTyped DEF TypeOK, End, Moves

LEMMA Contents ==
  ASSUME BootTreeAssumption
  PROVE  /\ Missing \notin Ids /\ Half \notin Ids /\ Missing # Half /\ NoDir \notin Dirs
         /\ Ids \subseteq Dirs /\ Labels \subseteq Dirs
  BY DEF BootTreeAssumption, Missing, Half, NoDir, Dirs, Ids

LEMMA WriterMoves ==
  ASSUME TypeOK, NEW a \in Actors, NEW r \in Roles \cup {"none"},
         NEW s \in SUBSET (Roles \cup {"iso"}), act[a].pc = "writing",
         act' = [act EXCEPT ![a].role = r, ![a].saved = s]
  PROVE  Moves(a, "writing") /\ KeepsAim(a) /\ act'[a].role = r /\ act'[a].saved = s
<1>1. act[a] \in ActState
  BY DEF TypeOK
<1>2. act' = [act EXCEPT ![a] = [act[a] EXCEPT !.role = r, !.saved = s]]
  BY DEF TypeOK
<1>3. [act[a] EXCEPT !.role = r, !.saved = s] \in ActState
  BY <1>1 DEF ActState
<1> QED
  BY <1>1, <1>2, <1>3 DEF Moves, KeepsAim, TypeOK, ActState

LEMMA OpenMoves ==
  ASSUME TypeOK, NEW a \in Actors, NEW r \in Roles, act[a].pc = "writing",
         act' = [act EXCEPT ![a].role = r]
  PROVE  Moves(a, "writing") /\ KeepsAim(a) /\ act'[a].role = r /\ act'[a].saved = act[a].saved
<1>1. act[a] \in ActState
  BY DEF TypeOK
<1>3. [act[a] EXCEPT !.role = r] \in ActState
  BY <1>1 DEF ActState
<1> QED
  BY <1>1, <1>3 DEF Moves, KeepsAim, TypeOK, ActState

\* What an actor keeps of its version's label.
LEMMA OwnIsTyped ==
  ASSUME TypeOK, NEW v \in Ids
  PROVE  Own(v) \in [Ids -> Labels \cup {NoDir}] /\ Own(v)[v] = rdir[v]
  BY DEF Own, Idle, TypeOK

LEMMA HandMoves ==
  ASSUME BootTreeAssumption, TypeOK, NEW a \in Actors, NEW v \in Ids, NEW d \in Dirs, NEW r \in Roles,
         NEW s \in SUBSET Ids,
         act' = [act EXCEPT ![a] = [Idle EXCEPT !.pc = "hand", !.ver = v, !.dir = d, !.role = r,
                                                !.ready = s, !.index = Own(v)]]
  PROVE  /\ Moves(a, "hand")
         /\ act'[a].ver = v /\ act'[a].dir = d /\ act'[a].role = r /\ act'[a].index[v] = rdir[v]
<1> DEFINE new == [Idle EXCEPT !.pc = "hand", !.ver = v, !.dir = d, !.role = r, !.ready = s,
                               !.index = Own(v)]
<1>1. Idle \in ActState
  BY IdleIsTyped
<1>2. new \in ActState
  BY <1>1, OwnIsTyped DEF ActState, Places
<1>3. /\ new.pc = "hand" /\ new.ver = v /\ new.dir = d /\ new.role = r /\ new.index[v] = rdir[v]
  BY <1>1, OwnIsTyped DEF ActState
<1>4. act' = [act EXCEPT ![a] = new]
  OBVIOUS
<1> HIDE DEF new
<1>5. act'[a] = new /\ Moves(a, "hand")
  BY <1>2, <1>3, <1>4 DEF Moves, TypeOK
<1> QED
  BY <1>3, <1>5

LEMMA StartMoves ==
  ASSUME TypeOK, NEW a \in Actors, NEW p \in Places, NEW d \in Dirs,
         act' = [act EXCEPT ![a].pc = p, ![a].dir = d]
  PROVE  Moves(a, p) /\ act'[a].ver = act[a].ver /\ act'[a].dir = d
<1>1. act[a] \in ActState
  BY DEF TypeOK
<1>2. act' = [act EXCEPT ![a] = [act[a] EXCEPT !.pc = p, !.dir = d]]
  BY DEF TypeOK
<1>3. [act[a] EXCEPT !.pc = p, !.dir = d] \in ActState
  BY <1>1 DEF ActState, TypeOK
<1> QED
  BY <1>1, <1>2, <1>3 DEF Moves, TypeOK, ActState

LEMMA AtWork ==
  ASSUME Placed, NEW a \in Actors
  PROVE  /\ act[a].pc \in AtDirectory => act[a].ver \in Ids /\ act[a].dir \in Dirs
         /\ act[a].pc = "queued" => act[a].ver \in Ids
  BY DEF Placed, Is

LEMMA RowHasDir ==
  ASSUME BootTreeAssumption, TypeOK, NEW v \in Ids, Exists(v)
  PROVE  rdir[v] \in Dirs
  BY DEF TypeOK, Exists, Dirs

\* The id an upload is given is nobody's: it is one more than the largest.
LEMMA NextIdIsFree ==
  ASSUME BootTreeAssumption, NextId \in Ids
  PROVE  ~Exists(NextId)
<1> DEFINE S == {v \in Ids : \E w \in Ids : w >= v /\ Exists(w)}
<1>1. IsFiniteSet(Ids) /\ Ids \subseteq Int
  BY FS_Interval DEF Ids, BootTreeAssumption
<1>2. IsFiniteSet(S) /\ Cardinality(S) \in Nat
  BY <1>1, FS_Subset, FS_CardinalityType
<1>3. SUFFICES ASSUME Exists(NextId) PROVE FALSE
  OBVIOUS
<1>4. 1..NextId \in SUBSET S
  BY <1>3 DEF Ids, BootTreeAssumption
<1>5. Cardinality(1..NextId) = NextId /\ NextId \in Nat
  BY FS_Interval DEF Ids, BootTreeAssumption
<1>6. NextId <= Cardinality(S)
  BY <1>2, <1>4, <1>5, FS_Subset
<1> QED
  BY <1>2, <1>6 DEF NextId
-----------------------------------------------------------------------------
(***************************************************************************)
(* What the invariants of the files ask of a step of one actor             *)
(***************************************************************************)
LEMMA PutPuts ==
  ASSUME TypeOK, NEW d \in Dirs, NEW r \in Roles, NEW c \in Ids \cup {Missing, Half}, Put(d, r, c)
  PROVE  /\ files' \in [Dirs -> [Roles -> Ids \cup {Missing, Half}]]
         /\ \A e \in Dirs, q \in Roles : files'[e][q] = IF e = d /\ q = r THEN c ELSE files[e][q]
  BY DEF TypeOK, Put

LEMMA ClosePuts ==
  ASSUME TypeOK, NEW d \in Dirs, NEW r \in Roles, NEW c \in Ids, Close(d, r, c)
  PROVE  /\ files' \in [Dirs -> [Roles -> Ids \cup {Missing, Half}]]
         /\ \A e \in Dirs, q \in Roles :
              files'[e][q] = IF e = d /\ q = r /\ files[d][r] # Missing THEN c ELSE files[e][q]
  BY PutPuts DEF Close

TakesIso(b, v) == Is(b, {"deleting", "purged"}) /\ act[b].ver = v
IsoSeenTo(a) ==
  \A v \in hasIso' :
    \/ v \in iso' \/ v \in isoTaken' \/ TakesIso(a, v)'
    \/ v \in hasIso /\ v \notin iso /\ v \notin isoTaken /\ ~TakesIso(a, v)

LEMMA IsoStep ==
  ASSUME IsoOnDisk, TypeOK, NEW a \in Actors, NEW p, Moves(a, p), IsoSeenTo(a)
  PROVE  IsoOnDisk'
<1> SUFFICES ASSUME NEW v \in hasIso',
                    v \in hasIso, v \notin iso, v \notin isoTaken, ~TakesIso(a, v)
             PROVE  \E b \in Actors : TakesIso(b, v)'
  BY DEF IsoOnDisk, IsoSeenTo, TakesIso, Is
<1>1. PICK b \in Actors : TakesIso(b, v)
  BY DEF IsoOnDisk, TakesIso, Is
<1> QED
  BY <1>1 DEF TakesIso, Is, Moves

HalfSeenTo(a) ==
  \A d \in Dirs, r \in Roles : files'[d][r] = Half =>
    \/ d \in hurt' \/ Writes(a, d, r)'
    \/ files[d][r] = Half /\ d \notin hurt /\ ~Writes(a, d, r)

LEMMA HalfStep ==
  ASSUME HalfIsOwed, NEW a \in Actors, NEW p, Moves(a, p),
         HalfSeenTo(a)
  PROVE  HalfIsOwed'
  BY DEF HalfSeenTo, HalfIsOwed, Writes, Is, Moves

\* A file of a that is not missed after a step of a, because it was not before.
StaysUnmissed(a, d, r) ==
  /\ Relies(a, d, r)' => Relies(a, d, r)
  /\ \A v \in Ids : entry'[v][r] = d =>
       /\ entry[v][r] = d \/ Relies(a, d, r)
       /\ Deletes(a, v, d) => Deletes(a, v, d)'

LEMMA OthersStay ==
  ASSUME NEW a \in Actors, NEW p, Moves(a, p), NEW o \in Actors, o # a, NEW d, NEW r, NEW v
  PROVE  /\ Unpacks(o, d)' <=> Unpacks(o, d)
         /\ Relies(o, d, r)' <=> Relies(o, d, r)
         /\ Deletes(o, v, d)' <=> Deletes(o, v, d)
<1>1. act'[o] = act[o]
  BY DEF Moves
<1> QED
  BY <1>1 DEF Unpacks, Relies, Holds, Records, HasRead, Deletes, Is

LEMMA UnmissedStays ==
  ASSUME NEW a \in Actors, NEW p, Moves(a, p), NEW d \in Dirs, NEW r \in Roles,
         NotMissed(d, r), StaysUnmissed(a, d, r)
  PROVE  NotMissed(d, r)'
<1>1. ASSUME NEW b \in Actors PROVE ~Relies(b, d, r)'
  <2>1. CASE b = a
    BY <2>1 DEF NotMissed, StaysUnmissed
  <2>2. CASE b # a
    BY <2>2, OthersStay DEF NotMissed
  <2> QED
    BY <2>1, <2>2
<1>2. ASSUME NEW v \in Ids, entry'[v][r] = d PROVE Deleted(v, d)'
  <2>1. entry[v][r] = d /\ (Deletes(a, v, d) => Deletes(a, v, d)')
    BY <1>2 DEF NotMissed, StaysUnmissed
  <2>2. PICK b \in Actors : Deletes(b, v, d)
    BY <2>1 DEF NotMissed, Deleted
  <2>3. Deletes(b, v, d)'
    BY <2>1, <2>2, OthersStay
  <2> QED
    BY <2>3 DEF Deleted
<1> QED
  BY <1>1, <1>2 DEF NotMissed

MissingSeenTo(a) ==
  \A d \in Dirs, r \in Roles : files'[d][r] = Missing /\ d \notin hurt' =>
    \/ Unpacks(a, d)'
    \/ /\ files[d][r] = Missing /\ d \notin hurt /\ ~Unpacks(a, d)
       /\ StaysUnmissed(a, d, r)
    \/ NotMissed(d, r)'

LEMMA MissingStep ==
  ASSUME MissingIsOwed, NEW a \in Actors, NEW p, Moves(a, p),
         MissingSeenTo(a)
  PROVE  MissingIsOwed'
<1> SUFFICES ASSUME NEW d \in Dirs, NEW r \in Roles,
                    files'[d][r] = Missing, d \notin hurt', ~Unpacking(d)'
             PROVE  NotMissed(d, r)'
  BY DEF MissingIsOwed
<1>1. ~Unpacks(a, d)'
  BY DEF Unpacking
<1>2. CASE files[d][r] = Missing /\ d \notin hurt /\ ~Unpacks(a, d) /\ StaysUnmissed(a, d, r)
  <2>1. \A o \in Actors : o # a => ~Unpacks(o, d)
    BY OthersStay DEF Unpacking
  <2>2. ~Unpacking(d)
    BY <1>2, <2>1 DEF Unpacking
  <2>3. NotMissed(d, r)
    BY <1>2, <2>2 DEF MissingIsOwed
  <2> QED
    BY <1>2, <2>3, UnmissedStays
<1> QED
  BY <1>1, <1>2 DEF MissingSeenTo

FilesSeenTo(a) ==
  \A d \in Dirs, r \in Roles : files'[d][r] # Missing =>
    \/ d \in left' \/ Answers(a, d, r)' \/ \E v \in Ids : Owns(v, d)'
    \/ /\ files[d][r] # Missing /\ d \notin left /\ ~Answers(a, d, r)
       /\ \A v \in Ids : Owns(v, d) => Owns(v, d)'

LEMMA FilesStep ==
  ASSUME FilesAreOwned, NEW a \in Actors, NEW p, Moves(a, p),
         FilesSeenTo(a)
  PROVE  FilesAreOwned'
<1>1. \A o \in Actors \ {a}, d \in Dirs, r \in Roles : Answers(o, d, r) => Answers(o, d, r)'
  BY DEF Answers, Is, Moves
<1> QED
  BY <1>1 DEF FilesSeenTo, FilesAreOwned

\* Who does not begin a deletion takes no directory from its owner.
LEMMA OwnerStays ==
  ASSUME NEW a \in Actors, NEW p, Moves(a, p), NEW v \in Ids, NEW d, ~Deletes(a, v, d)',
         Owns(v, d), rdir'[v] = rdir[v]
  PROVE  Owns(v, d)'
  BY DEF Owns, Exists, Deleted, Deletes, Is, Moves

LEMMA OwnersStay ==
  ASSUME NEW a \in Actors, NEW p, Moves(a, p), p # "deleting", UNCHANGED rdir
  PROVE  \A v \in Ids, d \in Dirs : Owns(v, d) => Owns(v, d)'
<1>1. \A v, d : ~Deletes(a, v, d)'
  BY DEF Deletes, Is, Moves
<1> QED
  BY <1>1, OwnerStays

LEMMA NobodyDeletes ==
  ASSUME NEW a \in Actors, Moves(a, "ended"), NEW v \in Ids, NEW d, Deletions(d) = {}
  PROVE  ~Deleted(v, d)'
<1> SUFFICES ASSUME NEW b \in Actors, Deletes(b, v, d)'
             PROVE  b \in Deletions(d)
  BY DEF Deleted
<1> QED
  BY DEF Deletes, Is, Moves, Deletions, In

\* Who does not scan disturbs no scan.
LEMMA ScansStay ==
  ASSUME ScanInOwnDir, NEW a \in Actors, NEW p, Moves(a, p), p # "scanning"
  PROVE  ScanInOwnDir'
  BY DEF ScanInOwnDir, Moves, Is, Records, HasRead

LEMMA OtherScansStay ==
  ASSUME ScanInOwnDir, NEW a \in Actors, NEW p, Moves(a, p),
         \A v \in Ids, r \in Roles :
           Records(a, v, r)' => act'[a].memory[v].paths[r] \in {act'[a].index[v], v}
  PROVE  ScanInOwnDir'
<1> SUFFICES ASSUME NEW o \in Actors, Is(o, {"scanning"})', NEW v \in Ids, NEW r \in Roles,
                    Records(o, v, r)'
             PROVE  act'[o].memory[v].paths[r] \in {act'[o].index[v], v}
  BY DEF ScanInOwnDir
<1>1. CASE o = a
  BY <1>1
<1>2. CASE o # a
  BY <1>2 DEF ScanInOwnDir, Moves, Is, Records, HasRead
<1> QED
  BY <1>1, <1>2

\* Who relies on a file is at work in its directory or has seen it there.
LEMMA ReliedOn ==
  ASSUME NEW b \in Actors, NEW d \in Dirs, NEW r \in Roles, Relies(b, d, r)
  PROVE  b \in In(d) \cup Seen(d)
  BY DEF Relies, Holds, In, Seen

\* Who has an entry in a directory is among those who use it.
LEMMA EntryIsUse ==
  ASSUME BootTreeAssumption, NoRowNoEntry, NEW v \in Ids, NEW r \in Roles, NEW d \in Dirs, entry[v][r] = d
  PROVE  v \in InUse(d)
  BY Contents DEF NoRowNoEntry, InUse, EntryOf
-----------------------------------------------------------------------------
(***************************************************************************)
(* Steps: Uploads                                                          *)
(***************************************************************************)
LEMMA UploadBeginsKeeps ==
  ASSUME BootTreeAssumption, IInv, NEW a \in Actors, NEW l \in Labels, NEW w \in BOOLEAN, UploadBegins(a, l, w)
  PROVE  IInv'
<1>0. TypeOK /\ Placed /\ LockHeld /\ NoRowNoEntry /\ IsoOnDisk /\ WrittenIsoStays
      /\ EntryInOwnDir /\ HandInOwnDir /\ ScanInOwnDir /\ HalfIsOwed /\ MissingIsOwed /\ FilesAreOwned
  BY DEF IInv
<1>m. /\ Moves(a, "writing")
      /\ act'[a].ver = NextId /\ act'[a].dir = l /\ act'[a].saved = {}
      /\ act'[a].index[NextId] = rdir[NextId]
      /\ act'[a].role \in {"iso", "none"}
  <2>1. NextId \in Ids /\ Own(NextId) \in [Ids -> Labels \cup {NoDir}]
        /\ Own(NextId)[NextId] = rdir[NextId]
    BY <1>0, OwnIsTyped DEF UploadBegins
  <2> QED
    BY <1>0, <2>1, IdleIsTyped, BootTreeAssumption DEF UploadBegins, Moves, TypeOK, ActState,
       Places, Idle, Dirs
<1>o. \A v \in Ids, d \in Dirs : Owns(v, d) => Owns(v, d)'
  BY <1>m, OwnersStay DEF UploadBegins, rowVars
<1>1. TypeOK'
  BY <1>0, <1>m, Contents, BootTreeAssumption DEF UploadBegins, rowVars, history, Moves, TypeOK
<1>2. Placed'
  BY <1>0, <1>m, Contents, BootTreeAssumption DEF UploadBegins, rowVars, history, Moves, Is,
     Placed, TypeOK, ByHand, Uploading, AtDirectory, JobPlaces
<1>3. LockHeld'
  BY <1>0, <1>m, NextIdIsFree, BootTreeAssumption DEF UploadBegins, rowVars, history, Moves, Is,
     LockHeld, Exists, Free, TypeOK, Uploading
<1>4. NoRowNoEntry'
  BY <1>0, <1>m, Contents DEF UploadBegins, rowVars, history, Moves, NoRowNoEntry, EntryOf,
     Exists, TypeOK
<1>5. WrittenIsoStays'
  BY <1>0, <1>m DEF UploadBegins, rowVars, history, Moves, Is, WrittenIsoStays
<1>6. EntryInOwnDir'
  BY <1>0, <1>m DEF UploadBegins, rowVars, history, Moves, EntryInOwnDir, Exists, TypeOK
<1>7. HandInOwnDir'
  BY <1>0, <1>m DEF UploadBegins, rowVars, history, Moves, Is, HandInOwnDir, ByHand
<1>7s. ScanInOwnDir'
  BY <1>0, <1>m, ScansStay
<1>8. IsoSeenTo(a)
  BY <1>0, <1>m DEF UploadBegins, rowVars, history, Moves, Is, IsoSeenTo, TakesIso, Exists,
     NoRowNoEntry
<1>9. HalfSeenTo(a)
  BY <1>0, <1>m, Contents DEF UploadBegins, rowVars, history, Moves, Is, HalfSeenTo, Writes,
     TypeOK, Uploading
<1>10. MissingSeenTo(a)
  BY <1>0, <1>m, Contents DEF UploadBegins, rowVars, history, Moves, Is, MissingSeenTo,
     StaysUnmissed, Unpacks, Relies, Deletes, TypeOK, ByHand, JobPlaces
<1>11. FilesSeenTo(a)
  BY <1>0, <1>m, Contents, <1>o DEF UploadBegins, rowVars, history, Moves, Is, FilesSeenTo,
     Answers, TypeOK, ByHand, Uploading, JobPlaces
<1> QED
  BY <1>0, <1>m, <1>1, <1>2, <1>3, <1>4, <1>5, <1>6, <1>7, <1>7s, <1>8, <1>9, <1>10, <1>11,
     IsoStep, HalfStep, MissingStep, FilesStep DEF IInv

LEMMA UploadWritesIsoKeeps ==
  ASSUME BootTreeAssumption, IInv, NEW a \in Actors, UploadWritesIso(a)
  PROVE  IInv'
<1>0. TypeOK /\ Placed /\ LockHeld /\ NoRowNoEntry /\ IsoOnDisk /\ WrittenIsoStays
      /\ EntryInOwnDir /\ HandInOwnDir /\ ScanInOwnDir /\ HalfIsOwed /\ MissingIsOwed /\ FilesAreOwned
  BY DEF IInv
<1>h. act[a].ver \in Ids /\ act[a].dir \in Dirs
  BY <1>0, AtWork DEF UploadWritesIso, AtDirectory, Uploading, ByHand, JobPlaces
<1>m. /\ Moves(a, "writing")
      /\ KeepsAim(a) /\ act'[a].role = "none" /\ act'[a].saved = {"iso"}
  BY <1>0, WriterMoves DEF UploadWritesIso
<1>o. \A v \in Ids, d \in Dirs : Owns(v, d) => Owns(v, d)'
  BY <1>m, OwnersStay DEF UploadWritesIso, rowVars
<1>1. TypeOK'
  BY <1>0, <1>m, <1>h, Contents, BootTreeAssumption DEF UploadWritesIso, rowVars, history,
     Moves, KeepsAim, TypeOK
<1>2. Placed'
  BY <1>0, <1>m, <1>h DEF UploadWritesIso, rowVars, history, Moves, KeepsAim, Is, Placed,
     TypeOK, ByHand, Uploading, AtDirectory, JobPlaces
<1>3. LockHeld'
  BY <1>0, <1>m, <1>h DEF UploadWritesIso, rowVars, history, Moves, KeepsAim, Is, LockHeld,
     Exists, Free, TypeOK, Uploading
<1>4. NoRowNoEntry'
  BY <1>0, <1>m, <1>h, Contents DEF UploadWritesIso, rowVars, history, Moves, KeepsAim,
     NoRowNoEntry, EntryOf, Exists, TypeOK
<1>5. WrittenIsoStays'
  BY <1>0, <1>m, <1>h DEF UploadWritesIso, rowVars, history, Moves, KeepsAim, Is,
     WrittenIsoStays
<1>6. EntryInOwnDir'
  BY <1>0, <1>m, <1>h DEF UploadWritesIso, rowVars, history, Moves, KeepsAim, EntryInOwnDir,
     Exists, TypeOK
<1>7. HandInOwnDir'
  BY <1>0, <1>m, <1>h DEF UploadWritesIso, rowVars, history, Moves, KeepsAim, Is, HandInOwnDir,
     ByHand
<1>7s. ScanInOwnDir'
  BY <1>0, <1>m, ScansStay
<1>8. IsoSeenTo(a)
  BY <1>0, <1>m, <1>h DEF UploadWritesIso, rowVars, history, Moves, KeepsAim, Is, IsoSeenTo,
     TakesIso, Exists, NoRowNoEntry
<1>9. HalfSeenTo(a)
  BY <1>0, <1>m, <1>h, Contents DEF UploadWritesIso, rowVars, history, Moves, KeepsAim, Is,
     HalfSeenTo, Writes, TypeOK, Uploading
<1>10. MissingSeenTo(a)
  BY <1>0, <1>m, <1>h, Contents DEF UploadWritesIso, rowVars, history, Moves, KeepsAim, Is,
     MissingSeenTo, StaysUnmissed, Unpacks, Relies, Deletes, TypeOK, ByHand, JobPlaces
<1>11. FilesSeenTo(a)
  <2>1. \A d \in Dirs, r \in Roles : ~Answers(a, d, r)
    BY <1>0, BootTreeAssumption DEF UploadWritesIso, Answers, Placed, Is, Uploading, ByHand, JobPlaces
  <2>2. UNCHANGED <<files, left>>
    BY DEF UploadWritesIso, history
  <2> QED
    BY <1>o, <2>1, <2>2 DEF FilesSeenTo
<1> QED
  BY <1>0, <1>m, <1>1, <1>2, <1>3, <1>4, <1>5, <1>6, <1>7, <1>7s, <1>8, <1>9, <1>10, <1>11,
     IsoStep, HalfStep, MissingStep, FilesStep DEF IInv

LEMMA UploadOpensKeeps ==
  ASSUME BootTreeAssumption, IInv, NEW a \in Actors, NEW r \in Roles, UploadOpens(a, r)
  PROVE  IInv'
<1>0. TypeOK /\ Placed /\ LockHeld /\ NoRowNoEntry /\ IsoOnDisk /\ WrittenIsoStays
      /\ EntryInOwnDir /\ HandInOwnDir /\ ScanInOwnDir /\ HalfIsOwed /\ MissingIsOwed /\ FilesAreOwned
  BY DEF IInv
<1>h. act[a].ver \in Ids /\ act[a].dir \in Dirs
  BY <1>0, AtWork DEF UploadOpens, AtDirectory, Uploading, ByHand, JobPlaces
<1>m. /\ Moves(a, "writing")
      /\ KeepsAim(a) /\ act'[a].role = r /\ act'[a].saved = act[a].saved
  BY <1>0, OpenMoves DEF UploadOpens
<1>f. /\ files' \in [Dirs -> [Roles -> Ids \cup {Missing, Half}]]
      /\ \A e \in Dirs, q \in Roles :
           files'[e][q] = IF e = act[a].dir /\ q = r THEN Half ELSE files[e][q]
  BY <1>0, <1>h, PutPuts DEF UploadOpens
<1>o. \A v \in Ids, d \in Dirs : Owns(v, d) => Owns(v, d)'
  BY <1>m, OwnersStay DEF UploadOpens, rowVars
<1>1. TypeOK'
  BY <1>0, <1>m, <1>h, <1>f, Contents, BootTreeAssumption DEF UploadOpens, rowVars, history,
     Moves, KeepsAim, TypeOK
<1>2. Placed'
  BY <1>0, <1>m, <1>h DEF UploadOpens, rowVars, history, Moves, KeepsAim, Is, Placed, TypeOK,
     ByHand, Uploading, AtDirectory, JobPlaces
<1>3. LockHeld'
  BY <1>0, <1>m, <1>h DEF UploadOpens, rowVars, history, Moves, KeepsAim, Is, LockHeld, Exists,
     Free, TypeOK, Uploading
<1>4. NoRowNoEntry'
  BY <1>0, <1>m, <1>h, Contents DEF UploadOpens, rowVars, history, Moves, KeepsAim,
     NoRowNoEntry, EntryOf, Exists, TypeOK
<1>5. WrittenIsoStays'
  BY <1>0, <1>m, <1>h DEF UploadOpens, rowVars, history, Moves, KeepsAim, Is, WrittenIsoStays
<1>6. EntryInOwnDir'
  BY <1>0, <1>m, <1>h DEF UploadOpens, rowVars, history, Moves, KeepsAim, EntryInOwnDir, Exists,
     TypeOK
<1>7. HandInOwnDir'
  BY <1>0, <1>m, <1>h DEF UploadOpens, rowVars, history, Moves, KeepsAim, Is, HandInOwnDir,
     ByHand
<1>7s. ScanInOwnDir'
  BY <1>0, <1>m, ScansStay
<1>8. IsoSeenTo(a)
  BY <1>0, <1>m, <1>h DEF UploadOpens, rowVars, history, Moves, KeepsAim, Is, IsoSeenTo,
     TakesIso, Exists, NoRowNoEntry
<1>9. HalfSeenTo(a)
  BY <1>0, <1>m, <1>h, <1>f, Contents DEF UploadOpens, rowVars, history, Moves, KeepsAim, Is,
     HalfSeenTo, Writes, TypeOK, Uploading
<1>10. MissingSeenTo(a)
  BY <1>0, <1>m, <1>h, <1>f, Contents DEF UploadOpens, rowVars, history, Moves, KeepsAim, Is,
     MissingSeenTo, StaysUnmissed, Unpacks, Relies, Deletes, TypeOK, ByHand, JobPlaces
<1>11. FilesSeenTo(a)
  BY <1>0, <1>m, <1>h, <1>f, Contents, <1>o DEF UploadOpens, rowVars, history, Moves, KeepsAim,
     Is, FilesSeenTo, Answers, TypeOK, ByHand, Uploading, JobPlaces
<1> QED
  BY <1>0, <1>m, <1>1, <1>2, <1>3, <1>4, <1>5, <1>6, <1>7, <1>7s, <1>8, <1>9, <1>10, <1>11,
     IsoStep, HalfStep, MissingStep, FilesStep DEF IInv

LEMMA UploadSavesKeeps ==
  ASSUME BootTreeAssumption, IInv, NEW a \in Actors, UploadSaves(a)
  PROVE  IInv'
<1>0. TypeOK /\ Placed /\ LockHeld /\ NoRowNoEntry /\ IsoOnDisk /\ WrittenIsoStays
      /\ EntryInOwnDir /\ HandInOwnDir /\ ScanInOwnDir /\ HalfIsOwed /\ MissingIsOwed /\ FilesAreOwned
  BY DEF IInv
<1>h. /\ act[a].ver \in Ids /\ act[a].dir \in Dirs /\ act[a].role \in Roles
      /\ act[a].saved \subseteq Roles \cup {"iso"}
  BY <1>0, AtWork DEF UploadSaves, AtDirectory, Uploading, TypeOK, ActState
<1>m. /\ Moves(a, "writing")
      /\ KeepsAim(a) /\ act'[a].role = "none" /\ act'[a].saved = act[a].saved \cup {act[a].role}
  <2> DEFINE s == act[a].saved \cup {act[a].role}
  <2>1. s \in SUBSET (Roles \cup {"iso"})
    BY <1>h
  <2>2. act' = [act EXCEPT ![a].role = "none", ![a].saved = s] /\ act[a].pc = "writing"
    BY DEF UploadSaves
  <2> HIDE DEF s
  <2>3. "none" \in Roles \cup {"none"}
    OBVIOUS
  <2>4. Moves(a, "writing") /\ KeepsAim(a) /\ act'[a].role = "none" /\ act'[a].saved = s
    BY <1>0, <2>1, <2>2, <2>3, WriterMoves
  <2> QED
    BY <2>4 DEF s
<1>f. /\ files' \in [Dirs -> [Roles -> Ids \cup {Missing, Half}]]
      /\ \A e \in Dirs, q \in Roles :
           files'[e][q] = IF e = act[a].dir /\ q = act[a].role /\ files[e][q] # Missing THEN act[a].ver ELSE files[e][q]
  BY <1>0, <1>h, ClosePuts DEF UploadSaves
<1>o. \A v \in Ids, d \in Dirs : Owns(v, d) => Owns(v, d)'
  BY <1>m, OwnersStay DEF UploadSaves, rowVars
<1>1. TypeOK'
  BY <1>0, <1>m, <1>h, <1>f, Contents, BootTreeAssumption DEF UploadSaves, rowVars, history,
     Moves, KeepsAim, TypeOK
<1>2. Placed'
  BY <1>0, <1>m, <1>h DEF UploadSaves, rowVars, history, Moves, KeepsAim, Is, Placed, TypeOK,
     ByHand, Uploading, AtDirectory, JobPlaces
<1>3. LockHeld'
  BY <1>0, <1>m, <1>h DEF UploadSaves, rowVars, history, Moves, KeepsAim, Is, LockHeld, Exists,
     Free, TypeOK, Uploading
<1>4. NoRowNoEntry'
  BY <1>0, <1>m, <1>h, Contents DEF UploadSaves, rowVars, history, Moves, KeepsAim,
     NoRowNoEntry, EntryOf, Exists, TypeOK
<1>5. WrittenIsoStays'
  BY <1>0, <1>m, <1>h DEF UploadSaves, rowVars, history, Moves, KeepsAim, Is, WrittenIsoStays
<1>6. EntryInOwnDir'
  BY <1>0, <1>m, <1>h DEF UploadSaves, rowVars, history, Moves, KeepsAim, EntryInOwnDir, Exists,
     TypeOK
<1>7. HandInOwnDir'
  BY <1>0, <1>m, <1>h DEF UploadSaves, rowVars, history, Moves, KeepsAim, Is, HandInOwnDir,
     ByHand
<1>7s. ScanInOwnDir'
  BY <1>0, <1>m, ScansStay
<1>8. IsoSeenTo(a)
  BY <1>0, <1>m, <1>h DEF UploadSaves, rowVars, history, Moves, KeepsAim, Is, IsoSeenTo,
     TakesIso, Exists, NoRowNoEntry
<1>9. HalfSeenTo(a)
  BY <1>0, <1>m, <1>h, <1>f, Contents DEF UploadSaves, rowVars, history, Moves, KeepsAim, Is,
     HalfSeenTo, Writes, TypeOK, Uploading
<1>10. MissingSeenTo(a)
  BY <1>0, <1>m, <1>h, <1>f, Contents DEF UploadSaves, rowVars, history, Moves, KeepsAim, Is,
     MissingSeenTo, StaysUnmissed, Unpacks, Relies, Deletes, TypeOK, ByHand, JobPlaces
<1>11. FilesSeenTo(a)
  BY <1>0, <1>m, <1>h, <1>f, Contents, <1>o DEF UploadSaves, rowVars, history, Moves, KeepsAim,
     Is, FilesSeenTo, Answers, TypeOK, ByHand, Uploading, JobPlaces
<1> QED
  BY <1>0, <1>m, <1>1, <1>2, <1>3, <1>4, <1>5, <1>6, <1>7, <1>7s, <1>8, <1>9, <1>10, <1>11,
     IsoStep, HalfStep, MissingStep, FilesStep DEF IInv

LEMMA UploadCommitsKeeps ==
  ASSUME BootTreeAssumption, IInv, NEW a \in Actors, UploadCommits(a)
  PROVE  IInv'
<1>0. TypeOK /\ Placed /\ LockHeld /\ NoRowNoEntry /\ IsoOnDisk /\ WrittenIsoStays
      /\ EntryInOwnDir /\ HandInOwnDir /\ ScanInOwnDir /\ HalfIsOwed /\ MissingIsOwed /\ FilesAreOwned
  BY DEF IInv
<1>h. /\ act[a].ver \in Ids /\ act[a].dir \in Labels /\ act[a].dir \in Dirs
      /\ act[a].saved \subseteq Roles \cup {"iso"}
  BY <1>0, AtWork DEF UploadCommits, AtDirectory, Uploading, TypeOK, ActState, Placed, Is
<1>m. Moves(a, "ended") /\ act'[a].dir = NoDir
  BY <1>0, EndMoves, BootTreeAssumption DEF UploadCommits
<1>1. TypeOK'
  BY <1>0, <1>m, <1>h, Contents, BootTreeAssumption DEF UploadCommits, Moves, TypeOK
<1>2. Placed'
  BY <1>0, <1>m, <1>h DEF UploadCommits, Moves, Is, Placed, TypeOK, ByHand, Uploading,
     AtDirectory, JobPlaces
<1>3. LockHeld'
  BY <1>0, <1>m, <1>h DEF UploadCommits, Moves, Is, LockHeld, Exists, Free, TypeOK, Uploading
<1>4. NoRowNoEntry'
  BY <1>0, <1>m, <1>h, Contents DEF UploadCommits, Moves, NoRowNoEntry, EntryOf, Exists, TypeOK
<1>5. WrittenIsoStays'
  BY <1>0, <1>m, <1>h DEF UploadCommits, Moves, Is, WrittenIsoStays
<1>6. EntryInOwnDir'
  BY <1>0, <1>m, <1>h DEF UploadCommits, Moves, EntryInOwnDir, Exists, TypeOK
<1>7. HandInOwnDir'
  BY <1>0, <1>m, <1>h DEF UploadCommits, Moves, Is, HandInOwnDir, ByHand
<1>7s. ScanInOwnDir'
  BY <1>0, <1>m, ScansStay
<1>8. IsoSeenTo(a)
  BY <1>0, <1>m, <1>h DEF UploadCommits, Moves, Is, IsoSeenTo, TakesIso, Exists, NoRowNoEntry,
     WrittenIsoStays
<1>9. HalfSeenTo(a)
  BY <1>0, <1>m, <1>h, Contents DEF UploadCommits, Moves, Is, HalfSeenTo, Writes, TypeOK,
     Uploading
<1>10. MissingSeenTo(a)
  BY <1>0, <1>m, <1>h, Contents DEF UploadCommits, Moves, Is, MissingSeenTo, StaysUnmissed,
     Unpacks, Relies, Deletes, TypeOK, ByHand, JobPlaces
<1>11. FilesSeenTo(a)
  <2> SUFFICES ASSUME NEW d \in Dirs, NEW r \in Roles, files'[d][r] # Missing, d \notin left'
               PROVE  \/ \E v \in Ids : Owns(v, d)'
                      \/ /\ files[d][r] # Missing /\ d \notin left /\ ~Answers(a, d, r)
                         /\ \A v \in Ids : Owns(v, d) => Owns(v, d)'
    BY DEF FilesSeenTo
  <2>1. files[d][r] # Missing /\ d \notin left
    BY DEF UploadCommits
  <2>2. CASE Answers(a, d, r)
    <3>1. d = act[a].dir
      BY <2>2 DEF Answers
    <3>2. Deletions(d) = {}
      BY <3>1 DEF UploadCommits
    <3>3. rdir'[act[a].ver] = d
      BY <1>0, <1>h, <3>1 DEF UploadCommits, TypeOK
    <3> QED
      BY <1>m, <1>h, <3>2, <3>3, NobodyDeletes, Contents DEF Owns, Exists
  <2>3. ASSUME NEW v \in Ids, Owns(v, d) PROVE Owns(v, d)'
    <3>1. v # act[a].ver
      BY <1>0, <2>3 DEF Owns, LockHeld, UploadCommits, Is
    <3>2. rdir'[v] = rdir[v]
      BY <1>0, <3>1 DEF UploadCommits, TypeOK
    <3> QED
      BY <1>m, <2>3, <3>2, OwnerStays DEF Deletes, Is, Moves
  <2> QED
    BY <2>1, <2>2, <2>3
<1> QED
  BY <1>0, <1>m, <1>1, <1>2, <1>3, <1>4, <1>5, <1>6, <1>7, <1>7s, <1>8, <1>9, <1>10, <1>11,
     IsoStep, HalfStep, MissingStep, FilesStep DEF IInv

LEMMA UploadFailsKeeps ==
  ASSUME BootTreeAssumption, IInv, NEW a \in Actors, UploadFails(a)
  PROVE  IInv'
<1>0. TypeOK /\ Placed /\ LockHeld /\ NoRowNoEntry /\ IsoOnDisk /\ WrittenIsoStays
      /\ EntryInOwnDir /\ HandInOwnDir /\ ScanInOwnDir /\ HalfIsOwed /\ MissingIsOwed /\ FilesAreOwned
  BY DEF IInv
<1>h. act[a].ver \in Ids /\ act[a].dir \in Dirs
  BY <1>0, AtWork DEF UploadFails, AtDirectory, Uploading, ByHand, JobPlaces
<1>m. Moves(a, "discarding") /\ Keeps(a)
  BY <1>0, BecomeMoves DEF UploadFails, Places, JobPlaces
<1>o. \A v \in Ids, d \in Dirs : Owns(v, d) => Owns(v, d)'
  BY <1>m, OwnersStay DEF UploadFails, rowVars
<1>1. TypeOK'
  BY <1>0, <1>m, <1>h, Contents, BootTreeAssumption DEF UploadFails, rowVars, history, Moves,
     Keeps, KeepsAim, TypeOK
<1>2. Placed'
  BY <1>0, <1>m, <1>h DEF UploadFails, rowVars, history, Moves, Keeps, KeepsAim, Is, Placed,
     TypeOK, ByHand, Uploading, AtDirectory, JobPlaces
<1>3. LockHeld'
  BY <1>0, <1>m, <1>h DEF UploadFails, rowVars, history, Moves, Keeps, KeepsAim, Is, LockHeld,
     Exists, Free, TypeOK, Uploading
<1>4. NoRowNoEntry'
  BY <1>0, <1>m, <1>h, Contents DEF UploadFails, rowVars, history, Moves, Keeps, KeepsAim,
     NoRowNoEntry, EntryOf, Exists, TypeOK
<1>5. WrittenIsoStays'
  BY <1>0, <1>m, <1>h DEF UploadFails, rowVars, history, Moves, Keeps, KeepsAim, Is,
     WrittenIsoStays
<1>6. EntryInOwnDir'
  BY <1>0, <1>m, <1>h DEF UploadFails, rowVars, history, Moves, Keeps, KeepsAim, EntryInOwnDir,
     Exists, TypeOK
<1>7. HandInOwnDir'
  BY <1>0, <1>m, <1>h DEF UploadFails, rowVars, history, Moves, Keeps, KeepsAim, Is,
     HandInOwnDir, ByHand
<1>7s. ScanInOwnDir'
  BY <1>0, <1>m, ScansStay
<1>8. IsoSeenTo(a)
  BY <1>0, <1>m, <1>h DEF UploadFails, rowVars, history, Moves, Keeps, KeepsAim, Is, IsoSeenTo,
     TakesIso, Exists, NoRowNoEntry
<1>9. HalfSeenTo(a)
  BY <1>0, <1>m, <1>h, Contents DEF UploadFails, rowVars, history, Moves, Keeps, KeepsAim, Is,
     HalfSeenTo, Writes, TypeOK, Uploading
<1>10. MissingSeenTo(a)
  BY <1>0, <1>m, <1>h, Contents DEF UploadFails, rowVars, history, Moves, Keeps, KeepsAim, Is,
     MissingSeenTo, StaysUnmissed, Unpacks, Relies, Deletes, TypeOK, ByHand, JobPlaces
<1>11. FilesSeenTo(a)
  BY <1>0, <1>m, <1>h, Contents, <1>o DEF UploadFails, rowVars, history, Moves, Keeps, KeepsAim,
     Is, FilesSeenTo, Answers, TypeOK, ByHand, Uploading, JobPlaces
<1> QED
  BY <1>0, <1>m, <1>1, <1>2, <1>3, <1>4, <1>5, <1>6, <1>7, <1>7s, <1>8, <1>9, <1>10, <1>11,
     IsoStep, HalfStep, MissingStep, FilesStep DEF IInv

LEMMA UploadDiscardsKeeps ==
  ASSUME BootTreeAssumption, IInv, NEW a \in Actors, UploadDiscards(a)
  PROVE  IInv'
<1>0. TypeOK /\ Placed /\ LockHeld /\ NoRowNoEntry /\ IsoOnDisk /\ WrittenIsoStays
      /\ EntryInOwnDir /\ HandInOwnDir /\ ScanInOwnDir /\ HalfIsOwed /\ MissingIsOwed /\ FilesAreOwned
  BY DEF IInv
<1>h. /\ act[a].ver \in Ids /\ act[a].dir \in Dirs
      /\ act[a].saved \subseteq Roles \cup {"iso"}
  BY <1>0, AtWork DEF UploadDiscards, AtDirectory, Uploading, TypeOK, ActState
<1>m. Moves(a, "ended") /\ act'[a].dir = NoDir
  BY <1>0, EndMoves, BootTreeAssumption DEF UploadDiscards
<1>o. \A v \in Ids, d \in Dirs : Owns(v, d) => Owns(v, d)'
  BY <1>m, OwnersStay DEF UploadDiscards, rowVars
<1>1. TypeOK'
  BY <1>0, <1>m, <1>h, Contents, BootTreeAssumption DEF UploadDiscards, rowVars, history, Moves,
     TypeOK, DiscardedFiles
<1>2. Placed'
  BY <1>0, <1>m, <1>h DEF UploadDiscards, rowVars, history, Moves, Is, Placed, TypeOK, ByHand,
     Uploading, AtDirectory, JobPlaces
<1>3. LockHeld'
  BY <1>0, <1>m, <1>h DEF UploadDiscards, rowVars, history, Moves, Is, LockHeld, Exists, Free,
     TypeOK, Uploading
<1>4. NoRowNoEntry'
  BY <1>0, <1>m, <1>h, Contents DEF UploadDiscards, rowVars, history, Moves, NoRowNoEntry,
     EntryOf, Exists, TypeOK
<1>5. WrittenIsoStays'
  BY <1>0, <1>m, <1>h DEF UploadDiscards, rowVars, history, Moves, Is, WrittenIsoStays,
     LockHeld, Uploading
<1>6. EntryInOwnDir'
  BY <1>0, <1>m, <1>h DEF UploadDiscards, rowVars, history, Moves, EntryInOwnDir, Exists, TypeOK
<1>7. HandInOwnDir'
  BY <1>0, <1>m, <1>h DEF UploadDiscards, rowVars, history, Moves, Is, HandInOwnDir, ByHand
<1>7s. ScanInOwnDir'
  BY <1>0, <1>m, ScansStay
<1>8. IsoSeenTo(a)
  BY <1>0, <1>m, <1>h DEF UploadDiscards, rowVars, history, Moves, Is, IsoSeenTo, TakesIso,
     Exists, NoRowNoEntry, LockHeld, Uploading
<1>9. HalfSeenTo(a)
  BY <1>0, <1>m, <1>h, Contents DEF UploadDiscards, rowVars, history, Moves, Is, HalfSeenTo,
     Writes, TypeOK, Uploading, DiscardedFiles
<1>10. MissingSeenTo(a)
  <2> SUFFICES ASSUME NEW d \in Dirs, NEW r \in Roles, files'[d][r] = Missing, d \notin hurt',
                      ~StaysUnmissed(a, d, r) \/ files[d][r] # Missing \/ d \in hurt \/ Unpacks(a, d)
               PROVE  NotMissed(d, r)'
    BY DEF MissingSeenTo
  <2>1. d \notin hurt /\ ~Unpacks(a, d) /\ StaysUnmissed(a, d, r)
    BY <1>0, <1>m DEF UploadDiscards, rowVars, Unpacks, StaysUnmissed, Relies, Deletes, Is, JobPlaces,
       ByHand, Moves
  <2>2. d = act[a].dir /\ r \in act[a].saved
    BY <1>0, <1>h, <2>1 DEF UploadDiscards, DiscardedFiles, TypeOK
  <2>3. InUse(d) = {} /\ In(d) = {a} /\ Seen(d) = {}
    BY <2>2 DEF UploadDiscards
  <2>4. ASSUME NEW b \in Actors PROVE ~Relies(b, d, r)'
    <3>1. CASE b = a
      BY <1>m, <3>1 DEF Relies, Is, Moves, ByHand
    <3>2. CASE b # a
      BY <1>m, <2>3, <3>2, OthersStay, ReliedOn
    <3> QED
      BY <3>1, <3>2
  <2>5. \A v \in Ids : entry'[v][r] # d
    BY <1>0, <2>3, EntryIsUse, BootTreeAssumption DEF UploadDiscards, rowVars
  <2> QED
    BY <2>4, <2>5 DEF NotMissed
<1>11. FilesSeenTo(a)
  BY <1>0, <1>m, <1>h, Contents, <1>o DEF UploadDiscards, rowVars, history, Moves, Is,
     FilesSeenTo, Answers, TypeOK, ByHand, Uploading, JobPlaces, DiscardedFiles
<1> QED
  BY <1>0, <1>m, <1>1, <1>2, <1>3, <1>4, <1>5, <1>6, <1>7, <1>7s, <1>8, <1>9, <1>10, <1>11,
     IsoStep, HalfStep, MissingStep, FilesStep DEF IInv

-----------------------------------------------------------------------------
(***************************************************************************)
(* Steps: Extraction tasks                                                 *)
(***************************************************************************)
LEMMA ExtractQueuedKeeps ==
  ASSUME BootTreeAssumption, IInv, NEW a \in Actors, NEW v \in Ids, ExtractQueued(a, v)
  PROVE  IInv'
<1>0. TypeOK /\ Placed /\ LockHeld /\ NoRowNoEntry /\ IsoOnDisk /\ WrittenIsoStays
      /\ EntryInOwnDir /\ HandInOwnDir /\ ScanInOwnDir /\ HalfIsOwed /\ MissingIsOwed /\ FilesAreOwned
  BY DEF IInv
<1>m. /\ Moves(a, "queued")
      /\ act'[a].ver = v /\ act'[a].dir = NoDir /\ act'[a].saved = {}
  BY <1>0, IdleIsTyped, BootTreeAssumption DEF ExtractQueued, Moves, TypeOK, ActState, Places, Idle, Dirs
<1>o. \A w \in Ids, d \in Dirs : Owns(w, d) => Owns(w, d)'
  BY <1>m, OwnersStay DEF ExtractQueued
<1>1. TypeOK'
  BY <1>0, <1>m, Contents, BootTreeAssumption DEF ExtractQueued, history, Moves, TypeOK
<1>2. Placed'
  BY <1>0, <1>m DEF ExtractQueued, history, Moves, Is, Placed, TypeOK, ByHand, Uploading,
     AtDirectory, JobPlaces
<1>3. LockHeld'
  BY <1>0, <1>m DEF ExtractQueued, history, Moves, Is, LockHeld, Exists, Free, TypeOK, Uploading
<1>4. NoRowNoEntry'
  BY <1>0, <1>m, Contents DEF ExtractQueued, history, Moves, NoRowNoEntry, EntryOf, Exists,
     TypeOK
<1>5. WrittenIsoStays'
  BY <1>0, <1>m DEF ExtractQueued, history, Moves, Is, WrittenIsoStays
<1>6. EntryInOwnDir'
  BY <1>0, <1>m DEF ExtractQueued, history, Moves, EntryInOwnDir, Exists, TypeOK
<1>7. HandInOwnDir'
  BY <1>0, <1>m DEF ExtractQueued, history, Moves, Is, HandInOwnDir, ByHand
<1>7s. ScanInOwnDir'
  BY <1>0, <1>m, ScansStay
<1>8. IsoSeenTo(a)
  BY <1>0, <1>m DEF ExtractQueued, history, Moves, Is, IsoSeenTo, TakesIso, Exists, NoRowNoEntry
<1>9. HalfSeenTo(a)
  BY <1>0, <1>m, Contents DEF ExtractQueued, history, Moves, Is, HalfSeenTo, Writes, TypeOK,
     Uploading
<1>10. MissingSeenTo(a)
  BY <1>0, <1>m, Contents DEF ExtractQueued, history, Moves, Is, MissingSeenTo, StaysUnmissed,
     Unpacks, Relies, Deletes, TypeOK, ByHand, JobPlaces
<1>11. FilesSeenTo(a)
  BY <1>0, <1>m, Contents, <1>o DEF ExtractQueued, history, Moves, Is, FilesSeenTo, Answers,
     TypeOK, ByHand, Uploading, JobPlaces
<1> QED
  BY <1>0, <1>m, <1>1, <1>2, <1>3, <1>4, <1>5, <1>6, <1>7, <1>7s, <1>8, <1>9, <1>10, <1>11,
     IsoStep, HalfStep, MissingStep, FilesStep DEF IInv

LEMMA TaskStartsKeeps ==
  ASSUME BootTreeAssumption, IInv, NEW a \in Actors, TaskStarts(a)
  PROVE  IInv'
<1>0. TypeOK /\ Placed /\ LockHeld /\ NoRowNoEntry /\ IsoOnDisk /\ WrittenIsoStays
      /\ EntryInOwnDir /\ HandInOwnDir /\ ScanInOwnDir /\ HalfIsOwed /\ MissingIsOwed /\ FilesAreOwned
  BY DEF IInv
<1>h. act[a].ver \in Ids
  BY <1>0, AtWork DEF TaskStarts
<1>m. PICK p \in {"ended", "tool", "failing"} :
         /\ Moves(a, p)
         /\ IF p = "ended" THEN act'[a].dir = NoDir
            ELSE /\ act'[a].ver = act[a].ver /\ act'[a].dir = rdir[act[a].ver]
                 /\ rdir[act[a].ver] \in Dirs
  <2>1. CASE ~Exists(act[a].ver)
    BY <1>0, <2>1, EndMoves, BootTreeAssumption DEF TaskStarts
  <2>2. CASE Exists(act[a].ver)
    <3>1. rdir[act[a].ver] \in Dirs /\ {"tool", "failing"} \subseteq Places
      BY <1>0, <1>h, <2>2, RowHasDir, BootTreeAssumption DEF Places, JobPlaces
    <3>2. PICK p \in {"tool", "failing"} :
            act' = [act EXCEPT ![a].pc = p, ![a].dir = rdir[act[a].ver]]
      BY <2>2 DEF TaskStarts
    <3> QED
      BY <1>0, <3>1, <3>2, StartMoves
  <2> QED
    BY <2>1, <2>2
<1>o. \A v \in Ids, d \in Dirs : Owns(v, d) => Owns(v, d)'
  BY <1>m, OwnersStay DEF TaskStarts
<1>1. TypeOK'
  BY <1>0, <1>m, <1>h, Contents, BootTreeAssumption DEF TaskStarts, history, Moves, TypeOK,
     Marked
<1>2. Placed'
  BY <1>0, <1>m, <1>h DEF TaskStarts, history, Moves, Is, Placed, TypeOK, ByHand, Uploading,
     AtDirectory, JobPlaces
<1>3. LockHeld'
  BY <1>0, <1>m, <1>h DEF TaskStarts, history, Moves, Is, LockHeld, Exists, Free, TypeOK,
     Uploading
<1>4. NoRowNoEntry'
  BY <1>0, <1>m, <1>h, Contents DEF TaskStarts, history, Moves, NoRowNoEntry, EntryOf, Exists,
     TypeOK
<1>5. WrittenIsoStays'
  BY <1>0, <1>m, <1>h DEF TaskStarts, history, Moves, Is, WrittenIsoStays
<1>6. EntryInOwnDir'
  BY <1>0, <1>m, <1>h DEF TaskStarts, history, Moves, EntryInOwnDir, Exists, TypeOK
<1>7. HandInOwnDir'
  BY <1>0, <1>m, <1>h DEF TaskStarts, history, Moves, Is, HandInOwnDir, ByHand
<1>7s. ScanInOwnDir'
  BY <1>0, <1>m, ScansStay
<1>8. IsoSeenTo(a)
  BY <1>0, <1>m, <1>h DEF TaskStarts, history, Moves, Is, IsoSeenTo, TakesIso, Exists,
     NoRowNoEntry
<1>9. HalfSeenTo(a)
  BY <1>0, <1>m, <1>h, Contents DEF TaskStarts, history, Moves, Is, HalfSeenTo, Writes, TypeOK,
     Uploading
<1>10. MissingSeenTo(a)
  BY <1>0, <1>m, <1>h, Contents DEF TaskStarts, history, Moves, Is, MissingSeenTo,
     StaysUnmissed, Unpacks, Relies, Deletes, TypeOK, ByHand, JobPlaces
<1>11. FilesSeenTo(a)
  BY <1>0, <1>m, <1>h, Contents, <1>o DEF TaskStarts, history, Moves, Is, FilesSeenTo, Answers,
     TypeOK, ByHand, Uploading, JobPlaces
<1> QED
  BY <1>0, <1>m, <1>1, <1>2, <1>3, <1>4, <1>5, <1>6, <1>7, <1>7s, <1>8, <1>9, <1>10, <1>11,
     IsoStep, HalfStep, MissingStep, FilesStep DEF IInv

LEMMA ToolWritesKeeps ==
  ASSUME BootTreeAssumption, IInv, NEW a \in Actors, NEW r \in Roles, ToolWrites(a, r)
  PROVE  IInv'
<1>0. TypeOK /\ Placed /\ LockHeld /\ NoRowNoEntry /\ IsoOnDisk /\ WrittenIsoStays
      /\ EntryInOwnDir /\ HandInOwnDir /\ ScanInOwnDir /\ HalfIsOwed /\ MissingIsOwed /\ FilesAreOwned
  BY DEF IInv
<1>h. act[a].ver \in Ids /\ act[a].dir \in Dirs
  BY <1>0, AtWork DEF ToolWrites, AtDirectory, Uploading, ByHand, JobPlaces
<1>m. Moves(a, "tool") /\ act' = act
  BY <1>0 DEF ToolWrites, Moves, TypeOK
<1>p. PICK c \in Ids \cup {Missing, Half} : /\ c \in {Half, act[a].ver}
                                           /\ Put(act[a].dir, r, c)
  BY <1>h DEF ToolWrites
<1>f. /\ files' \in [Dirs -> [Roles -> Ids \cup {Missing, Half}]]
      /\ \A e \in Dirs, q \in Roles :
           files'[e][q] = IF e = act[a].dir /\ q = r THEN c ELSE files[e][q]
  BY <1>0, <1>h, <1>p, PutPuts
<1>o. \A v \in Ids, d \in Dirs : Owns(v, d) => Owns(v, d)'
  BY <1>m, OwnersStay DEF ToolWrites, rowVars
<1>1. TypeOK'
  BY <1>0, <1>m, <1>h, <1>f, <1>p, Contents, BootTreeAssumption DEF ToolWrites, rowVars,
     history, Moves, TypeOK
<1>2. Placed'
  BY <1>0, <1>m, <1>h, <1>p DEF ToolWrites, rowVars, history, Moves, Is, Placed, TypeOK, ByHand,
     Uploading, AtDirectory, JobPlaces
<1>3. LockHeld'
  BY <1>0, <1>m, <1>h, <1>p DEF ToolWrites, rowVars, history, Moves, Is, LockHeld, Exists, Free,
     TypeOK, Uploading
<1>4. NoRowNoEntry'
  BY <1>0, <1>m, <1>h, <1>p, Contents DEF ToolWrites, rowVars, history, Moves, NoRowNoEntry,
     EntryOf, Exists, TypeOK
<1>5. WrittenIsoStays'
  BY <1>0, <1>m, <1>h, <1>p DEF ToolWrites, rowVars, history, Moves, Is, WrittenIsoStays
<1>6. EntryInOwnDir'
  BY <1>0, <1>m, <1>h, <1>p DEF ToolWrites, rowVars, history, Moves, EntryInOwnDir, Exists,
     TypeOK
<1>7. HandInOwnDir'
  BY <1>0, <1>m, <1>h, <1>p DEF ToolWrites, rowVars, history, Moves, Is, HandInOwnDir, ByHand
<1>7s. ScanInOwnDir'
  BY <1>0, <1>m, ScansStay
<1>8. IsoSeenTo(a)
  BY <1>0, <1>m, <1>h, <1>p DEF ToolWrites, rowVars, history, Moves, Is, IsoSeenTo, TakesIso,
     Exists, NoRowNoEntry
<1>9. HalfSeenTo(a)
  BY <1>0, <1>m, <1>h, <1>f, <1>p, Contents DEF ToolWrites, rowVars, history, Moves, Is,
     HalfSeenTo, Writes, TypeOK, Uploading
<1>10. MissingSeenTo(a)
  BY <1>0, <1>m, <1>h, <1>f, <1>p, Contents DEF ToolWrites, rowVars, history, Moves, Is,
     MissingSeenTo, StaysUnmissed, Unpacks, Relies, Deletes, TypeOK, ByHand, JobPlaces
<1>11. FilesSeenTo(a)
  BY <1>0, <1>m, <1>h, <1>f, <1>p, Contents, <1>o DEF ToolWrites, rowVars, history, Moves, Is,
     FilesSeenTo, Answers, TypeOK, ByHand, Uploading, JobPlaces
<1> QED
  BY <1>0, <1>m, <1>1, <1>2, <1>3, <1>4, <1>5, <1>6, <1>7, <1>7s, <1>8, <1>9, <1>10, <1>11,
     IsoStep, HalfStep, MissingStep, FilesStep DEF IInv

LEMMA ToolSucceedsKeeps ==
  ASSUME BootTreeAssumption, IInv, NEW a \in Actors, ToolSucceeds(a)
  PROVE  IInv'
<1>0. TypeOK /\ Placed /\ LockHeld /\ NoRowNoEntry /\ IsoOnDisk /\ WrittenIsoStays
      /\ EntryInOwnDir /\ HandInOwnDir /\ ScanInOwnDir /\ HalfIsOwed /\ MissingIsOwed /\ FilesAreOwned
  BY DEF IInv
<1>h. act[a].ver \in Ids /\ act[a].dir \in Dirs
  BY <1>0, AtWork DEF ToolSucceeds, AtDirectory, Uploading, ByHand, JobPlaces
<1>m. Moves(a, "unpacked") /\ Keeps(a)
  BY <1>0, BecomeMoves DEF ToolSucceeds, Places, JobPlaces
<1>o. \A v \in Ids, d \in Dirs : Owns(v, d) => Owns(v, d)'
  BY <1>m, OwnersStay DEF ToolSucceeds, rowVars
<1>1. TypeOK'
  BY <1>0, <1>m, <1>h, Contents, BootTreeAssumption DEF ToolSucceeds, rowVars, Moves, Keeps,
     KeepsAim, TypeOK
<1>2. Placed'
  BY <1>0, <1>m, <1>h DEF ToolSucceeds, rowVars, Moves, Keeps, KeepsAim, Is, Placed, TypeOK,
     ByHand, Uploading, AtDirectory, JobPlaces
<1>3. LockHeld'
  BY <1>0, <1>m, <1>h DEF ToolSucceeds, rowVars, Moves, Keeps, KeepsAim, Is, LockHeld, Exists,
     Free, TypeOK, Uploading
<1>4. NoRowNoEntry'
  BY <1>0, <1>m, <1>h, Contents DEF ToolSucceeds, rowVars, Moves, Keeps, KeepsAim, NoRowNoEntry,
     EntryOf, Exists, TypeOK
<1>5. WrittenIsoStays'
  BY <1>0, <1>m, <1>h DEF ToolSucceeds, rowVars, Moves, Keeps, KeepsAim, Is, WrittenIsoStays
<1>6. EntryInOwnDir'
  BY <1>0, <1>m, <1>h DEF ToolSucceeds, rowVars, Moves, Keeps, KeepsAim, EntryInOwnDir, Exists,
     TypeOK
<1>7. HandInOwnDir'
  BY <1>0, <1>m, <1>h DEF ToolSucceeds, rowVars, Moves, Keeps, KeepsAim, Is, HandInOwnDir,
     ByHand
<1>7s. ScanInOwnDir'
  BY <1>0, <1>m, ScansStay
<1>8. IsoSeenTo(a)
  BY <1>0, <1>m, <1>h DEF ToolSucceeds, rowVars, Moves, Keeps, KeepsAim, Is, IsoSeenTo, TakesIso,
     Exists, NoRowNoEntry
<1>9. HalfSeenTo(a)
  BY <1>0, <1>m, <1>h, Contents DEF ToolSucceeds, rowVars, Moves, Keeps, KeepsAim, Is,
     HalfSeenTo, Writes, TypeOK, Uploading
<1>10. MissingSeenTo(a)
  BY <1>0, <1>m, <1>h, Contents DEF ToolSucceeds, rowVars, Moves, Keeps, KeepsAim, Is,
     MissingSeenTo, StaysUnmissed, Unpacks, Relies, Deletes, TypeOK, ByHand, JobPlaces
<1>11. FilesSeenTo(a)
  BY <1>0, <1>m, <1>h, Contents, <1>o DEF ToolSucceeds, rowVars, Moves, Keeps, KeepsAim, Is,
     FilesSeenTo, Answers, TypeOK, ByHand, Uploading, JobPlaces
<1> QED
  BY <1>0, <1>m, <1>1, <1>2, <1>3, <1>4, <1>5, <1>6, <1>7, <1>7s, <1>8, <1>9, <1>10, <1>11,
     IsoStep, HalfStep, MissingStep, FilesStep DEF IInv

LEMMA ToolRetriesKeeps ==
  ASSUME BootTreeAssumption, IInv, NEW a \in Actors, ToolRetries(a)
  PROVE  IInv'
<1>0. TypeOK /\ Placed /\ LockHeld /\ NoRowNoEntry /\ IsoOnDisk /\ WrittenIsoStays
      /\ EntryInOwnDir /\ HandInOwnDir /\ ScanInOwnDir /\ HalfIsOwed /\ MissingIsOwed /\ FilesAreOwned
  BY DEF IInv
<1>h. act[a].ver \in Ids /\ act[a].dir \in Dirs
  BY <1>0, AtWork DEF ToolRetries, AtDirectory, Uploading, ByHand, JobPlaces
<1>m. Moves(a, "tool") /\ Keeps(a)
  BY <1>0 DEF ToolRetries, Moves, Keeps, KeepsAim, TypeOK
<1>o. \A v \in Ids, d \in Dirs : Owns(v, d) => Owns(v, d)'
  BY <1>m, OwnersStay DEF ToolRetries, rowVars
<1>1. TypeOK'
  BY <1>0, <1>m, <1>h, Contents, BootTreeAssumption DEF ToolRetries, rowVars, history, Moves, Keeps,
     KeepsAim, TypeOK, Empty
<1>2. Placed'
  BY <1>0, <1>m, <1>h DEF ToolRetries, rowVars, history, Moves, Keeps, KeepsAim, Is, Placed, TypeOK,
     ByHand, Uploading, AtDirectory, JobPlaces
<1>3. LockHeld'
  BY <1>0, <1>m, <1>h DEF ToolRetries, rowVars, history, Moves, Keeps, KeepsAim, Is, LockHeld, Exists,
     Free, TypeOK, Uploading
<1>4. NoRowNoEntry'
  BY <1>0, <1>m, <1>h, Contents DEF ToolRetries, rowVars, history, Moves, Keeps, KeepsAim, NoRowNoEntry,
     EntryOf, Exists, TypeOK
<1>5. WrittenIsoStays'
  BY <1>0, <1>m, <1>h DEF ToolRetries, rowVars, history, Moves, Keeps, KeepsAim, Is, WrittenIsoStays
<1>6. EntryInOwnDir'
  BY <1>0, <1>m, <1>h DEF ToolRetries, rowVars, history, Moves, Keeps, KeepsAim, EntryInOwnDir, Exists,
     TypeOK
<1>7. HandInOwnDir'
  BY <1>0, <1>m, <1>h DEF ToolRetries, rowVars, history, Moves, Keeps, KeepsAim, Is, HandInOwnDir, ByHand
<1>7s. ScanInOwnDir'
  BY <1>0, <1>m, ScansStay
<1>8. IsoSeenTo(a)
  BY <1>0, <1>m, <1>h DEF ToolRetries, rowVars, history, Moves, Keeps, KeepsAim, Is, IsoSeenTo, TakesIso,
     Exists, NoRowNoEntry
<1>9. HalfSeenTo(a)
  BY <1>0, <1>m, <1>h, Contents DEF ToolRetries, rowVars, history, Moves, Keeps, KeepsAim, Is,
     HalfSeenTo, Writes, TypeOK, Uploading
<1>10. MissingSeenTo(a)
  BY <1>0, <1>m, <1>h, Contents DEF ToolRetries, rowVars, history, Moves, Keeps, KeepsAim, Is,
     MissingSeenTo, StaysUnmissed, Unpacks, Relies, Deletes, TypeOK, ByHand, JobPlaces
<1>11. FilesSeenTo(a)
  BY <1>0, <1>m, <1>h, Contents, <1>o DEF ToolRetries, rowVars, history, Moves, Keeps, KeepsAim, Is,
     FilesSeenTo, Answers, TypeOK, ByHand, Uploading, JobPlaces
<1> QED
  BY <1>0, <1>m, <1>1, <1>2, <1>3, <1>4, <1>5, <1>6, <1>7, <1>7s, <1>8, <1>9, <1>10, <1>11,
     IsoStep, HalfStep, MissingStep, FilesStep DEF IInv

LEMMA TaskFindsKeeps ==
  ASSUME BootTreeAssumption, IInv, NEW a \in Actors, TaskFinds(a)
  PROVE  IInv'
<1>0. TypeOK /\ Placed /\ LockHeld /\ NoRowNoEntry /\ IsoOnDisk /\ WrittenIsoStays
      /\ EntryInOwnDir /\ HandInOwnDir /\ ScanInOwnDir /\ HalfIsOwed /\ MissingIsOwed /\ FilesAreOwned
  BY DEF IInv
<1>h. act[a].ver \in Ids /\ act[a].dir \in Dirs
  BY <1>0, AtWork DEF TaskFinds, AtDirectory, Uploading, ByHand, JobPlaces
<1>g. act[a].pc = "unpacked" /\ UNCHANGED <<rowVars, iso, files, lock, history>>
  BY DEF TaskFinds
<1>m. PICK p \in {"found", "failing"} : Moves(a, p) /\ Keeps(a)
  BY <1>0, BecomeMoves DEF TaskFinds, Places, JobPlaces
<1>u. p = "found" => \A r \in Roles : files[act[a].dir][r] # Missing
  BY <1>0, <1>m DEF TaskFinds, Become, Found, Moves, TypeOK
<1>o. \A v \in Ids, d \in Dirs : Owns(v, d) => Owns(v, d)'
  BY <1>m, OwnersStay DEF TaskFinds, rowVars
<1>1. TypeOK'
  BY <1>0, <1>m, <1>h, Contents, BootTreeAssumption, <1>g DEF rowVars, history, Moves, Keeps,
     KeepsAim, TypeOK
<1>2. Placed'
  BY <1>0, <1>m, <1>h, <1>g DEF rowVars, history, Moves, Keeps, KeepsAim, Is, Placed, TypeOK,
     ByHand, Uploading, AtDirectory, JobPlaces
<1>3. LockHeld'
  BY <1>0, <1>m, <1>h, <1>g DEF rowVars, history, Moves, Keeps, KeepsAim, Is, LockHeld, Exists,
     Free, TypeOK, Uploading
<1>4. NoRowNoEntry'
  BY <1>0, <1>m, <1>h, Contents, <1>g DEF rowVars, history, Moves, Keeps, KeepsAim,
     NoRowNoEntry, EntryOf, Exists, TypeOK
<1>5. WrittenIsoStays'
  BY <1>0, <1>m, <1>h, <1>g DEF rowVars, history, Moves, Keeps, KeepsAim, Is, WrittenIsoStays
<1>6. EntryInOwnDir'
  BY <1>0, <1>m, <1>h, <1>g DEF rowVars, history, Moves, Keeps, KeepsAim, EntryInOwnDir, Exists,
     TypeOK
<1>7. HandInOwnDir'
  BY <1>0, <1>m, <1>h, <1>g DEF rowVars, history, Moves, Keeps, KeepsAim, Is, HandInOwnDir,
     ByHand
<1>7s. ScanInOwnDir'
  BY <1>0, <1>m, ScansStay
<1>8. IsoSeenTo(a)
  BY <1>0, <1>m, <1>h, <1>g DEF rowVars, history, Moves, Keeps, KeepsAim, Is, IsoSeenTo,
     TakesIso, Exists, NoRowNoEntry
<1>9. HalfSeenTo(a)
  BY <1>0, <1>m, <1>h, Contents, <1>g DEF rowVars, history, Moves, Keeps, KeepsAim, Is,
     HalfSeenTo, Writes, TypeOK, Uploading
<1>10. MissingSeenTo(a)
  BY <1>0, <1>m, <1>h, Contents, <1>g, <1>u DEF rowVars, history, Moves, Keeps, KeepsAim, Is,
     MissingSeenTo, StaysUnmissed, Unpacks, Relies, Deletes, TypeOK, ByHand, JobPlaces
<1>11. FilesSeenTo(a)
  BY <1>0, <1>m, <1>h, Contents, <1>o, <1>g DEF rowVars, history, Moves, Keeps, KeepsAim, Is,
     FilesSeenTo, Answers, TypeOK, ByHand, Uploading, JobPlaces
<1> QED
  BY <1>0, <1>m, <1>1, <1>2, <1>3, <1>4, <1>5, <1>6, <1>7, <1>7s, <1>8, <1>9, <1>10, <1>11,
     IsoStep, HalfStep, MissingStep, FilesStep DEF IInv

LEMMA TaskPurgesKeeps ==
  ASSUME BootTreeAssumption, IInv, NEW a \in Actors, TaskPurges(a)
  PROVE  IInv'
<1>0. TypeOK /\ Placed /\ LockHeld /\ NoRowNoEntry /\ IsoOnDisk /\ WrittenIsoStays
      /\ EntryInOwnDir /\ HandInOwnDir /\ ScanInOwnDir /\ HalfIsOwed /\ MissingIsOwed /\ FilesAreOwned
  BY DEF IInv
<1>h. act[a].ver \in Ids /\ act[a].dir \in Dirs
  BY <1>0, AtWork DEF TaskPurges, AtDirectory, Uploading, ByHand, JobPlaces
<1>g. /\ act[a].pc = "found" /\ UNCHANGED <<rowVars, files, lock, hurt, left, outlived>>
      /\ iso' = iso \ {act[a].ver}
      /\ isoTaken' = IF \E b \in Actors : act[b].pc = "writing" /\ act[b].ver = act[a].ver
                     THEN isoTaken \cup {act[a].ver} ELSE isoTaken
  BY DEF TaskPurges
<1>m. Moves(a, "purged") /\ Keeps(a)
  BY <1>0, BecomeMoves DEF TaskPurges, Places, JobPlaces
<1>o. \A v \in Ids, d \in Dirs : Owns(v, d) => Owns(v, d)'
  BY <1>m, OwnersStay DEF TaskPurges, rowVars
<1>1. TypeOK'
  BY <1>0, <1>m, <1>h, Contents, BootTreeAssumption, <1>g DEF rowVars, Moves, Keeps,
     KeepsAim, TypeOK
<1>2. Placed'
  BY <1>0, <1>m, <1>h, <1>g DEF rowVars, Moves, Keeps, KeepsAim, Is, Placed, TypeOK,
     ByHand, Uploading, AtDirectory, JobPlaces
<1>3. LockHeld'
  BY <1>0, <1>m, <1>h, <1>g DEF rowVars, Moves, Keeps, KeepsAim, Is, LockHeld, Exists,
     Free, TypeOK, Uploading
<1>4. NoRowNoEntry'
  BY <1>0, <1>m, <1>h, Contents, <1>g DEF rowVars, Moves, Keeps, KeepsAim,
     NoRowNoEntry, EntryOf, Exists, TypeOK
<1>5. WrittenIsoStays'
  BY <1>0, <1>m, <1>h, <1>g DEF rowVars, Moves, Keeps, KeepsAim, Is, WrittenIsoStays
<1>6. EntryInOwnDir'
  BY <1>0, <1>m, <1>h, <1>g DEF rowVars, Moves, Keeps, KeepsAim, EntryInOwnDir, Exists,
     TypeOK
<1>7. HandInOwnDir'
  BY <1>0, <1>m, <1>h, <1>g DEF rowVars, Moves, Keeps, KeepsAim, Is, HandInOwnDir,
     ByHand
<1>7s. ScanInOwnDir'
  BY <1>0, <1>m, ScansStay
<1>8. IsoSeenTo(a)
  BY <1>0, <1>m, <1>h, <1>g DEF rowVars, Moves, Keeps, KeepsAim, Is, IsoSeenTo,
     TakesIso, Exists, NoRowNoEntry
<1>9. HalfSeenTo(a)
  BY <1>0, <1>m, <1>h, Contents, <1>g DEF rowVars, Moves, Keeps, KeepsAim, Is,
     HalfSeenTo, Writes, TypeOK, Uploading
<1>10. MissingSeenTo(a)
  BY <1>0, <1>m, <1>h, Contents, <1>g DEF rowVars, Moves, Keeps, KeepsAim, Is,
     MissingSeenTo, StaysUnmissed, Unpacks, Relies, Deletes, TypeOK, ByHand, JobPlaces
<1>11. FilesSeenTo(a)
  BY <1>0, <1>m, <1>h, Contents, <1>o, <1>g DEF rowVars, Moves, Keeps, KeepsAim, Is,
     FilesSeenTo, Answers, TypeOK, ByHand, Uploading, JobPlaces
<1> QED
  BY <1>0, <1>m, <1>1, <1>2, <1>3, <1>4, <1>5, <1>6, <1>7, <1>7s, <1>8, <1>9, <1>10, <1>11,
     IsoStep, HalfStep, MissingStep, FilesStep DEF IInv

LEMMA TaskCommitsKeeps ==
  ASSUME BootTreeAssumption, IInv, NEW a \in Actors, TaskCommits(a)
  PROVE  IInv'
<1>0. TypeOK /\ Placed /\ LockHeld /\ NoRowNoEntry /\ IsoOnDisk /\ WrittenIsoStays
      /\ EntryInOwnDir /\ HandInOwnDir /\ ScanInOwnDir /\ HalfIsOwed /\ MissingIsOwed /\ FilesAreOwned
  BY DEF IInv
<1>h. act[a].ver \in Ids /\ act[a].dir \in Dirs
  BY <1>0, AtWork DEF TaskCommits, AtDirectory, Uploading, ByHand, JobPlaces
<1>m. Moves(a, "ended") /\ act'[a].dir = NoDir
  BY <1>0, EndMoves, BootTreeAssumption DEF TaskCommits
<1>o. \A v \in Ids, d \in Dirs : Owns(v, d) => Owns(v, d)'
  BY <1>m, OwnersStay DEF TaskCommits
<1>1. TypeOK'
  BY <1>0, <1>m, <1>h, Contents, BootTreeAssumption DEF TaskCommits, Moves, TypeOK, EntryOf
<1>2. Placed'
  BY <1>0, <1>m, <1>h DEF TaskCommits, Moves, Is, Placed, TypeOK, ByHand, Uploading,
     AtDirectory, JobPlaces
<1>3. LockHeld'
  BY <1>0, <1>m, <1>h DEF TaskCommits, Moves, Is, LockHeld, Exists, Free, TypeOK, Uploading
<1>4. NoRowNoEntry'
  BY <1>0, <1>m, <1>h, Contents DEF TaskCommits, Moves, NoRowNoEntry, EntryOf, Exists, TypeOK
<1>5. WrittenIsoStays'
  BY <1>0, <1>m, <1>h DEF TaskCommits, Moves, Is, WrittenIsoStays
<1>6. EntryInOwnDir'
  BY <1>0, <1>m, <1>h DEF TaskCommits, Moves, EntryInOwnDir, Exists, TypeOK, EntryOf
<1>7. HandInOwnDir'
  BY <1>0, <1>m, <1>h DEF TaskCommits, Moves, Is, HandInOwnDir, ByHand
<1>7s. ScanInOwnDir'
  BY <1>0, <1>m, ScansStay
<1>8. IsoSeenTo(a)
  BY <1>0, <1>m, <1>h DEF TaskCommits, Moves, Is, IsoSeenTo, TakesIso, Exists, NoRowNoEntry
<1>9. HalfSeenTo(a)
  BY <1>0, <1>m, <1>h, Contents DEF TaskCommits, Moves, Is, HalfSeenTo, Writes, TypeOK,
     Uploading
<1>10. MissingSeenTo(a)
  <2> SUFFICES ASSUME NEW d \in Dirs, NEW r \in Roles, files'[d][r] = Missing, d \notin hurt'
               PROVE  /\ files[d][r] = Missing /\ d \notin hurt /\ ~Unpacks(a, d)
                      /\ StaysUnmissed(a, d, r)
    BY DEF MissingSeenTo
  <2>1. files[d][r] = Missing /\ d \notin hurt
    BY DEF TaskCommits
  <2>2. ~Unpacks(a, d) /\ ~Relies(a, d, r)' /\ \A v \in Ids : ~Deletes(a, v, d)
    BY <1>m DEF TaskCommits, Unpacks, Relies, Deletes, Is, ByHand, Moves
  <2>3. ASSUME NEW v \in Ids, entry'[v][r] = d PROVE entry[v][r] = d \/ Relies(a, d, r)
    BY <1>0, <1>h, <2>3 DEF TaskCommits, EntryOf, TypeOK, Relies, Is
  <2> QED
    BY <2>1, <2>2, <2>3 DEF StaysUnmissed
<1>11. FilesSeenTo(a)
  <2>1. PICK v \in Ids : v = act[a].ver
    BY <1>h
  <2>2. ASSUME NEW d \in Dirs, NEW r \in Roles, d \notin left', Answers(a, d, r)
        PROVE  Owns(v, d)'
    <3>1. d = act[a].dir
      BY <2>1, <2>2 DEF Answers, TaskCommits, Is
    <3>2. Deletions(d) = {} /\ d \in {rdir[v], v} /\ Exists(v) /\ rdir' = rdir
      BY <2>1, <2>2, <3>1 DEF TaskCommits
    <3>3. ~Deleted(v, d)'
      BY <1>m, <3>2, NobodyDeletes
    <3> QED
      BY <3>2, <3>3 DEF Owns, Exists
  <2>3. files' = files /\ left \subseteq left'
    BY DEF TaskCommits
  <2> QED
    BY <1>o, <2>2, <2>3 DEF FilesSeenTo
<1> QED
  BY <1>0, <1>m, <1>1, <1>2, <1>3, <1>4, <1>5, <1>6, <1>7, <1>7s, <1>8, <1>9, <1>10, <1>11,
     IsoStep, HalfStep, MissingStep, FilesStep DEF IInv

LEMMA TaskCommitFailsKeeps ==
  ASSUME BootTreeAssumption, IInv, NEW a \in Actors, TaskCommitFails(a)
  PROVE  IInv'
<1>0. TypeOK /\ Placed /\ LockHeld /\ NoRowNoEntry /\ IsoOnDisk /\ WrittenIsoStays
      /\ EntryInOwnDir /\ HandInOwnDir /\ ScanInOwnDir /\ HalfIsOwed /\ MissingIsOwed /\ FilesAreOwned
  BY DEF IInv
<1>h. act[a].ver \in Ids /\ act[a].dir \in Dirs
  BY <1>0, AtWork DEF TaskCommitFails, AtDirectory, Uploading, ByHand, JobPlaces
<1>m. Moves(a, "failing") /\ Keeps(a)
  BY <1>0, BecomeMoves DEF TaskCommitFails, Places, JobPlaces
<1>o. \A v \in Ids, d \in Dirs : Owns(v, d) => Owns(v, d)'
  BY <1>m, OwnersStay DEF TaskCommitFails, rowVars
<1>1. TypeOK'
  BY <1>0, <1>m, <1>h, Contents, BootTreeAssumption DEF TaskCommitFails, rowVars, history,
     Moves, Keeps, KeepsAim, TypeOK
<1>2. Placed'
  BY <1>0, <1>m, <1>h DEF TaskCommitFails, rowVars, history, Moves, Keeps, KeepsAim, Is, Placed,
     TypeOK, ByHand, Uploading, AtDirectory, JobPlaces
<1>3. LockHeld'
  BY <1>0, <1>m, <1>h DEF TaskCommitFails, rowVars, history, Moves, Keeps, KeepsAim, Is,
     LockHeld, Exists, Free, TypeOK, Uploading
<1>4. NoRowNoEntry'
  BY <1>0, <1>m, <1>h, Contents DEF TaskCommitFails, rowVars, history, Moves, Keeps, KeepsAim,
     NoRowNoEntry, EntryOf, Exists, TypeOK
<1>5. WrittenIsoStays'
  BY <1>0, <1>m, <1>h DEF TaskCommitFails, rowVars, history, Moves, Keeps, KeepsAim, Is,
     WrittenIsoStays
<1>6. EntryInOwnDir'
  BY <1>0, <1>m, <1>h DEF TaskCommitFails, rowVars, history, Moves, Keeps, KeepsAim,
     EntryInOwnDir, Exists, TypeOK
<1>7. HandInOwnDir'
  BY <1>0, <1>m, <1>h DEF TaskCommitFails, rowVars, history, Moves, Keeps, KeepsAim, Is,
     HandInOwnDir, ByHand
<1>7s. ScanInOwnDir'
  BY <1>0, <1>m, ScansStay
<1>8. IsoSeenTo(a)
  BY <1>0, <1>m, <1>h DEF TaskCommitFails, rowVars, history, Moves, Keeps, KeepsAim, Is,
     IsoSeenTo, TakesIso, Exists, NoRowNoEntry
<1>9. HalfSeenTo(a)
  BY <1>0, <1>m, <1>h, Contents DEF TaskCommitFails, rowVars, history, Moves, Keeps, KeepsAim,
     Is, HalfSeenTo, Writes, TypeOK, Uploading
<1>10. MissingSeenTo(a)
  BY <1>0, <1>m, <1>h, Contents DEF TaskCommitFails, rowVars, history, Moves, Keeps, KeepsAim,
     Is, MissingSeenTo, StaysUnmissed, Unpacks, Relies, Deletes, TypeOK, ByHand, JobPlaces
<1>11. FilesSeenTo(a)
  BY <1>0, <1>m, <1>h, Contents, <1>o DEF TaskCommitFails, rowVars, history, Moves, Keeps,
     KeepsAim, Is, FilesSeenTo, Answers, TypeOK, ByHand, Uploading, JobPlaces
<1> QED
  BY <1>0, <1>m, <1>1, <1>2, <1>3, <1>4, <1>5, <1>6, <1>7, <1>7s, <1>8, <1>9, <1>10, <1>11,
     IsoStep, HalfStep, MissingStep, FilesStep DEF IInv

LEMMA TaskFailsKeeps ==
  ASSUME BootTreeAssumption, IInv, NEW a \in Actors, TaskFails(a)
  PROVE  IInv'
<1>0. TypeOK /\ Placed /\ LockHeld /\ NoRowNoEntry /\ IsoOnDisk /\ WrittenIsoStays
      /\ EntryInOwnDir /\ HandInOwnDir /\ ScanInOwnDir /\ HalfIsOwed /\ MissingIsOwed /\ FilesAreOwned
  BY DEF IInv
<1>h. act[a].ver \in Ids /\ act[a].dir \in Dirs
  BY <1>0, AtWork DEF TaskFails, AtDirectory, Uploading, ByHand, JobPlaces
<1>m. Moves(a, "ended") /\ act'[a].dir = NoDir
  BY <1>0, EndMoves, BootTreeAssumption DEF TaskFails
<1>o. \A v \in Ids, d \in Dirs : Owns(v, d) => Owns(v, d)'
  BY <1>m, OwnersStay DEF TaskFails, rowVars
<1>1. TypeOK'
  BY <1>0, <1>m, <1>h, Contents, BootTreeAssumption DEF TaskFails, rowVars, history, Moves,
     TypeOK, Marked
<1>2. Placed'
  BY <1>0, <1>m, <1>h DEF TaskFails, rowVars, history, Moves, Is, Placed, TypeOK, ByHand,
     Uploading, AtDirectory, JobPlaces
<1>3. LockHeld'
  BY <1>0, <1>m, <1>h DEF TaskFails, rowVars, history, Moves, Is, LockHeld, Exists, Free,
     TypeOK, Uploading
<1>4. NoRowNoEntry'
  BY <1>0, <1>m, <1>h, Contents DEF TaskFails, rowVars, history, Moves, NoRowNoEntry, EntryOf,
     Exists, TypeOK
<1>5. WrittenIsoStays'
  BY <1>0, <1>m, <1>h DEF TaskFails, rowVars, history, Moves, Is, WrittenIsoStays
<1>6. EntryInOwnDir'
  BY <1>0, <1>m, <1>h DEF TaskFails, rowVars, history, Moves, EntryInOwnDir, Exists, TypeOK
<1>7. HandInOwnDir'
  BY <1>0, <1>m, <1>h DEF TaskFails, rowVars, history, Moves, Is, HandInOwnDir, ByHand
<1>7s. ScanInOwnDir'
  BY <1>0, <1>m, ScansStay
<1>8. IsoSeenTo(a)
  BY <1>0, <1>m, <1>h DEF TaskFails, rowVars, history, Moves, Is, IsoSeenTo, TakesIso, Exists,
     NoRowNoEntry
<1>9. HalfSeenTo(a)
  BY <1>0, <1>m, <1>h, Contents DEF TaskFails, rowVars, history, Moves, Is, HalfSeenTo, Writes,
     TypeOK, Uploading
<1>10. MissingSeenTo(a)
  BY <1>0, <1>m, <1>h, Contents DEF TaskFails, rowVars, history, Moves, Is, MissingSeenTo,
     StaysUnmissed, Unpacks, Relies, Deletes, TypeOK, ByHand, JobPlaces
<1>11. FilesSeenTo(a)
  BY <1>0, <1>m, <1>h, Contents, <1>o DEF TaskFails, rowVars, history, Moves, Is, FilesSeenTo,
     Answers, TypeOK, ByHand, Uploading, JobPlaces
<1> QED
  BY <1>0, <1>m, <1>1, <1>2, <1>3, <1>4, <1>5, <1>6, <1>7, <1>7s, <1>8, <1>9, <1>10, <1>11,
     IsoStep, HalfStep, MissingStep, FilesStep DEF IInv

-----------------------------------------------------------------------------
(***************************************************************************)
(* Steps: Boot files by hand                                               *)
(***************************************************************************)
LEMMA HandOpensKeeps ==
  ASSUME BootTreeAssumption, IInv, NEW a \in Actors, NEW v \in Ids, NEW r \in Roles, HandOpens(a, v, r)
  PROVE  IInv'
<1>0. TypeOK /\ Placed /\ LockHeld /\ NoRowNoEntry /\ IsoOnDisk /\ WrittenIsoStays
      /\ EntryInOwnDir /\ HandInOwnDir /\ ScanInOwnDir /\ HalfIsOwed /\ MissingIsOwed /\ FilesAreOwned
  BY DEF IInv
<1>h. Exists(v) /\ rdir[v] \in Dirs
  BY <1>0, RowHasDir, BootTreeAssumption DEF HandOpens
<1>m. /\ Moves(a, "hand")
      /\ act'[a].ver = v /\ act'[a].dir = rdir[v] /\ act'[a].role = r /\ act'[a].index[v] = rdir[v]
  <2>1. PICK s \in SUBSET Ids :
          act' = [act EXCEPT ![a] = [Idle EXCEPT !.pc = "hand", !.ver = v, !.dir = rdir[v],
                                                 !.role = r, !.ready = s, !.index = Own(v)]]
    <3>1. {w \in {v} : status[w] = "ready"} \in SUBSET Ids
      OBVIOUS
    <3> QED
      BY <3>1 DEF HandOpens
  <2> QED
    BY <1>0, <1>h, <2>1, HandMoves, BootTreeAssumption
<1>f. /\ files' \in [Dirs -> [Roles -> Ids \cup {Missing, Half}]]
      /\ \A e \in Dirs, q \in Roles :
           files'[e][q] = IF e = rdir[v] /\ q = r THEN Half ELSE files[e][q]
  BY <1>0, <1>h, PutPuts DEF HandOpens
<1>o. \A w \in Ids, d \in Dirs : Owns(w, d) => Owns(w, d)'
  BY <1>m, OwnersStay DEF HandOpens, rowVars
<1>1. TypeOK'
  BY <1>0, <1>m, <1>h, <1>f, Contents, BootTreeAssumption DEF HandOpens, rowVars, history,
     Moves, TypeOK
<1>2. Placed'
  BY <1>0, <1>m, <1>h DEF HandOpens, rowVars, history, Moves, Is, Placed, TypeOK, ByHand,
     Uploading, AtDirectory, JobPlaces
<1>3. LockHeld'
  BY <1>0, <1>m, <1>h DEF HandOpens, rowVars, history, Moves, Is, LockHeld, Exists, Free,
     TypeOK, Uploading
<1>4. NoRowNoEntry'
  BY <1>0, <1>m, <1>h, Contents DEF HandOpens, rowVars, history, Moves, NoRowNoEntry, EntryOf,
     Exists, TypeOK
<1>5. WrittenIsoStays'
  BY <1>0, <1>m, <1>h DEF HandOpens, rowVars, history, Moves, Is, WrittenIsoStays
<1>6. EntryInOwnDir'
  BY <1>0, <1>m, <1>h DEF HandOpens, rowVars, history, Moves, EntryInOwnDir, Exists, TypeOK
<1>7. HandInOwnDir'
  BY <1>0, <1>m, <1>h DEF HandOpens, rowVars, history, Moves, Is, HandInOwnDir, ByHand
<1>7s. ScanInOwnDir'
  BY <1>0, <1>m, ScansStay
<1>8. IsoSeenTo(a)
  BY <1>0, <1>m, <1>h DEF HandOpens, rowVars, history, Moves, Is, IsoSeenTo, TakesIso, Exists,
     NoRowNoEntry
<1>9. HalfSeenTo(a)
  BY <1>0, <1>m, <1>h, <1>f, Contents DEF HandOpens, rowVars, history, Moves, Is, HalfSeenTo,
     Writes, TypeOK, Uploading
<1>10. MissingSeenTo(a)
  BY <1>0, <1>m, <1>h, <1>f, Contents DEF HandOpens, rowVars, history, Moves, Is, MissingSeenTo,
     StaysUnmissed, Unpacks, Relies, Deletes, TypeOK, ByHand, JobPlaces
<1>11. FilesSeenTo(a)
  BY <1>0, <1>m, <1>h, <1>f, Contents, <1>o DEF HandOpens, rowVars, history, Moves, Is,
     FilesSeenTo, Answers, TypeOK, ByHand, Uploading, JobPlaces
<1> QED
  BY <1>0, <1>m, <1>1, <1>2, <1>3, <1>4, <1>5, <1>6, <1>7, <1>7s, <1>8, <1>9, <1>10, <1>11,
     IsoStep, HalfStep, MissingStep, FilesStep DEF IInv

LEMMA ReplaceOpensKeeps ==
  ASSUME BootTreeAssumption, IInv, NEW a \in Actors, NEW v \in Ids, NEW r \in Roles, ReplaceOpens(a, v, r)
  PROVE  IInv'
<1>0. TypeOK /\ Placed /\ LockHeld /\ NoRowNoEntry /\ IsoOnDisk /\ WrittenIsoStays
      /\ EntryInOwnDir /\ HandInOwnDir /\ ScanInOwnDir /\ HalfIsOwed /\ MissingIsOwed /\ FilesAreOwned
  BY DEF IInv
<1>h. Exists(v) /\ rdir[v] \in Dirs /\ Replaced(v, r) \in Dirs
  BY <1>0, RowHasDir, BootTreeAssumption DEF ReplaceOpens, Replaced, TypeOK
<1>m. /\ Moves(a, "hand")
      /\ act'[a].ver = v /\ act'[a].dir = Replaced(v, r) /\ act'[a].role = r /\ act'[a].index[v] = rdir[v]
  <2>1. PICK s \in SUBSET Ids :
          act' = [act EXCEPT ![a] = [Idle EXCEPT !.pc = "hand", !.ver = v, !.dir = Replaced(v, r),
                                                 !.role = r, !.ready = s, !.index = Own(v)]]
    <3>1. {v} \in SUBSET Ids
      OBVIOUS
    <3> QED
      BY <3>1 DEF ReplaceOpens
  <2> QED
    BY <1>0, <1>h, <2>1, HandMoves, BootTreeAssumption
<1>f. /\ files' \in [Dirs -> [Roles -> Ids \cup {Missing, Half}]]
      /\ \A e \in Dirs, q \in Roles :
           files'[e][q] = IF e = Replaced(v, r) /\ q = r THEN Half ELSE files[e][q]
  BY <1>0, <1>h, PutPuts DEF ReplaceOpens
<1>o. \A w \in Ids, d \in Dirs : Owns(w, d) => Owns(w, d)'
  BY <1>m, OwnersStay DEF ReplaceOpens, rowVars
<1>1. TypeOK'
  BY <1>0, <1>m, <1>h, <1>f, Contents, BootTreeAssumption DEF ReplaceOpens, rowVars, history,
     Moves, TypeOK
<1>2. Placed'
  BY <1>0, <1>m, <1>h DEF ReplaceOpens, rowVars, history, Moves, Is, Placed, TypeOK, ByHand,
     Uploading, AtDirectory, JobPlaces
<1>3. LockHeld'
  BY <1>0, <1>m, <1>h DEF ReplaceOpens, rowVars, history, Moves, Is, LockHeld, Exists, Free,
     TypeOK, Uploading
<1>4. NoRowNoEntry'
  BY <1>0, <1>m, <1>h, Contents DEF ReplaceOpens, rowVars, history, Moves, NoRowNoEntry,
     EntryOf, Exists, TypeOK
<1>5. WrittenIsoStays'
  BY <1>0, <1>m, <1>h DEF ReplaceOpens, rowVars, history, Moves, Is, WrittenIsoStays
<1>6. EntryInOwnDir'
  BY <1>0, <1>m, <1>h DEF ReplaceOpens, rowVars, history, Moves, EntryInOwnDir, Exists, TypeOK
<1>7. HandInOwnDir'
  BY <1>0, <1>m, <1>h DEF ReplaceOpens, rowVars, history, Moves, Is, HandInOwnDir, ByHand,
     EntryInOwnDir, Replaced, Exists
<1>7s. ScanInOwnDir'
  BY <1>0, <1>m, ScansStay
<1>8. IsoSeenTo(a)
  BY <1>0, <1>m, <1>h DEF ReplaceOpens, rowVars, history, Moves, Is, IsoSeenTo, TakesIso, Exists,
     NoRowNoEntry
<1>9. HalfSeenTo(a)
  BY <1>0, <1>m, <1>h, <1>f, Contents DEF ReplaceOpens, rowVars, history, Moves, Is, HalfSeenTo,
     Writes, TypeOK, Uploading
<1>10. MissingSeenTo(a)
  BY <1>0, <1>m, <1>h, <1>f, Contents DEF ReplaceOpens, rowVars, history, Moves, Is,
     MissingSeenTo, StaysUnmissed, Unpacks, Relies, Deletes, TypeOK, ByHand, JobPlaces
<1>11. FilesSeenTo(a)
  <2>1. \A e \in Dirs, q \in Roles : ~Answers(a, e, q)
    BY DEF ReplaceOpens, Answers, Is, Uploading, ByHand, JobPlaces
  <2>2. CASE Replaced(v, r) = rdir[v]
    <3>1. Answers(a, rdir[v], r)'
      BY <1>m, <2>2 DEF Answers, Is, Moves, ByHand, ReplaceOpens, rowVars
    <3> QED
      <4> SUFFICES ASSUME NEW e \in Dirs, NEW q \in Roles, files'[e][q] # Missing, files[e][q] = Missing
                   PROVE  Answers(a, e, q)'
        BY <1>o, <2>1 DEF FilesSeenTo, ReplaceOpens, history
      <4>1. e = rdir[v] /\ q = r /\ rdir' = rdir
        BY <1>f, <2>2 DEF ReplaceOpens, rowVars
      <4> QED
        BY <3>1, <4>1
  <2>3. CASE Replaced(v, r) # rdir[v]
    <3>1. files[Replaced(v, r)][r] # Missing
      BY <2>3 DEF Replaced
    <3> QED
      BY <1>f, <1>o, <2>1, <3>1 DEF FilesSeenTo, ReplaceOpens, history
  <2> QED
    BY <2>2, <2>3
<1> QED
  BY <1>0, <1>m, <1>1, <1>2, <1>3, <1>4, <1>5, <1>6, <1>7, <1>7s, <1>8, <1>9, <1>10, <1>11,
     IsoStep, HalfStep, MissingStep, FilesStep DEF IInv

LEMMA HandWritesKeeps ==
  ASSUME BootTreeAssumption, IInv, NEW a \in Actors, HandWrites(a)
  PROVE  IInv'
<1>0. TypeOK /\ Placed /\ LockHeld /\ NoRowNoEntry /\ IsoOnDisk /\ WrittenIsoStays
      /\ EntryInOwnDir /\ HandInOwnDir /\ ScanInOwnDir /\ HalfIsOwed /\ MissingIsOwed /\ FilesAreOwned
  BY DEF IInv
<1>h. act[a].ver \in Ids /\ act[a].dir \in Dirs /\ act[a].role \in Roles
  BY <1>0, AtWork DEF HandWrites, AtDirectory, ByHand, Placed, Is
<1>m. Moves(a, "written") /\ Keeps(a)
  BY <1>0, BecomeMoves DEF HandWrites, Places, JobPlaces
<1>f. /\ files' \in [Dirs -> [Roles -> Ids \cup {Missing, Half}]]
      /\ \A e \in Dirs, q \in Roles :
           files'[e][q] = IF e = act[a].dir /\ q = act[a].role /\ files[e][q] # Missing THEN act[a].ver ELSE files[e][q]
  BY <1>0, <1>h, ClosePuts DEF HandWrites
<1>o. \A v \in Ids, d \in Dirs : Owns(v, d) => Owns(v, d)'
  BY <1>m, OwnersStay DEF HandWrites, rowVars
<1>1. TypeOK'
  BY <1>0, <1>m, <1>h, <1>f, Contents, BootTreeAssumption DEF HandWrites, rowVars, history,
     Moves, Keeps, KeepsAim, TypeOK
<1>2. Placed'
  BY <1>0, <1>m, <1>h DEF HandWrites, rowVars, history, Moves, Keeps, KeepsAim, Is, Placed,
     TypeOK, ByHand, Uploading, AtDirectory, JobPlaces
<1>3. LockHeld'
  BY <1>0, <1>m, <1>h DEF HandWrites, rowVars, history, Moves, Keeps, KeepsAim, Is, LockHeld,
     Exists, Free, TypeOK, Uploading
<1>4. NoRowNoEntry'
  BY <1>0, <1>m, <1>h, Contents DEF HandWrites, rowVars, history, Moves, Keeps, KeepsAim,
     NoRowNoEntry, EntryOf, Exists, TypeOK
<1>5. WrittenIsoStays'
  BY <1>0, <1>m, <1>h DEF HandWrites, rowVars, history, Moves, Keeps, KeepsAim, Is,
     WrittenIsoStays
<1>6. EntryInOwnDir'
  BY <1>0, <1>m, <1>h DEF HandWrites, rowVars, history, Moves, Keeps, KeepsAim, EntryInOwnDir,
     Exists, TypeOK
<1>7. HandInOwnDir'
  BY <1>0, <1>m, <1>h DEF HandWrites, rowVars, history, Moves, Keeps, KeepsAim, Is,
     HandInOwnDir, ByHand
<1>7s. ScanInOwnDir'
  BY <1>0, <1>m, ScansStay
<1>8. IsoSeenTo(a)
  BY <1>0, <1>m, <1>h DEF HandWrites, rowVars, history, Moves, Keeps, KeepsAim, Is, IsoSeenTo,
     TakesIso, Exists, NoRowNoEntry
<1>9. HalfSeenTo(a)
  BY <1>0, <1>m, <1>h, <1>f, Contents DEF HandWrites, rowVars, history, Moves, Keeps, KeepsAim,
     Is, HalfSeenTo, Writes, TypeOK, Uploading
<1>10. MissingSeenTo(a)
  BY <1>0, <1>m, <1>h, <1>f, Contents DEF HandWrites, rowVars, history, Moves, Keeps, KeepsAim,
     Is, MissingSeenTo, StaysUnmissed, Unpacks, Relies, Deletes, TypeOK, ByHand, JobPlaces
<1>11. FilesSeenTo(a)
  BY <1>0, <1>m, <1>h, <1>f, Contents, <1>o DEF HandWrites, rowVars, history, Moves, Keeps,
     KeepsAim, Is, FilesSeenTo, Answers, TypeOK, ByHand, Uploading, JobPlaces
<1> QED
  BY <1>0, <1>m, <1>1, <1>2, <1>3, <1>4, <1>5, <1>6, <1>7, <1>7s, <1>8, <1>9, <1>10, <1>11,
     IsoStep, HalfStep, MissingStep, FilesStep DEF IInv

LEMMA HandCommitsKeeps ==
  ASSUME BootTreeAssumption, IInv, NEW a \in Actors, HandCommits(a)
  PROVE  IInv'
<1>0. TypeOK /\ Placed /\ LockHeld /\ NoRowNoEntry /\ IsoOnDisk /\ WrittenIsoStays
      /\ EntryInOwnDir /\ HandInOwnDir /\ ScanInOwnDir /\ HalfIsOwed /\ MissingIsOwed /\ FilesAreOwned
  BY DEF IInv
<1>h. act[a].ver \in Ids /\ act[a].dir \in Dirs /\ act[a].role \in Roles
  BY <1>0, AtWork DEF HandCommits, AtDirectory, ByHand, Placed, Is
<1>m. Moves(a, "ended") /\ act'[a].dir = NoDir
  BY <1>0, EndMoves, BootTreeAssumption DEF HandCommits
<1>o. \A v \in Ids, d \in Dirs : Owns(v, d) => Owns(v, d)'
  BY <1>m, OwnersStay DEF HandCommits
<1>1. TypeOK'
  BY <1>0, <1>m, <1>h, Contents, BootTreeAssumption DEF HandCommits, Moves, TypeOK
<1>2. Placed'
  BY <1>0, <1>m, <1>h DEF HandCommits, Moves, Is, Placed, TypeOK, ByHand, Uploading,
     AtDirectory, JobPlaces
<1>3. LockHeld'
  BY <1>0, <1>m, <1>h DEF HandCommits, Moves, Is, LockHeld, Exists, Free, TypeOK, Uploading
<1>4. NoRowNoEntry'
  BY <1>0, <1>m, <1>h, Contents DEF HandCommits, Moves, NoRowNoEntry, EntryOf, Exists, TypeOK
<1>5. WrittenIsoStays'
  BY <1>0, <1>m, <1>h DEF HandCommits, Moves, Is, WrittenIsoStays
<1>6. EntryInOwnDir'
  BY <1>0, <1>m, <1>h DEF HandCommits, Moves, EntryInOwnDir, Exists, TypeOK, HandInOwnDir, Is,
     ByHand
<1>7. HandInOwnDir'
  BY <1>0, <1>m, <1>h DEF HandCommits, Moves, Is, HandInOwnDir, ByHand
<1>7s. ScanInOwnDir'
  BY <1>0, <1>m, ScansStay
<1>8. IsoSeenTo(a)
  BY <1>0, <1>m, <1>h DEF HandCommits, Moves, Is, IsoSeenTo, TakesIso, Exists, NoRowNoEntry
<1>9. HalfSeenTo(a)
  BY <1>0, <1>m, <1>h, Contents DEF HandCommits, Moves, Is, HalfSeenTo, Writes, TypeOK,
     Uploading
<1>10. MissingSeenTo(a)
  BY <1>0, <1>m, <1>h, Contents DEF HandCommits, Moves, Is, MissingSeenTo, StaysUnmissed,
     Unpacks, Relies, Deletes, TypeOK, ByHand, JobPlaces
<1>11. FilesSeenTo(a)
  <2>1. PICK v \in Ids : v = act[a].ver
    BY <1>h
  <2>2. ASSUME NEW d \in Dirs, NEW r \in Roles, d \notin left', Answers(a, d, r)
        PROVE  Owns(v, d)'
    <3>1. d = act[a].dir /\ d \in {act[a].index[v], v}
      BY <2>1, <2>2 DEF Answers, HandCommits, Is, Uploading, JobPlaces
    <3>2. Deletions(d) = {} /\ d \in {rdir[v], v} /\ Exists(v) /\ rdir' = rdir
      BY <2>1, <2>2, <3>1 DEF HandCommits
    <3>3. ~Deleted(v, d)'
      BY <1>m, <3>2, NobodyDeletes
    <3> QED
      BY <3>2, <3>3 DEF Owns, Exists
  <2>3. files' = files /\ left \subseteq left'
    BY DEF HandCommits
  <2> QED
    BY <1>o, <2>2, <2>3 DEF FilesSeenTo
<1> QED
  BY <1>0, <1>m, <1>1, <1>2, <1>3, <1>4, <1>5, <1>6, <1>7, <1>7s, <1>8, <1>9, <1>10, <1>11,
     IsoStep, HalfStep, MissingStep, FilesStep DEF IInv

LEMMA HandFailsKeeps ==
  ASSUME BootTreeAssumption, IInv, NEW a \in Actors, HandFails(a)
  PROVE  IInv'
<1>0. TypeOK /\ Placed /\ LockHeld /\ NoRowNoEntry /\ IsoOnDisk /\ WrittenIsoStays
      /\ EntryInOwnDir /\ HandInOwnDir /\ ScanInOwnDir /\ HalfIsOwed /\ MissingIsOwed /\ FilesAreOwned
  BY DEF IInv
<1>h. act[a].ver \in Ids /\ act[a].dir \in Dirs
  BY <1>0, AtWork DEF HandFails, AtDirectory, Uploading, ByHand, JobPlaces
<1>m. Moves(a, "ended") /\ act'[a].dir = NoDir
  BY <1>0, EndMoves, BootTreeAssumption DEF HandFails
<1>o. \A v \in Ids, d \in Dirs : Owns(v, d) => Owns(v, d)'
  BY <1>m, OwnersStay DEF HandFails, rowVars
<1>1. TypeOK'
  BY <1>0, <1>m, <1>h, Contents, BootTreeAssumption DEF HandFails, rowVars, Moves, TypeOK
<1>2. Placed'
  BY <1>0, <1>m, <1>h DEF HandFails, rowVars, Moves, Is, Placed, TypeOK, ByHand, Uploading,
     AtDirectory, JobPlaces
<1>3. LockHeld'
  BY <1>0, <1>m, <1>h DEF HandFails, rowVars, Moves, Is, LockHeld, Exists, Free, TypeOK,
     Uploading
<1>4. NoRowNoEntry'
  BY <1>0, <1>m, <1>h, Contents DEF HandFails, rowVars, Moves, NoRowNoEntry, EntryOf, Exists,
     TypeOK
<1>5. WrittenIsoStays'
  BY <1>0, <1>m, <1>h DEF HandFails, rowVars, Moves, Is, WrittenIsoStays
<1>6. EntryInOwnDir'
  BY <1>0, <1>m, <1>h DEF HandFails, rowVars, Moves, EntryInOwnDir, Exists, TypeOK
<1>7. HandInOwnDir'
  BY <1>0, <1>m, <1>h DEF HandFails, rowVars, Moves, Is, HandInOwnDir, ByHand
<1>7s. ScanInOwnDir'
  BY <1>0, <1>m, ScansStay
<1>8. IsoSeenTo(a)
  BY <1>0, <1>m, <1>h DEF HandFails, rowVars, Moves, Is, IsoSeenTo, TakesIso, Exists,
     NoRowNoEntry
<1>9. HalfSeenTo(a)
  BY <1>0, <1>m, <1>h, Contents DEF HandFails, rowVars, Moves, Is, HalfSeenTo, Writes, TypeOK,
     Uploading
<1>10. MissingSeenTo(a)
  BY <1>0, <1>m, <1>h, Contents DEF HandFails, rowVars, Moves, Is, MissingSeenTo, StaysUnmissed,
     Unpacks, Relies, Deletes, TypeOK, ByHand, JobPlaces
<1>11. FilesSeenTo(a)
  BY <1>0, <1>m, <1>h, Contents, <1>o DEF HandFails, rowVars, Moves, Is, FilesSeenTo, Answers,
     TypeOK, ByHand, Uploading, JobPlaces
<1> QED
  BY <1>0, <1>m, <1>1, <1>2, <1>3, <1>4, <1>5, <1>6, <1>7, <1>7s, <1>8, <1>9, <1>10, <1>11,
     IsoStep, HalfStep, MissingStep, FilesStep DEF IInv

-----------------------------------------------------------------------------
(***************************************************************************)
(* Steps: Deletion                                                         *)
(***************************************************************************)
LEMMA DeleteFilesKeeps ==
  ASSUME BootTreeAssumption, IInv, NEW a \in Actors, NEW v \in Ids, DeleteFiles(a, v)
  PROVE  IInv'
<1>0. TypeOK /\ Placed /\ LockHeld /\ NoRowNoEntry /\ IsoOnDisk /\ WrittenIsoStays
      /\ EntryInOwnDir /\ HandInOwnDir /\ ScanInOwnDir /\ HalfIsOwed /\ MissingIsOwed /\ FilesAreOwned
  BY DEF IInv
<1>h. Exists(v) /\ rdir[v] \in Dirs
  BY <1>0, RowHasDir, BootTreeAssumption DEF DeleteFiles
<1>m. /\ Moves(a, "deleting")
      /\ act'[a].ver = v /\ act'[a].dir = rdir[v]
  BY <1>0, IdleIsTyped, BootTreeAssumption DEF DeleteFiles, Moves, TypeOK, ActState, Places, Idle, Dirs
<1>1. TypeOK'
  BY <1>0, <1>m, <1>h, Contents, BootTreeAssumption DEF DeleteFiles, rowVars, Moves, TypeOK,
     Empty, Cleaned
<1>2. Placed'
  BY <1>0, <1>m, <1>h DEF DeleteFiles, rowVars, Moves, Is, Placed, TypeOK, ByHand, Uploading,
     AtDirectory, JobPlaces
<1>3. LockHeld'
  BY <1>0, <1>m, <1>h DEF DeleteFiles, rowVars, Moves, Is, LockHeld, Exists, Free, TypeOK,
     Uploading
<1>4. NoRowNoEntry'
  BY <1>0, <1>m, <1>h, Contents DEF DeleteFiles, rowVars, Moves, NoRowNoEntry, EntryOf, Exists,
     TypeOK
<1>5. WrittenIsoStays'
  BY <1>0, <1>m, <1>h DEF DeleteFiles, rowVars, Moves, Is, WrittenIsoStays, LockHeld, Exists
<1>6. EntryInOwnDir'
  BY <1>0, <1>m, <1>h DEF DeleteFiles, rowVars, Moves, EntryInOwnDir, Exists, TypeOK
<1>7. HandInOwnDir'
  BY <1>0, <1>m, <1>h DEF DeleteFiles, rowVars, Moves, Is, HandInOwnDir, ByHand
<1>7s. ScanInOwnDir'
  BY <1>0, <1>m, ScansStay
<1>8. IsoSeenTo(a)
  BY <1>0, <1>m, <1>h DEF DeleteFiles, rowVars, Moves, Is, IsoSeenTo, TakesIso, Exists,
     NoRowNoEntry
<1>9. HalfSeenTo(a)
  BY <1>0, <1>m, <1>h, Contents DEF DeleteFiles, rowVars, Moves, Is, HalfSeenTo, Writes, TypeOK,
     Uploading, Empty
<1>10. MissingSeenTo(a)
  <2> SUFFICES ASSUME NEW d \in Dirs, NEW r \in Roles, files'[d][r] = Missing, d \notin hurt'
               PROVE  \/ /\ files[d][r] = Missing /\ d \notin hurt /\ ~Unpacks(a, d)
                         /\ StaysUnmissed(a, d, r)
                      \/ NotMissed(d, r)'
    BY DEF MissingSeenTo
  <2>1. CASE d \in Cleaned(v)
    <3>1. InUse(d) \subseteq {v} /\ In(d) = {} /\ Seen(d) = {} /\ d \in {rdir[v], v}
      BY <2>1 DEF DeleteFiles, Cleaned
    <3>2. ASSUME NEW b \in Actors PROVE ~Relies(b, d, r)'
      <4>1. CASE b = a
        BY <1>m, <4>1 DEF Relies, Is, Moves, ByHand
      <4>2. CASE b # a
        BY <1>m, <3>1, <4>2, OthersStay, ReliedOn
      <4> QED
        BY <4>1, <4>2
    <3>3. ASSUME NEW w \in Ids, entry'[w][r] = d PROVE Deletes(a, w, d)'
      <4>1. w = v
        BY <1>0, <3>1, <3>3, EntryIsUse, BootTreeAssumption DEF DeleteFiles, rowVars
      <4> QED
        BY <1>m, <3>1, <4>1 DEF Deletes, Is, Moves
    <3> QED
      BY <3>2, <3>3 DEF NotMissed, Deleted
  <2>2. CASE d \notin Cleaned(v)
    <3>1. files[d][r] = Missing /\ d \notin hurt
      BY <2>2 DEF DeleteFiles
    <3>2. ~Unpacks(a, d) /\ StaysUnmissed(a, d, r)
      BY <1>m DEF DeleteFiles, rowVars, Unpacks, StaysUnmissed, Relies, Deletes, Is, JobPlaces, ByHand,
         Moves
    <3> QED
      BY <3>1, <3>2
  <2> QED
    BY <2>1, <2>2
<1>11. FilesSeenTo(a)
  <2> SUFFICES ASSUME NEW d \in Dirs, NEW r \in Roles, files'[d][r] # Missing, d \notin left'
               PROVE  /\ files[d][r] # Missing /\ d \notin left /\ ~Answers(a, d, r)
                      /\ \A w \in Ids : Owns(w, d) => Owns(w, d)'
    BY DEF FilesSeenTo
  <2>1. d \notin Cleaned(v) /\ files[d][r] # Missing /\ d \notin left
    BY DEF DeleteFiles, Empty
  <2>2. ~Answers(a, d, r)
    BY DEF DeleteFiles, Answers, Is, JobPlaces, Uploading, ByHand
  <2>3. ASSUME NEW w \in Ids, Owns(w, d) PROVE Owns(w, d)'
    <3>1. w # v
      BY <2>1, <2>3 DEF Owns, Cleaned
    <3>2. ~Deletes(a, w, d)' /\ rdir'[w] = rdir[w]
      BY <1>m, <3>1 DEF Deletes, DeleteFiles, rowVars
    <3> QED
      BY <1>m, <2>3, <3>2, OwnerStays
  <2> QED
    BY <2>1, <2>2, <2>3
<1> QED
  BY <1>0, <1>m, <1>1, <1>2, <1>3, <1>4, <1>5, <1>6, <1>7, <1>7s, <1>8, <1>9, <1>10, <1>11,
     IsoStep, HalfStep, MissingStep, FilesStep DEF IInv

LEMMA DeleteRowKeeps ==
  ASSUME BootTreeAssumption, IInv, NEW a \in Actors, DeleteRow(a)
  PROVE  IInv'
<1>0. TypeOK /\ Placed /\ LockHeld /\ NoRowNoEntry /\ IsoOnDisk /\ WrittenIsoStays
      /\ EntryInOwnDir /\ HandInOwnDir /\ ScanInOwnDir /\ HalfIsOwed /\ MissingIsOwed /\ FilesAreOwned
  BY DEF IInv
<1>h. act[a].ver \in Ids /\ act[a].dir \in Dirs /\ rdir[act[a].ver] \in Dirs
  BY <1>0, AtWork, RowHasDir, BootTreeAssumption DEF DeleteRow, AtDirectory
<1>m. Moves(a, "ended") /\ act'[a].dir = NoDir
  BY <1>0, EndMoves, BootTreeAssumption DEF DeleteRow
<1>1. TypeOK'
  BY <1>0, <1>m, <1>h, Contents, BootTreeAssumption DEF DeleteRow, Moves, TypeOK, EntryOf
<1>2. Placed'
  BY <1>0, <1>m, <1>h DEF DeleteRow, Moves, Is, Placed, TypeOK, ByHand, Uploading, AtDirectory,
     JobPlaces
<1>3. LockHeld'
  BY <1>0, <1>m, <1>h DEF DeleteRow, Moves, Is, LockHeld, Exists, Free, TypeOK, Uploading
<1>4. NoRowNoEntry'
  BY <1>0, <1>m, <1>h, Contents DEF DeleteRow, Moves, NoRowNoEntry, EntryOf, Exists, TypeOK
<1>5. WrittenIsoStays'
  BY <1>0, <1>m, <1>h DEF DeleteRow, Moves, Is, WrittenIsoStays
<1>6. EntryInOwnDir'
  BY <1>0, <1>m, <1>h DEF DeleteRow, Moves, EntryInOwnDir, Exists, TypeOK
<1>7. HandInOwnDir'
  BY <1>0, <1>m, <1>h DEF DeleteRow, Moves, Is, HandInOwnDir, ByHand
<1>7s. ScanInOwnDir'
  BY <1>0, <1>m, ScansStay
<1>8. IsoSeenTo(a)
  BY <1>0, <1>m, <1>h DEF DeleteRow, Moves, Is, IsoSeenTo, TakesIso, Exists, NoRowNoEntry
<1>9. HalfSeenTo(a)
  BY <1>0, <1>m, <1>h, Contents DEF DeleteRow, Moves, Is, HalfSeenTo, Writes, TypeOK, Uploading
<1>10. MissingSeenTo(a)
  <2> SUFFICES ASSUME NEW d \in Dirs, NEW r \in Roles, files'[d][r] = Missing, d \notin hurt'
               PROVE  /\ files[d][r] = Missing /\ d \notin hurt /\ ~Unpacks(a, d)
                      /\ StaysUnmissed(a, d, r)
    BY DEF MissingSeenTo
  <2>1. files[d][r] = Missing /\ d \notin hurt /\ ~Unpacks(a, d) /\ ~Relies(a, d, r)'
    BY <1>m DEF DeleteRow, Unpacks, Relies, Is, JobPlaces, ByHand, Moves
  <2>2. ASSUME NEW w \in Ids, entry'[w][r] = d PROVE entry[w][r] = d /\ ~Deletes(a, w, d)
    <3>1. w # act[a].ver
      BY <1>0, <1>h, <2>2, Contents, BootTreeAssumption DEF DeleteRow, EntryOf, TypeOK
    <3> QED
      BY <1>0, <2>2, <3>1 DEF DeleteRow, TypeOK, Deletes
  <2> QED
    BY <2>1, <2>2 DEF StaysUnmissed
<1>11. FilesSeenTo(a)
  <2> SUFFICES ASSUME NEW d \in Dirs, NEW r \in Roles, files'[d][r] # Missing, d \notin left'
               PROVE  /\ files[d][r] # Missing /\ d \notin left /\ ~Answers(a, d, r)
                      /\ \A w \in Ids : Owns(w, d) => Owns(w, d)'
    BY DEF FilesSeenTo
  <2>1. files[d][r] # Missing /\ d \notin left /\ ~Answers(a, d, r)
    BY DEF DeleteRow, Answers, Is, JobPlaces, Uploading, ByHand
  <2>2. ASSUME NEW w \in Ids, Owns(w, d) PROVE Owns(w, d)'
    <3>1. CASE w = act[a].ver
      <4>1. d \in {rdir[w], w} /\ d \notin {act[a].dir, w}
        BY <2>2, <3>1 DEF Owns, Deleted, Deletes, DeleteRow, Is
      <4> QED
        BY <3>1, <4>1 DEF DeleteRow
    <3>2. CASE w # act[a].ver
      <4>1. rdir'[w] = rdir[w] /\ ~Deletes(a, w, d)'
        BY <1>0, <1>m, <3>2 DEF DeleteRow, TypeOK, Deletes, Is, Moves
      <4> QED
        BY <1>m, <2>2, <4>1, OwnerStays
    <3> QED
      BY <3>1, <3>2
  <2> QED
    BY <2>1, <2>2
<1> QED
  BY <1>0, <1>m, <1>1, <1>2, <1>3, <1>4, <1>5, <1>6, <1>7, <1>7s, <1>8, <1>9, <1>10, <1>11,
     IsoStep, HalfStep, MissingStep, FilesStep DEF IInv

LEMMA DeleteFailsKeeps ==
  ASSUME BootTreeAssumption, IInv, NEW a \in Actors, DeleteFails(a)
  PROVE  IInv'
<1>0. TypeOK /\ Placed /\ LockHeld /\ NoRowNoEntry /\ IsoOnDisk /\ WrittenIsoStays
      /\ EntryInOwnDir /\ HandInOwnDir /\ ScanInOwnDir /\ HalfIsOwed /\ MissingIsOwed /\ FilesAreOwned
  BY DEF IInv
<1>h. act[a].ver \in Ids /\ act[a].dir \in Dirs
  BY <1>0, AtWork DEF DeleteFails, AtDirectory, Uploading, ByHand, JobPlaces
<1>m. Moves(a, "ended") /\ act'[a].dir = NoDir
  BY <1>0, EndMoves, BootTreeAssumption DEF DeleteFails
<1>o. \A v \in Ids, d \in Dirs : Owns(v, d) => Owns(v, d)'
  BY <1>m, OwnersStay DEF DeleteFails, rowVars
<1>1. TypeOK'
  BY <1>0, <1>m, <1>h, Contents, BootTreeAssumption DEF DeleteFails, rowVars, history, Moves,
     TypeOK
<1>2. Placed'
  BY <1>0, <1>m, <1>h DEF DeleteFails, rowVars, history, Moves, Is, Placed, TypeOK, ByHand,
     Uploading, AtDirectory, JobPlaces
<1>3. LockHeld'
  BY <1>0, <1>m, <1>h DEF DeleteFails, rowVars, history, Moves, Is, LockHeld, Exists, Free,
     TypeOK, Uploading
<1>4. NoRowNoEntry'
  BY <1>0, <1>m, <1>h, Contents DEF DeleteFails, rowVars, history, Moves, NoRowNoEntry, EntryOf,
     Exists, TypeOK
<1>5. WrittenIsoStays'
  BY <1>0, <1>m, <1>h DEF DeleteFails, rowVars, history, Moves, Is, WrittenIsoStays
<1>6. EntryInOwnDir'
  BY <1>0, <1>m, <1>h DEF DeleteFails, rowVars, history, Moves, EntryInOwnDir, Exists, TypeOK
<1>7. HandInOwnDir'
  BY <1>0, <1>m, <1>h DEF DeleteFails, rowVars, history, Moves, Is, HandInOwnDir, ByHand
<1>7s. ScanInOwnDir'
  BY <1>0, <1>m, ScansStay
<1>8. IsoSeenTo(a)
  BY <1>0, <1>m, <1>h DEF DeleteFails, rowVars, history, Moves, Is, IsoSeenTo, TakesIso, Exists,
     NoRowNoEntry
<1>9. HalfSeenTo(a)
  BY <1>0, <1>m, <1>h, Contents DEF DeleteFails, rowVars, history, Moves, Is, HalfSeenTo,
     Writes, TypeOK, Uploading
<1>10. MissingSeenTo(a)
  BY <1>0, <1>m, <1>h, Contents DEF DeleteFails, rowVars, history, Moves, Is, MissingSeenTo,
     StaysUnmissed, Unpacks, Relies, Deletes, TypeOK, ByHand, JobPlaces
<1>11. FilesSeenTo(a)
  BY <1>0, <1>m, <1>h, Contents, <1>o DEF DeleteFails, rowVars, history, Moves, Is, FilesSeenTo,
     Answers, TypeOK, ByHand, Uploading, JobPlaces
<1> QED
  BY <1>0, <1>m, <1>1, <1>2, <1>3, <1>4, <1>5, <1>6, <1>7, <1>7s, <1>8, <1>9, <1>10, <1>11,
     IsoStep, HalfStep, MissingStep, FilesStep DEF IInv

-----------------------------------------------------------------------------
(***************************************************************************)
(* Steps: Scans                                                            *)
(***************************************************************************)
LEMMA ScanReadsKeeps ==
  ASSUME BootTreeAssumption, IInv, NEW a \in Actors, ScanReads(a)
  PROVE  IInv'
<1>0. TypeOK /\ Placed /\ LockHeld /\ NoRowNoEntry /\ IsoOnDisk /\ WrittenIsoStays
      /\ EntryInOwnDir /\ HandInOwnDir /\ ScanInOwnDir /\ HalfIsOwed /\ MissingIsOwed /\ FilesAreOwned
  BY DEF IInv
<1>m. Moves(a, "scanning") /\ act'[a].dir = NoDir /\ act'[a].memory = <<>>
  <2>1. PICK b \in BOOLEAN :
          act' = [act EXCEPT ![a] = [Idle EXCEPT !.pc = "scanning", !.index = rdir, !.windows = b,
                                                 !.ready = {v \in Ids : status[v] = "ready"},
                                                 !.todo = {d \in Labels : ScanOwner(rdir, d) # {}}]]
    BY DEF ScanReads
  <2> QED
    BY <1>0, <2>1, IdleIsTyped DEF Moves, TypeOK, ActState, Places, Idle, Dirs
<1>k. \A v, r : ~Records(a, v, r)'
  BY <1>m DEF Records, HasRead
<1>o. \A v \in Ids, d \in Dirs : Owns(v, d) => Owns(v, d)'
  BY <1>m, OwnersStay DEF ScanReads, rowVars
<1>1. TypeOK'
  BY <1>0, <1>m, Contents, BootTreeAssumption DEF ScanReads, rowVars, history, Moves, TypeOK
<1>2. Placed'
  BY <1>0, <1>m DEF ScanReads, rowVars, history, Moves, Is, Placed, TypeOK, ByHand, Uploading,
     AtDirectory, JobPlaces
<1>3. LockHeld'
  BY <1>0, <1>m DEF ScanReads, rowVars, history, Moves, Is, LockHeld, Exists, Free, TypeOK,
     Uploading
<1>4. NoRowNoEntry'
  BY <1>0, <1>m, Contents DEF ScanReads, rowVars, history, Moves, NoRowNoEntry, EntryOf, Exists,
     TypeOK
<1>5. WrittenIsoStays'
  BY <1>0, <1>m DEF ScanReads, rowVars, history, Moves, Is, WrittenIsoStays
<1>6. EntryInOwnDir'
  BY <1>0, <1>m DEF ScanReads, rowVars, history, Moves, EntryInOwnDir, Exists, TypeOK
<1>7. HandInOwnDir'
  BY <1>0, <1>m DEF ScanReads, rowVars, history, Moves, Is, HandInOwnDir, ByHand
<1>7s. ScanInOwnDir'
  BY <1>0, <1>m, <1>k, OtherScansStay
<1>8. IsoSeenTo(a)
  BY <1>0, <1>m DEF ScanReads, rowVars, history, Moves, Is, IsoSeenTo, TakesIso, Exists,
     NoRowNoEntry
<1>9. HalfSeenTo(a)
  BY <1>0, <1>m, Contents DEF ScanReads, rowVars, history, Moves, Is, HalfSeenTo, Writes,
     TypeOK, Uploading
<1>10. MissingSeenTo(a)
  BY <1>0, <1>m, <1>k, Contents DEF ScanReads, rowVars, history, Moves, Is, MissingSeenTo,
     StaysUnmissed, Unpacks, Relies, Holds, Deletes, TypeOK, ByHand, JobPlaces
<1>11. FilesSeenTo(a)
  BY <1>0, <1>m, Contents, <1>o DEF ScanReads, rowVars, history, Moves, Is, FilesSeenTo,
     Answers, TypeOK, ByHand, Uploading, JobPlaces
<1> QED
  BY <1>0, <1>m, <1>1, <1>2, <1>3, <1>4, <1>5, <1>6, <1>7, <1>7s, <1>8, <1>9, <1>10, <1>11,
     IsoStep, HalfStep, MissingStep, FilesStep DEF IInv

\* What a visit leaves in memory: a path that is not as it was read is either the
\* directory visited, with its file, or was so before.
LEMMA VisitRemembers ==
  ASSUME BootTreeAssumption, TypeOK, NEW a \in Actors, NEW w \in Ids, NEW e \in Dirs
  PROVE  /\ Remembered(a, w, e) \in Memories
         /\ \A v \in DOMAIN Remembered(a, w, e), r \in Roles :
              LET m == Remembered(a, w, e)[v]
              IN m.paths[r] # m.read[r] =>
                   \/ v = w /\ m.paths[r] = e /\ files[e][r] # Missing
                   \/ Records(a, v, r) /\ m.paths[r] = act[a].memory[v].paths[r]
<1> DEFINE Known1 == [read : Paths, paths : Paths, changed : BOOLEAN]
           memory == act[a].memory
           new    == Remembered(a, w, e)
<1>1. PICK S \in SUBSET Ids : memory \in [S -> Known1]
  <2>1. memory \in Memories
    BY DEF TypeOK, ActState
  <2> QED
    BY <2>1, MemoryIsTyped
<1>2. DOMAIN memory = S /\ \A v \in S : memory[v] \in Known1
  BY <1>1
<1>3. /\ DOMAIN new = S \cup {w}
      /\ new[w] = Updated(a, w, e) /\ \A v \in S \ {w} : new[v] = memory[v]
      /\ new = [v \in S \cup {w} |-> IF v = w THEN Updated(a, w, e) ELSE memory[v]]
  BY <1>2 DEF Remembered
<1>4. Known(a, w) \in Known1
  <2>1. entry[w] \in Paths
    BY DEF TypeOK, Paths
  <2> QED
    BY <1>2, <2>1 DEF Known, HasRead
<1>5. PathsWith(a, w, e) \in Paths
  BY <1>4 DEF PathsWith, Paths
<1>6. (Known(a, w).changed \/ PathsWith(a, w, e) # Known(a, w).paths) \in BOOLEAN
  BY Zenon
<1>7. Updated(a, w, e) \in Known1
  BY <1>4, <1>5, <1>6 DEF Updated
<1>8. new \in Memories
  <2>1. new \in [S \cup {w} -> Known1]
    <3> HIDE DEF Known1
    <3> QED
      BY <1>2, <1>3, <1>7
  <2> QED
    BY <2>1, MemoryIsTyped
<1>9. ASSUME NEW v \in DOMAIN new, NEW r \in Roles, new[v].paths[r] # new[v].read[r]
      PROVE  \/ v = w /\ new[v].paths[r] = e /\ files[e][r] # Missing
             \/ Records(a, v, r) /\ new[v].paths[r] = memory[v].paths[r]
  <2>1. CASE v # w
    BY <1>2, <1>3, <1>9, <2>1 DEF Records, HasRead
  <2>2. CASE v = w
    <3>1. /\ new[v].paths[r] = PathsWith(a, w, e)[r]
          /\ new[v].read = Known(a, w).read
      BY <1>3, <2>2 DEF Updated
    <3>2. \/ PathsWith(a, w, e)[r] = e /\ files[e][r] # Missing
          \/ PathsWith(a, w, e)[r] = Known(a, w).paths[r]
      BY DEF PathsWith
    <3>3. CASE PathsWith(a, w, e)[r] = Known(a, w).paths[r]
      <4>1. Known(a, w).paths[r] # Known(a, w).read[r]
        BY <1>9, <3>1, <3>3
      <4>2. HasRead(a, w) /\ Known(a, w) = memory[w]
        BY <4>1 DEF Known
      <4> QED
        BY <2>2, <3>1, <3>3, <4>1, <4>2 DEF Records
    <3> QED
      BY <2>2, <3>1, <3>2, <3>3
  <2> QED
    BY <2>1, <2>2
<1> QED
  BY <1>8, <1>9

LEMMA VisitMoves ==
  ASSUME TypeOK, NEW a \in Actors, NEW e, NEW m \in Memories, NEW b \in BOOLEAN,
         act[a].pc = "scanning",
         act' = [act EXCEPT ![a].todo = @ \ {e}, ![a].memory = m, ![a].windows = b]
  PROVE  /\ Moves(a, "scanning") /\ act'[a].dir = act[a].dir /\ act'[a].index = act[a].index
         /\ act'[a].ver = act[a].ver /\ act'[a].memory = m
<1>1. act[a] \in ActState
  BY DEF TypeOK
<1>2. act' = [act EXCEPT ![a] = [act[a] EXCEPT !.todo = act[a].todo \ {e}, !.memory = m, !.windows = b]]
  BY DEF TypeOK
<1>3. [act[a] EXCEPT !.todo = act[a].todo \ {e}, !.memory = m, !.windows = b] \in ActState
  BY <1>1 DEF ActState
<1> QED
  BY <1>1, <1>2, <1>3 DEF Moves, TypeOK, ActState

LEMMA ScanVisitsKeeps ==
  ASSUME BootTreeAssumption, IInv, NEW a \in Actors, NEW e \in Dirs, ScanVisits(a, e)
  PROVE  IInv'
<1>0. TypeOK /\ Placed /\ LockHeld /\ NoRowNoEntry /\ IsoOnDisk /\ WrittenIsoStays
      /\ EntryInOwnDir /\ HandInOwnDir /\ ScanInOwnDir /\ HalfIsOwed /\ MissingIsOwed /\ FilesAreOwned
  BY DEF IInv
<1>w. PICK w \in ScanOwner(act[a].index, e), b \in BOOLEAN :
        act' = [act EXCEPT ![a].todo = @ \ {e}, ![a].memory = Remembered(a, w, e),
                           ![a].windows = b]
  <2>1. (act[a].windows /\ act[a].todo # {e}) \in BOOLEAN
    BY Zenon
  <2>2. \E w \in ScanOwner(act[a].index, e) :
          act' = [act EXCEPT ![a].todo = @ \ {e}, ![a].memory = Remembered(a, w, e),
                             ![a].windows = act[a].windows /\ act[a].todo # {e}]
    BY <1>0 DEF ScanVisits, TypeOK
  <2> QED
    BY <2>1, <2>2
<1>g. act[a].pc = "scanning" /\ UNCHANGED <<rowVars, iso, files, lock, history>>
  BY DEF ScanVisits
<1>h. w \in Ids /\ e \in {act[a].index[w], w}
  BY DEF ScanOwner
<1>n. /\ Remembered(a, w, e) \in Memories
      /\ \A v \in DOMAIN Remembered(a, w, e), r \in Roles :
           LET m == Remembered(a, w, e)[v]
           IN m.paths[r] # m.read[r] =>
                \/ v = w /\ m.paths[r] = e /\ files[e][r] # Missing
                \/ Records(a, v, r) /\ m.paths[r] = act[a].memory[v].paths[r]
  BY <1>0, <1>h, VisitRemembers, BootTreeAssumption
<1>m. /\ Moves(a, "scanning") /\ act'[a].dir = act[a].dir /\ act'[a].index = act[a].index
      /\ act'[a].ver = act[a].ver /\ act'[a].memory = Remembered(a, w, e)
  <2> DEFINE new == Remembered(a, w, e)
  <2>1. new \in Memories /\ act[a].pc = "scanning"
        /\ act' = [act EXCEPT ![a].todo = @ \ {e}, ![a].memory = new, ![a].windows = b]
    BY <1>w, <1>g, <1>n
  <2> HIDE DEF new
  <2>2. /\ Moves(a, "scanning") /\ act'[a].dir = act[a].dir /\ act'[a].index = act[a].index
        /\ act'[a].ver = act[a].ver /\ act'[a].memory = new
    BY <1>0, <2>1, VisitMoves
  <2> QED
    BY <2>2 DEF new
<1>r. \A v \in Ids, r \in Roles : Records(a, v, r)' =>
        \/ v = w /\ act'[a].memory[v].paths[r] = e /\ files[e][r] # Missing
        \/ Records(a, v, r) /\ act'[a].memory[v].paths[r] = act[a].memory[v].paths[r]
  <2> SUFFICES ASSUME NEW v \in Ids, NEW r \in Roles, Records(a, v, r)'
               PROVE  \/ v = w /\ act'[a].memory[v].paths[r] = e /\ files[e][r] # Missing
                      \/ Records(a, v, r) /\ act'[a].memory[v].paths[r] = act[a].memory[v].paths[r]
    OBVIOUS
  <2>1. /\ v \in DOMAIN Remembered(a, w, e)
        /\ Remembered(a, w, e)[v].paths[r] # Remembered(a, w, e)[v].read[r]
    BY <1>m DEF Records, HasRead
  <2>2. \/ v = w /\ Remembered(a, w, e)[v].paths[r] = e /\ files[e][r] # Missing
        \/ Records(a, v, r) /\ Remembered(a, w, e)[v].paths[r] = act[a].memory[v].paths[r]
    BY <1>n, <2>1
  <2> QED
    BY <1>m, <2>2
<1>o. \A v \in Ids, d \in Dirs : Owns(v, d) => Owns(v, d)'
  BY <1>m, <1>g, OwnersStay DEF rowVars
<1>1. TypeOK'
  BY <1>0, <1>m, <1>g, Contents, BootTreeAssumption DEF rowVars, history, Moves, TypeOK
<1>2. Placed'
  BY <1>0, <1>m, <1>g DEF rowVars, history, Moves, Is, Placed, TypeOK, ByHand, Uploading,
     AtDirectory, JobPlaces
<1>3. LockHeld'
  BY <1>0, <1>m, <1>g DEF rowVars, history, Moves, Is, LockHeld, Exists, Free, TypeOK,
     Uploading
<1>4. NoRowNoEntry'
  BY <1>0, <1>m, <1>g, Contents DEF rowVars, history, Moves, NoRowNoEntry, EntryOf, Exists,
     TypeOK
<1>5. WrittenIsoStays'
  BY <1>0, <1>m, <1>g DEF rowVars, history, Moves, Is, WrittenIsoStays
<1>6. EntryInOwnDir'
  BY <1>0, <1>m, <1>g DEF rowVars, history, Moves, EntryInOwnDir, Exists, TypeOK
<1>7. HandInOwnDir'
  BY <1>0, <1>m, <1>g DEF rowVars, history, Moves, Is, HandInOwnDir, ByHand
<1>7s. ScanInOwnDir'
  <2>1. \A v \in Ids, r \in Roles :
          Records(a, v, r) => act[a].memory[v].paths[r] \in {act[a].index[v], v}
    BY <1>0, <1>g DEF ScanInOwnDir, Is
  <2>2. \A v \in Ids, r \in Roles :
          Records(a, v, r)' => act'[a].memory[v].paths[r] \in {act'[a].index[v], v}
    BY <1>m, <1>h, <1>r, <2>1
  <2> QED
    BY <1>0, <1>m, <2>2, OtherScansStay
<1>8. IsoSeenTo(a)
  BY <1>0, <1>m, <1>g DEF rowVars, history, Moves, Is, IsoSeenTo, TakesIso, Exists,
     NoRowNoEntry
<1>9. HalfSeenTo(a)
  BY <1>0, <1>m, <1>g, Contents DEF rowVars, history, Moves, Is, HalfSeenTo, Writes,
     TypeOK, Uploading
<1>10. MissingSeenTo(a)
  <2> SUFFICES ASSUME NEW d \in Dirs, NEW r \in Roles, files'[d][r] = Missing, d \notin hurt'
               PROVE  /\ files[d][r] = Missing /\ d \notin hurt /\ ~Unpacks(a, d)
                      /\ StaysUnmissed(a, d, r)
    BY DEF MissingSeenTo
  <2>1. files[d][r] = Missing /\ d \notin hurt /\ UNCHANGED entry
    BY <1>g DEF rowVars, history
  <2>2. ~Unpacks(a, d) /\ \A v \in Ids : ~Deletes(a, v, d)
    BY <1>g DEF Unpacks, Deletes, Is, JobPlaces
  <2>3. ASSUME Holds(a, d, r)' PROVE Holds(a, d, r)
    BY <1>r, <2>1, <2>3 DEF Holds
  <2>4. Relies(a, d, r)' => Relies(a, d, r)
    BY <1>m, <1>g, <2>3 DEF Relies, Is, ByHand, Moves
  <2> QED
    BY <2>1, <2>2, <2>4 DEF StaysUnmissed
<1>11. FilesSeenTo(a)
  BY <1>0, <1>m, <1>g, Contents, <1>o DEF rowVars, history, Moves, Is, FilesSeenTo,
     Answers, TypeOK, ByHand, Uploading, JobPlaces
<1> QED
  BY <1>0, <1>m, <1>g, <1>1, <1>2, <1>3, <1>4, <1>5, <1>6, <1>7, <1>7s, <1>8, <1>9, <1>10, <1>11,
     IsoStep, HalfStep, MissingStep, FilesStep DEF IInv

LEMMA ScanCommitsKeeps ==
  ASSUME BootTreeAssumption, IInv, NEW a \in Actors, ScanCommits(a)
  PROVE  IInv'
<1>0. TypeOK /\ Placed /\ LockHeld /\ NoRowNoEntry /\ IsoOnDisk /\ WrittenIsoStays
      /\ EntryInOwnDir /\ HandInOwnDir /\ ScanInOwnDir /\ HalfIsOwed /\ MissingIsOwed /\ FilesAreOwned
  BY DEF IInv
<1>m. Moves(a, "ended") /\ act'[a].dir = NoDir
  BY <1>0, EndMoves, BootTreeAssumption DEF ScanCommits
<1>o. \A v \in Ids, d \in Dirs : Owns(v, d) => Owns(v, d)'
  BY <1>m, OwnersStay DEF ScanCommits
<1>p. \A v \in Ids, r \in Roles : Records(a, v, r) =>
        /\ act[a].memory[v].paths[r] \in Dirs \cup {NoDir}
        /\ act[a].memory[v].paths[r] \in {act[a].index[v], v}
        /\ v \in Written(a)
  <2>1. PICK S \in SUBSET Ids : act[a].memory \in [S -> [read : Paths, paths : Paths, changed : BOOLEAN]]
    <3>1. act[a].memory \in Memories
      BY <1>0 DEF TypeOK, ActState
    <3> QED
      BY <3>1, MemoryIsTyped
  <2>2. \A v \in Ids, r \in Roles : Records(a, v, r) =>
          act[a].memory[v].paths[r] \in Dirs \cup {NoDir}
    BY <2>1 DEF Records, HasRead, Paths
  <2> QED
    BY <1>0, <2>2 DEF ScanCommits, ScanInOwnDir, Is, Written
<1>e. \A v \in Ids, r \in Roles :
        entry'[v][r] = IF Records(a, v, r) THEN act[a].memory[v].paths[r] ELSE entry[v][r]
  BY DEF ScanCommits
<1>1. TypeOK'
  <2>1. entry' \in [Ids -> [Roles -> Dirs \cup {NoDir}]]
    BY <1>0, <1>p DEF ScanCommits, TypeOK
  <2>2. status' \in [Ids -> {"absent", "uploaded", "ready", "extracting", "error"}]
    BY <1>0 DEF ScanCommits, TypeOK
  <2> QED
    BY <1>0, <1>m, <2>1, <2>2 DEF ScanCommits, Moves, TypeOK, Written, Readied
<1>2. Placed'
  BY <1>0, <1>m DEF ScanCommits, Moves, Is, Placed, TypeOK, ByHand, Uploading, AtDirectory,
     JobPlaces
<1>3. LockHeld'
  BY <1>0, <1>m DEF ScanCommits, Moves, Is, LockHeld, Exists, Free, TypeOK, Uploading
<1>4. NoRowNoEntry'
  <2> SUFFICES ASSUME NEW v \in Ids, ~Exists(v)'
               PROVE  v \notin hasIso' /\ entry'[v] = EntryOf(NoDir)
    BY DEF NoRowNoEntry
  <2>1. ~Exists(v) /\ \A r \in Roles : ~Records(a, v, r)
    BY DEF ScanCommits, Exists, Written
  <2>2. v \notin hasIso' /\ entry[v] = EntryOf(NoDir)
    BY <1>0, <2>1 DEF ScanCommits, NoRowNoEntry
  <2> QED
    BY <2>1, <2>2 DEF ScanCommits, EntryOf
<1>5. WrittenIsoStays'
  BY <1>0, <1>m DEF ScanCommits, Moves, Is, WrittenIsoStays
<1>6. EntryInOwnDir'
  <2> SUFFICES ASSUME NEW v \in Ids, Exists(v)', v \notin outlived', NEW r \in Roles
               PROVE  entry'[v][r] \in {NoDir, rdir'[v], v}
    BY DEF EntryInOwnDir
  <2>1. v \notin outlived /\ rdir'[v] = rdir[v]
    BY DEF ScanCommits
  <2>2. CASE Records(a, v, r)
    <3>1. rdir[v] = act[a].index[v]
      BY <1>p, <2>2 DEF ScanCommits
    <3> QED
      BY <1>e, <1>p, <2>1, <2>2, <3>1
  <2>3. CASE ~Records(a, v, r)
    BY <1>0, <1>e, <2>1, <2>3 DEF ScanCommits, EntryInOwnDir, Exists
  <2> QED
    BY <2>2, <2>3
<1>7. HandInOwnDir'
  BY <1>0, <1>m DEF ScanCommits, Moves, Is, HandInOwnDir, ByHand
<1>7s. ScanInOwnDir'
  BY <1>0, <1>m, ScansStay
<1>8. IsoSeenTo(a)
  BY <1>0, <1>m DEF ScanCommits, Moves, Is, IsoSeenTo, TakesIso, Exists, NoRowNoEntry
<1>9. HalfSeenTo(a)
  BY <1>0, <1>m, Contents DEF ScanCommits, Moves, Is, HalfSeenTo, Writes, TypeOK, Uploading
<1>10. MissingSeenTo(a)
  <2> SUFFICES ASSUME NEW d \in Dirs, NEW r \in Roles, files'[d][r] = Missing, d \notin hurt'
               PROVE  /\ files[d][r] = Missing /\ d \notin hurt /\ ~Unpacks(a, d)
                      /\ StaysUnmissed(a, d, r)
    BY DEF MissingSeenTo
  <2>1. /\ files[d][r] = Missing /\ d \notin hurt /\ ~Unpacks(a, d) /\ ~Relies(a, d, r)'
        /\ \A v \in Ids : ~Deletes(a, v, d)
    BY <1>m DEF ScanCommits, Unpacks, Relies, Deletes, Is, JobPlaces, ByHand, Moves
  <2>2. ASSUME NEW v \in Ids, entry'[v][r] = d PROVE entry[v][r] = d \/ Relies(a, d, r)
    BY <1>e, <2>2 DEF ScanCommits, Relies, Holds, Is
  <2> QED
    BY <2>1, <2>2 DEF StaysUnmissed
<1>11. FilesSeenTo(a)
  BY <1>0, <1>m, Contents, <1>o DEF ScanCommits, Moves, Is, FilesSeenTo, Answers, TypeOK,
     ByHand, Uploading, JobPlaces
<1> QED
  BY <1>0, <1>m, <1>1, <1>2, <1>3, <1>4, <1>5, <1>6, <1>7, <1>7s, <1>8, <1>9, <1>10, <1>11,
     IsoStep, HalfStep, MissingStep, FilesStep DEF IInv

LEMMA ScanFailsKeeps ==
  ASSUME BootTreeAssumption, IInv, NEW a \in Actors, ScanFails(a)
  PROVE  IInv'
<1>0. TypeOK /\ Placed /\ LockHeld /\ NoRowNoEntry /\ IsoOnDisk /\ WrittenIsoStays
      /\ EntryInOwnDir /\ HandInOwnDir /\ ScanInOwnDir /\ HalfIsOwed /\ MissingIsOwed /\ FilesAreOwned
  BY DEF IInv
<1>m. Moves(a, "ended") /\ act'[a].dir = NoDir
  BY <1>0, EndMoves, BootTreeAssumption DEF ScanFails
<1>o. \A v \in Ids, d \in Dirs : Owns(v, d) => Owns(v, d)'
  BY <1>m, OwnersStay DEF ScanFails, rowVars
<1>1. TypeOK'
  BY <1>0, <1>m, Contents, BootTreeAssumption DEF ScanFails, rowVars, history, Moves, TypeOK
<1>2. Placed'
  BY <1>0, <1>m DEF ScanFails, rowVars, history, Moves, Is, Placed, TypeOK, ByHand, Uploading,
     AtDirectory, JobPlaces
<1>3. LockHeld'
  BY <1>0, <1>m DEF ScanFails, rowVars, history, Moves, Is, LockHeld, Exists, Free, TypeOK,
     Uploading
<1>4. NoRowNoEntry'
  BY <1>0, <1>m, Contents DEF ScanFails, rowVars, history, Moves, NoRowNoEntry, EntryOf, Exists,
     TypeOK
<1>5. WrittenIsoStays'
  BY <1>0, <1>m DEF ScanFails, rowVars, history, Moves, Is, WrittenIsoStays
<1>6. EntryInOwnDir'
  BY <1>0, <1>m DEF ScanFails, rowVars, history, Moves, EntryInOwnDir, Exists, TypeOK
<1>7. HandInOwnDir'
  BY <1>0, <1>m DEF ScanFails, rowVars, history, Moves, Is, HandInOwnDir, ByHand
<1>7s. ScanInOwnDir'
  BY <1>0, <1>m, ScansStay
<1>8. IsoSeenTo(a)
  BY <1>0, <1>m DEF ScanFails, rowVars, history, Moves, Is, IsoSeenTo, TakesIso, Exists,
     NoRowNoEntry
<1>9. HalfSeenTo(a)
  BY <1>0, <1>m, Contents DEF ScanFails, rowVars, history, Moves, Is, HalfSeenTo, Writes,
     TypeOK, Uploading
<1>10. MissingSeenTo(a)
  BY <1>0, <1>m, Contents DEF ScanFails, rowVars, history, Moves, Is, MissingSeenTo,
     StaysUnmissed, Unpacks, Relies, Deletes, TypeOK, ByHand, JobPlaces
<1>11. FilesSeenTo(a)
  BY <1>0, <1>m, Contents, <1>o DEF ScanFails, rowVars, history, Moves, Is, FilesSeenTo,
     Answers, TypeOK, ByHand, Uploading, JobPlaces
<1> QED
  BY <1>0, <1>m, <1>1, <1>2, <1>3, <1>4, <1>5, <1>6, <1>7, <1>7s, <1>8, <1>9, <1>10, <1>11,
     IsoStep, HalfStep, MissingStep, FilesStep DEF IInv

-----------------------------------------------------------------------------
(***************************************************************************)
(* Steps: Crashes                                                          *)
(***************************************************************************)
LEMMA CrashKeeps ==
  ASSUME BootTreeAssumption, IInv, NEW a \in Actors, Crash(a)
  PROVE  IInv'
<1>0. TypeOK /\ Placed /\ LockHeld /\ NoRowNoEntry /\ IsoOnDisk /\ WrittenIsoStays
      /\ EntryInOwnDir /\ HandInOwnDir /\ ScanInOwnDir /\ HalfIsOwed /\ MissingIsOwed /\ FilesAreOwned
  BY DEF IInv
<1>h. /\ act[a].dir \in Dirs \cup {NoDir}
      /\ act[a].pc \in {"deleting", "purged"} => act[a].ver \in Ids
  BY <1>0, AtWork DEF TypeOK, ActState, AtDirectory, JobPlaces
<1>m. Moves(a, "ended") /\ act'[a].dir = NoDir
  BY <1>0, EndMoves, BootTreeAssumption DEF Crash
<1>o. \A v \in Ids, d \in Dirs : Owns(v, d) => Owns(v, d)'
  BY <1>m, OwnersStay DEF Crash, rowVars
<1>1. TypeOK'
  BY <1>0, <1>m, <1>h, Contents, BootTreeAssumption DEF Crash, rowVars, Moves, TypeOK
<1>2. Placed'
  BY <1>0, <1>m, <1>h DEF Crash, rowVars, Moves, Is, Placed, TypeOK, ByHand, Uploading,
     AtDirectory, JobPlaces
<1>3. LockHeld'
  BY <1>0, <1>m, <1>h DEF Crash, rowVars, Moves, Is, LockHeld, Exists, Free, TypeOK, Uploading
<1>4. NoRowNoEntry'
  BY <1>0, <1>m, <1>h, Contents DEF Crash, rowVars, Moves, NoRowNoEntry, EntryOf, Exists, TypeOK
<1>5. WrittenIsoStays'
  BY <1>0, <1>m, <1>h DEF Crash, rowVars, Moves, Is, WrittenIsoStays
<1>6. EntryInOwnDir'
  BY <1>0, <1>m, <1>h DEF Crash, rowVars, Moves, EntryInOwnDir, Exists, TypeOK
<1>7. HandInOwnDir'
  BY <1>0, <1>m, <1>h DEF Crash, rowVars, Moves, Is, HandInOwnDir, ByHand
<1>7s. ScanInOwnDir'
  BY <1>0, <1>m, ScansStay
<1>8. IsoSeenTo(a)
  BY <1>0, <1>m, <1>h DEF Crash, rowVars, Moves, Is, IsoSeenTo, TakesIso, Exists, NoRowNoEntry
<1>9. HalfSeenTo(a)
  BY <1>0, <1>m, <1>h, Contents DEF Crash, rowVars, Moves, Is, HalfSeenTo, Writes, TypeOK,
     Uploading
<1>10. MissingSeenTo(a)
  BY <1>0, <1>m, <1>h, Contents DEF Crash, rowVars, Moves, Is, MissingSeenTo, StaysUnmissed,
     Unpacks, Relies, Deletes, TypeOK, ByHand, JobPlaces
<1>11. FilesSeenTo(a)
  BY <1>0, <1>m, <1>h, Contents, <1>o DEF Crash, rowVars, Moves, Is, FilesSeenTo, Answers,
     TypeOK, ByHand, Uploading, JobPlaces
<1> QED
  BY <1>0, <1>m, <1>1, <1>2, <1>3, <1>4, <1>5, <1>6, <1>7, <1>7s, <1>8, <1>9, <1>10, <1>11,
     IsoStep, HalfStep, MissingStep, FilesStep DEF IInv
-----------------------------------------------------------------------------
(***************************************************************************)
(* The invariant, and what follows from it                                 *)
(***************************************************************************)
LEMMA InitInvariant ==
  ASSUME BootTreeAssumption, Init
  PROVE  IInv
<1> DEFINE user(d) == {v \in Ids : rdir[v] = d /\ status[v] = "ready"}
<1>1. \A a \in Actors : act[a].pc = "idle" /\ act[a].dir = NoDir /\ act[a] \in ActState
  BY IdleIsTyped DEF Init, Idle
<1>2. /\ entry = [v \in Ids |-> EntryOf(IF v \in user(rdir[v]) THEN rdir[v] ELSE NoDir)]
      /\ files \in [Dirs -> [Roles -> Ids \cup {Missing}]]
      /\ \A d \in Dirs, r \in Roles :
           IF user(d) = {} THEN files[d][r] = Missing ELSE files[d][r] \in user(d)
      /\ rdir \in [Ids -> Labels \cup {NoDir}]
      /\ \A v \in Ids : Exists(v) <=> status[v] # "absent"
  BY DEF Init
<1>3. \A v \in Ids, r \in Roles :
        entry[v][r] = IF v \in user(rdir[v]) THEN rdir[v] ELSE NoDir
  BY <1>2 DEF EntryOf
<1>4. TypeOK
  <2>1. entry \in [Ids -> [Roles -> Dirs \cup {NoDir}]]
    BY <1>2, Contents, BootTreeAssumption DEF EntryOf
  <2>2. act \in [Actors -> ActState]
    BY IdleIsTyped DEF Init
  <2> QED
    BY <1>2, <2>1, <2>2 DEF Init, TypeOK
<1>5. Placed /\ WrittenIsoStays /\ HandInOwnDir /\ ScanInOwnDir
  BY <1>1 DEF Placed, WrittenIsoStays, HandInOwnDir, ScanInOwnDir, Is, ByHand, Uploading, AtDirectory, JobPlaces
<1>6. LockHeld
  BY <1>1, BootTreeAssumption DEF LockHeld, Init, Is, Uploading
<1>7. NoRowNoEntry /\ IsoOnDisk
  BY <1>2 DEF Init, NoRowNoEntry, IsoOnDisk, Exists, EntryOf
<1>8. EntryInOwnDir
  BY <1>3 DEF EntryInOwnDir
<1>9. HalfIsOwed
  BY <1>2, Contents, BootTreeAssumption DEF HalfIsOwed
<1>10. MissingIsOwed
  <2> SUFFICES ASSUME NEW d \in Dirs, NEW r \in Roles, files[d][r] = Missing
               PROVE  NotMissed(d, r)
    BY DEF MissingIsOwed
  <2>1. user(d) = {}
    BY <1>2, Contents, BootTreeAssumption
  <2>2. \A v \in Ids : entry[v][r] # d
    BY <1>3, <2>1, Contents, BootTreeAssumption
  <2> QED
    BY <1>1, <2>2 DEF NotMissed, Relies, Is, ByHand
<1>11. FilesAreOwned
  <2> SUFFICES ASSUME NEW d \in Dirs, NEW r \in Roles, files[d][r] # Missing
               PROVE  \E v \in Ids : Owns(v, d)
    BY DEF FilesAreOwned
  <2>1. PICK v \in Ids : rdir[v] = d /\ status[v] = "ready"
    BY <1>2
  <2> QED
    BY <1>1, <1>2, <2>1 DEF Owns, Deleted, Deletes, Is
<1> QED
  BY <1>4, <1>5, <1>6, <1>7, <1>8, <1>9, <1>10, <1>11 DEF IInv

LEMMA StutterKeeps ==
  ASSUME IInv, UNCHANGED vars
  PROVE  IInv'
<1>1. TypeOK' /\ Placed' /\ LockHeld' /\ NoRowNoEntry'
  BY DEF IInv, vars, TypeOK, Placed, LockHeld, NoRowNoEntry, Is, Exists
<1>2. IsoOnDisk' /\ WrittenIsoStays' /\ EntryInOwnDir' /\ HandInOwnDir' /\ ScanInOwnDir'
  BY DEF IInv, vars, IsoOnDisk, WrittenIsoStays, EntryInOwnDir, HandInOwnDir, ScanInOwnDir, Records,
     HasRead, Is, Exists
<1>3. HalfIsOwed' /\ MissingIsOwed' /\ FilesAreOwned'
  BY DEF IInv, vars, HalfIsOwed, Writes, MissingIsOwed, NotMissed, Unpacking, Unpacks, Relies, Holds,
     Records, HasRead, Deleted, Deletes, FilesAreOwned, Answers, Owns, Is, Exists
<1> QED
  BY <1>1, <1>2, <1>3 DEF IInv

LEMMA StepKeeps ==
  ASSUME BootTreeAssumption, IInv, [Next]_vars
  PROVE  IInv'
<1>1. CASE UNCHANGED vars
  BY <1>1, StutterKeeps
<1>2. ASSUME NEW a \in Actors, NEW d \in Labels, NEW w \in BOOLEAN, UploadBegins(a, d, w)
      PROVE  IInv'
  BY <1>2, UploadBeginsKeeps
<1>3. ASSUME NEW a \in Actors,
             UploadWritesIso(a) \/ \E r \in Roles : UploadOpens(a, r)
      PROVE  IInv'
  BY <1>3, UploadWritesIsoKeeps, UploadOpensKeeps
<1>4. ASSUME NEW a \in Actors,
             UploadSaves(a) \/ UploadCommits(a) \/ UploadFails(a) \/ UploadDiscards(a)
      PROVE  IInv'
  BY <1>4, UploadSavesKeeps, UploadCommitsKeeps, UploadFailsKeeps, UploadDiscardsKeeps
<1>5. ASSUME NEW a \in Actors, NEW v \in Ids, ExtractQueued(a, v) \/ DeleteFiles(a, v)
      PROVE  IInv'
  BY <1>5, ExtractQueuedKeeps, DeleteFilesKeeps
<1>6. ASSUME NEW a \in Actors,
             \/ TaskStarts(a) \/ ToolSucceeds(a) \/ ToolRetries(a)
             \/ \E r \in Roles : ToolWrites(a, r)
      PROVE  IInv'
  BY <1>6, TaskStartsKeeps, ToolSucceedsKeeps, ToolRetriesKeeps, ToolWritesKeeps
<1>7. ASSUME NEW a \in Actors,
             TaskFinds(a) \/ TaskPurges(a) \/ TaskCommits(a) \/ TaskCommitFails(a) \/ TaskFails(a)
      PROVE  IInv'
  BY <1>7, TaskFindsKeeps, TaskPurgesKeeps, TaskCommitsKeeps, TaskCommitFailsKeeps, TaskFailsKeeps
<1>8. ASSUME NEW a \in Actors, NEW v \in Ids, NEW r \in Roles,
             HandOpens(a, v, r) \/ ReplaceOpens(a, v, r)
      PROVE  IInv'
  BY <1>8, HandOpensKeeps, ReplaceOpensKeeps
<1>9. ASSUME NEW a \in Actors, HandWrites(a) \/ HandCommits(a) \/ HandFails(a)
      PROVE  IInv'
  BY <1>9, HandWritesKeeps, HandCommitsKeeps, HandFailsKeeps
<1>10. ASSUME NEW a \in Actors, DeleteRow(a) \/ DeleteFails(a) \/ Crash(a)
       PROVE  IInv'
  BY <1>10, DeleteRowKeeps, DeleteFailsKeeps, CrashKeeps
<1>11. ASSUME NEW a \in Actors,
              ScanReads(a) \/ ScanCommits(a) \/ ScanFails(a) \/ \E d \in Dirs : ScanVisits(a, d)
       PROVE  IInv'
  BY <1>11, ScanReadsKeeps, ScanVisitsKeeps, ScanCommitsKeeps, ScanFailsKeeps
<1> QED
  BY <1>1, <1>2, <1>3, <1>4, <1>5, <1>6, <1>7, <1>8, <1>9, <1>10, <1>11 DEF Next

\* Whatever uploads, tasks, requests by hand, scans and deletions do to the boot
\* directories, and in whatever order, IInv holds (app/routers/isos.py,
\* app/services/iso_extractor.py, app/services/boot_scanner.py).
THEOREM Invariance == Spec => []IInv
<1>1. Init => IInv
  BY InitInvariant, BootTreeAssumption
<1>2. IInv /\ [Next]_vars => IInv'
  BY StepKeeps, BootTreeAssumption
<1> QED
  BY <1>1, <1>2, PTL DEF Spec

\* The variables have their types.
THEOREM TypeCorrect == Spec => []TypeOK
<1>1. IInv => TypeOK
  BY DEF IInv
<1> QED
  BY <1>1, Invariance, PTL

\* A recorded file of a ready version is on disk and complete, but for the known
\* losses: the uploads, tools and deletions that touch a directory answer for it, also
\* to the scans that have seen a file there and will record it.
THEOREM ReadyVersionsHaveTheirFiles == Spec => []ReadyHasFiles
<1>1. ASSUME IInv PROVE ReadyHasFiles
  <2> SUFFICES ASSUME NEW v \in Ids, NEW r \in Roles, entry[v][r] # NoDir,
                      files[entry[v][r]][r] \in {Missing, Half}
               PROVE  In(entry[v][r]) # {} \/ entry[v][r] \in hurt
    BY DEF ReadyHasFiles
  <2>1. PICK d \in Dirs : d = entry[v][r]
    BY <1>1 DEF IInv, TypeOK
  <2>2. CASE files[d][r] = Half
    BY <1>1, <2>1, <2>2 DEF IInv, HalfIsOwed, Writes, In
  <2>3. CASE files[d][r] = Missing
    <3>1. d \in hurt \/ Unpacking(d) \/ NotMissed(d, r)
      BY <1>1, <2>3 DEF IInv, MissingIsOwed
    <3>2. CASE Unpacking(d)
      BY <2>1, <3>2 DEF Unpacking, Unpacks, In
    <3>3. CASE NotMissed(d, r)
      BY <2>1, <3>3 DEF NotMissed, Deleted, Deletes, In, Is
    <3> QED
      BY <2>1, <3>1, <3>2, <3>3
  <2> QED
    BY <2>1, <2>2, <2>3
<1> QED
  BY <1>1, Invariance, PTL

\* Files in a directory where nobody works have a version, or one of the failures
\* that are known to leave files behind has happened there.
THEOREM NoFilesStray == Spec => []NoStrayFiles
<1>1. ASSUME IInv PROVE NoStrayFiles
  <2> SUFFICES ASSUME NEW d \in Dirs, files[d] # Empty, In(d) = {}, d \notin left
               PROVE  \E v \in Ids : Exists(v) /\ d \in {rdir[v], v}
    BY DEF NoStrayFiles
  <2>1. files[d] = [r \in Roles |-> files[d][r]]
    BY <1>1 DEF IInv, TypeOK
  <2>2. PICK r \in Roles : files[d][r] # Missing
    BY <2>1 DEF Empty
  <2>3. ~\E b \in Actors : Answers(b, d, r)
    BY DEF Answers, In
  <2> QED
    BY <1>1, <2>2, <2>3 DEF IInv, FilesAreOwned, Owns
<1> QED
  BY <1>1, Invariance, PTL

\* A version keeps its ISO unless an upload that failed took it for its own, or a
\* deletion, or the purge that an extraction ends with, is under way or could not write
\* the row.
THEOREM IsosStayOnDisk == Spec => []IsoOnDisk
<1>1. IInv => IsoOnDisk
  BY DEF IInv
<1> QED
  BY <1>1, Invariance, PTL

\* The paths of an entry lead to the version's directories unless somebody wrote to
\* it who had read the rows before it was made.
THEOREM EntriesStayInOwnDir == Spec => []EntryInOwnDir
<1>1. IInv => EntryInOwnDir
  BY DEF IInv
<1> QED
  BY <1>1, Invariance, PTL
=============================================================================
