------------------------- MODULE MasterStore_proofs -------------------------
(***************************************************************************)
(* Proofs about MasterStore for any number of masters, uploads, deletions  *)
(* and processes of the worker.                                            *)
(***************************************************************************)
EXTENDS MasterStore, FiniteSetTheorems, TLAPS

PartPlaces == {"receiving", "sending", "discarding", "queued", "checking", "moving", "failing"}
CatPlaces  == {"reading", "truncating", "writing catalogue"}
OpPlaces   == PartPlaces \cup CatPlaces
                \cup {"idle", "ended", "in place", "committing", "regenerating"}
OpState    == [pc : OpPlaces, kind : {"none", "part", "direct", "delete", "ask"},
               m : Masters \cup {NoMaster}, seen : [Masters -> Entries]]
RunState   == [pc : {"none", "queued", "listing", "writing", "patching", "ended"},
               seen : [Masters -> Entries \cup {-1}]]

\* Every variable has its type.
TypeOK ==
  /\ wim \in [Masters -> Contents] /\ part \in [Masters -> Contents]
  /\ cat \in [Masters -> Entries] \cup {Torn}
  /\ row \in [Uploads -> {"none", "processing", "done", "error"}]
  /\ op \in [Ops -> OpState] /\ regen \in [Ops -> RunState]
  /\ moved \in [Uploads -> Contents]
  /\ patched \in BOOLEAN /\ raced \in BOOLEAN /\ unshown \in BOOLEAN

\* What kind of operation can be where.
Shape(o) ==
  /\ At(o, "idle") <=> op[o].kind = "none"
  /\ op[o].kind \in {"part", "direct"} => o \in Uploads
  /\ op[o].kind \in {"part", "direct", "delete"} <=> op[o].m \in Masters
  /\ op[o].pc \in PartPlaces => op[o].kind = "part"
  /\ At(o, "in place") => op[o].kind = "direct"
  /\ op[o].pc \in CatPlaces => op[o].kind \in {"part", "direct", "delete"}
  /\ At(o, "committing") => op[o].kind \in {"part", "direct"}
OpShape == \A o \in Ops : Shape(o)

\* Two that are at work on one master have crossed.
Crossing ==
  \A x, y \in Ops :
    x # y /\ Live(x) /\ Live(y) /\ op[x].m = op[y].m /\ op[x].m # NoMaster => x \in crossed

\* What upload u has written so far.
Half(u) == -u

\* The bytes of an upload are nowhere but at its master.
PartPlace == \A m \in Masters, u \in Uploads : part[m] \in {u, Half(u)} => op[u].m = m
WimPlace  == \A m \in Masters, u \in Uploads : wim[m] \in {u, Half(u)} => op[u].m = m

\* An unfinished part file is being received or will be discarded, a complete one has yet
\* to be moved; and who has met nobody finds there what it sent.
PartHalf ==
  \A m \in Masters, u \in Uploads : part[m] = Half(u) => op[u].pc \in {"receiving", "discarding"}
PartFull ==
  \A m \in Masters, u \in Uploads :
    part[m] = u /\ u \notin crossed => op[u].pc \in PartPlaces \ {"receiving"}
HasPart(u) ==
  u \notin crossed =>
    /\ At(u, "receiving") => part[op[u].m] = Half(u)
    /\ op[u].pc \in {"sending", "queued", "checking", "moving"} => part[op[u].m] = u
PartIsOwn == \A u \in Uploads : HasPart(u)

\* Who serves an unfinished file wrote it in place or has met somebody.
WimHalf ==
  \A m \in Masters, u \in Uploads : wim[m] = Half(u) => op[u].kind = "direct" \/ u \in crossed

\* How the row of an upload goes with its place.
RowOf ==
  \A u \in Uploads :
    /\ row[u] = "done" => op[u].pc \in {"regenerating", "ended"}
    /\ row[u] = "processing" =>
         \/ u \in orphaned
         \/ /\ op[u].kind = "part"
            /\ op[u].pc \in (PartPlaces \ {"receiving", "discarding"}) \cup CatPlaces \cup {"committing"}

MovedOwn ==
  \A u \in Uploads :
    op[u].kind = "part" /\ u \notin crossed
      /\ (op[u].pc \in CatPlaces \cup {"committing"} \/ row[u] = "done") => moved[u] = u

\* Uploads that have written their entry, and catalogues that say what they should.
Recorded(u) == u \notin crossed /\ (row[u] = "done" \/ At(u, "committing"))
Matches(f)  == \A m \in Masters, u \in Uploads : wim[m] = u /\ Recorded(u) => f[m] = u

\* Who is about to change the entry of a master does not find there the file of an upload
\* whose entry it would overwrite.
Fresh ==
  \A w \in Ops, u \in Uploads :
    op[w].pc \in CatPlaces \cup {"moving", "in place"} /\ u # w /\ wim[op[w].m] = u => ~Recorded(u)

\* As long as the changes of the catalogue did not overlap, it matches when nobody writes,
\* and otherwise what the one who writes has in memory does.
CatalogueHeld ==
  ~raced =>
    /\ Writers = {} => cat # Torn /\ Matches(cat)
    /\ \A w \in Writers :
         /\ \A o \in Writers : o = w
         /\ Matches(op[w].seen)
         /\ op[w].kind # "delete" => op[w].seen[op[w].m] = w
         /\ At(w, "writing catalogue") => cat = Torn

OpInv ==
  /\ OpShape /\ Crossing /\ PartPlace /\ WimPlace
  /\ PartHalf /\ PartFull /\ PartIsOwn /\ WimHalf
  /\ RowOf /\ MovedOwn /\ Fresh /\ CatalogueHeld

\* While no change is lost, at most one regeneration runs; and somebody will still queue
\* one or start one, or one has listed what there is and writes it, or the scripts have it.
OneRunning == ~unshown => \A x, y \in Running : x = y
Changing   == {"moving", "in place", "reading", "truncating", "writing catalogue", "committing",
               "regenerating"}
Pending    == \E o \in Ops : op[o].pc \in Changing \/ regen[o].pc \in {"queued", "listing"}
Listed     == \E o \in Ops : regen[o].pc = "writing" /\ regen[o].seen = Listing
Shown      == /\ \A o \in Ops : regen[o].pc # "writing"
              /\ shown = Listing \/ (~patched /\ \A o \in Ops : regen[o].pc # "patching")
WillShow   == ~unshown => Pending \/ Listed \/ Shown

IInv == TypeOK /\ OpInv /\ OneRunning /\ WillShow
-----------------------------------------------------------------------------
\* A step of o brings it to place p and leaves the others.
Moves(o, p) ==
  /\ op' \in [Ops -> OpState]
  /\ \A x \in Ops \ {o} : op'[x] = op[x]
  /\ op'[o].pc = p
Keeps(o) == op'[o].kind = op[o].kind /\ op'[o].m = op[o].m

LEMMA GoMoves ==
  ASSUME TypeOK, NEW o \in Ops, NEW p \in OpPlaces, Go(o, p)
  PROVE  Moves(o, p) /\ Keeps(o) /\ op'[o].seen = op[o].seen
<1>1. op[o] \in OpState
  BY DEF TypeOK
<1>2. [op[o] EXCEPT !.pc = p] \in OpState
  BY <1>1 DEF OpState
<1>3. op' = [op EXCEPT ![o] = [op[o] EXCEPT !.pc = p]]
  BY DEF Go
<1>4. op'[o] = [op[o] EXCEPT !.pc = p] /\ \A x \in Ops \ {o} : op'[x] = op[x]
  BY <1>3 DEF TypeOK
<1>5. op' \in [Ops -> OpState]
  BY <1>2, <1>3 DEF TypeOK
<1> QED
  BY <1>1, <1>4, <1>5 DEF OpState, Moves, Keeps

\* A step to place p that also changes the catalogue in memory.
LEMMA SeenMoves ==
  ASSUME TypeOK, NEW o \in Ops, NEW p \in OpPlaces, NEW f \in [Masters -> Entries],
         op' = [op EXCEPT ![o].pc = p, ![o].seen = f]
  PROVE  Moves(o, p) /\ Keeps(o) /\ op'[o].seen = f
<1>1. op[o] \in OpState
  BY DEF TypeOK
<1>2. [op[o] EXCEPT !.pc = p, !.seen = f] \in OpState
  BY <1>1 DEF OpState
<1>3. op' = [op EXCEPT ![o] = [op[o] EXCEPT !.pc = p, !.seen = f]]
  BY DEF TypeOK
<1>4. op'[o] = [op[o] EXCEPT !.pc = p, !.seen = f] /\ \A x \in Ops \ {o} : op'[x] = op[x]
  BY <1>3 DEF TypeOK
<1>5. op' \in [Ops -> OpState]
  BY <1>2, <1>3 DEF TypeOK
<1> QED
  BY <1>1, <1>4, <1>5 DEF OpState, Moves, Keeps

LEMMA IdleOpIsTyped ==
  /\ Empty \in [Masters -> Entries] /\ IdleOp \in OpState
  /\ IdleOp.pc = "idle" /\ IdleOp.kind = "none" /\ IdleOp.m = NoMaster /\ IdleOp.seen = Empty
  BY DEF IdleOp, OpState, OpPlaces, Empty, Entries

LEMMA BeginMoves ==
  ASSUME TypeOK, NEW o \in Ops, NEW k \in {"part", "direct", "delete"}, NEW m \in Masters,
         NEW p \in OpPlaces, Begin(o, k, m, p)
  PROVE  /\ Moves(o, p) /\ op'[o].kind = k /\ op'[o].m = m
         /\ At(o, "idle") /\ crossed \subseteq crossed'
<1> DEFINE new == [IdleOp EXCEPT !.pc = p, !.kind = k, !.m = m]
<1>1. new \in OpState
  BY IdleOpIsTyped DEF OpState
<1>2. new.pc = p /\ new.kind = k /\ new.m = m
  BY IdleOpIsTyped DEF OpState
<1>3. op' = [op EXCEPT ![o] = new] /\ At(o, "idle") /\ crossed \subseteq crossed'
  BY DEF Begin
<1> HIDE DEF new
<1> QED
  BY <1>1, <1>2, <1>3 DEF Moves, TypeOK

LEMMA AskMoves ==
  ASSUME TypeOK, NEW o \in Ops,
         op' = [op EXCEPT ![o] = [IdleOp EXCEPT !.pc = "regenerating", !.kind = "ask"]]
  PROVE  Moves(o, "regenerating") /\ op'[o].kind = "ask" /\ op'[o].m = NoMaster
<1> DEFINE new == [IdleOp EXCEPT !.pc = "regenerating", !.kind = "ask"]
<1>1. new \in OpState
  BY IdleOpIsTyped DEF OpState, OpPlaces
<1>2. new.pc = "regenerating" /\ new.kind = "ask" /\ new.m = NoMaster
  BY IdleOpIsTyped DEF OpState
<1>3. op' = [op EXCEPT ![o] = new]
  OBVIOUS
<1> HIDE DEF new
<1> QED
  BY <1>1, <1>2, <1>3 DEF Moves, TypeOK

\* The contents of a file are all different, and an entry is none of the faulty ones.
LEMMA ContentsDiffer ==
  ASSUME MasterStoreAssumption
  PROVE  /\ \A u \in Uploads : u # Missing /\ Half(u) # Missing /\ u # Garbage /\ Half(u) # Garbage
         /\ \A u, v \in Uploads : u # Half(v) /\ (Half(u) = Half(v) => u = v)
         /\ Missing # Garbage /\ NoMaster \notin Masters /\ Torn \notin [Masters -> Entries]
<1>1. Cardinality(Uploads) \in Nat
  BY FS_CardinalityType DEF MasterStoreAssumption
<1>2. Entries \subseteq Nat
  BY DEF Entries, NoEntry, MasterStoreAssumption
<1>3. ASSUME NEW f \in [Masters -> Entries] PROVE f \in [Masters -> Nat]
  BY <1>2
<1>4. Torn \notin [Masters -> Entries] /\ NoMaster \notin Masters
  BY <1>3 DEF MasterStoreAssumption, NoMaster
<1>6. \A u \in Uploads : u \in Int /\ u > 0 /\ u <= Cardinality(Uploads)
  BY DEF MasterStoreAssumption
<1> QED
  BY <1>1, <1>4, <1>6 DEF Missing, Garbage, Half

LEMMA ContentsAre ==
  Missing \in Contents /\ Garbage \in Contents /\ \A u \in Uploads : u \in Contents /\ Half(u) \in Contents
BY DEF Contents, Half

\* A file that changes at one master.
LEMMA PutIs ==
  ASSUME NEW f \in [Masters -> Contents], NEW m \in Masters, NEW c \in Contents
  PROVE  /\ [f EXCEPT ![m] = c] \in [Masters -> Contents]
         /\ \A x \in Masters : [f EXCEPT ![m] = c][x] = IF x = m THEN c ELSE f[x]
OBVIOUS

\* The end of the writes of u.
LEMMA ClosedIs ==
  ASSUME MasterStoreAssumption, NEW f \in [Masters -> Contents], NEW u \in Uploads
  PROVE  /\ Closed(f, u) \in [Masters -> Contents]
         /\ \A m \in Masters : Closed(f, u)[m] = IF f[m] = Half(u) THEN u ELSE f[m]
BY DEF Closed, Half, Contents

\* Who begins crosses those at work on its master.
LEMMA BeginCrosses ==
  ASSUME TypeOK, Crossing, NEW o \in Ops, NEW k \in {"part", "direct", "delete"},
         NEW m \in Masters, NEW p \in OpPlaces, Begin(o, k, m, p)
  PROVE  /\ \A x \in Ops : Live(x) /\ op[x].m = m => x \in crossed' /\ o \in crossed'
         /\ Crossing'
<1>1. \A x \in Ops : Live(x) /\ op[x].m = m => x \in crossed' /\ o \in crossed'
  BY DEF Begin
<1>2. Moves(o, p) /\ op'[o].m = m /\ crossed \subseteq crossed'
  BY BeginMoves
<1> QED
  BY <1>1, <1>2 DEF Crossing, Moves, Live

\* A step of a live operation meets nobody new, nor does one that has no master.
LEMMA CrossingStays ==
  ASSUME Crossing, NEW o \in Ops, NEW p, Moves(o, p), crossed' = crossed,
         (Keeps(o) /\ Live(o)) \/ op'[o].m = NoMaster
  PROVE  Crossing'
BY DEF Crossing, Moves, Keeps, Live

\* When no file of an upload that has written its entry appears, a catalogue that matched
\* still does, ...
Appears == \E m \in Masters, u \in Uploads :
  (wim[m] = u /\ Recorded(u))' /\ ~(wim[m] = u /\ Recorded(u))

LEMMA CatalogueStays ==
  ASSUME CatalogueHeld, ~Appears, NEW o \in Ops, NEW p, Moves(o, p), o \notin Writers,
         p \notin {"truncating", "writing catalogue"}, cat' = cat, raced' = raced
  PROVE  CatalogueHeld'
<1>1. Writers' = Writers /\ \A w \in Writers : op'[w] = op[w]
  BY DEF Moves, Writers
<1>2. ASSUME NEW f, Matches(f) PROVE Matches(f)'
  BY <1>2 DEF Appears, Matches
<1>3. ASSUME ~raced', Writers' = {} PROVE cat' # Torn /\ Matches(cat)'
  BY <1>1, <1>2, <1>3 DEF CatalogueHeld, Matches
<1>4. ASSUME ~raced', NEW w \in Writers'
      PROVE  /\ \A x \in Writers' : x = w
             /\ Matches(op[w].seen)'
             /\ op'[w].kind # "delete" => op'[w].seen[op'[w].m] = w
             /\ op'[w].pc = "writing catalogue" => cat' = Torn
  <2>1. w \in Writers /\ op'[w] = op[w] /\ ~raced
    BY <1>1, <1>4
  <2>2. /\ \A x \in Writers : x = w
        /\ Matches(op[w].seen)
        /\ op[w].kind # "delete" => op[w].seen[op[w].m] = w
        /\ op[w].pc = "writing catalogue" => cat = Torn
    BY <2>1 DEF CatalogueHeld, At
  <2>3. Matches(op[w].seen)'
    <3> DEFINE f == op[w].seen
    <3>1. Matches(f)
      BY <2>2
    <3>2. op'[w].seen = f
      BY <2>1
    <3> HIDE DEF f
    <3> QED
      BY <1>2, <3>1, <3>2
  <2> QED
    BY <1>1, <2>1, <2>2, <2>3
<1> QED
  BY <1>3, <1>4 DEF CatalogueHeld, At

\* ... and nobody finds a fresh one who had not found it before.
LEMMA FreshStays ==
  ASSUME OpShape, Fresh, ~Appears, NEW o \in Ops, NEW p, Moves(o, p), Keeps(o),
         p \in CatPlaces \cup {"moving", "in place"} => op[o].pc \in CatPlaces \cup {"moving", "in place"}
  PROVE  Fresh'
<1>1. ASSUME NEW w \in Ops, op'[w].pc \in CatPlaces \cup {"moving", "in place"}
      PROVE  op[w].pc \in CatPlaces \cup {"moving", "in place"} /\ op'[w].m = op[w].m
  BY <1>1 DEF Moves, Keeps
<1>2. ASSUME NEW w \in Ops, NEW u \in Uploads, op'[w].pc \in CatPlaces \cup {"moving", "in place"},
             u # w, (wim[op[w].m] = u)', Recorded(u)'
      PROVE  FALSE
  <2>1. op[w].m \in Masters
    <3>1. op[w].kind \in {"part", "direct", "delete"}
      BY <1>1, <1>2 DEF OpShape, Shape, CatPlaces, PartPlaces, At
    <3> QED
      BY <1>1, <1>2, <3>1 DEF OpShape, Shape
  <2>2. wim[op[w].m] = u /\ Recorded(u)
    BY <1>1, <1>2, <2>1 DEF Appears
  <2> QED
    BY <1>1, <1>2, <2>2 DEF Fresh
<1> QED
  BY <1>2 DEF Fresh

LEMMA ShapeStays ==
  ASSUME OpShape, NEW o \in Ops, NEW p, Moves(o, p), Shape(o)'
  PROVE  OpShape'
<1>1. ASSUME NEW x \in Ops \ {o} PROVE Shape(x)'
  BY <1>1 DEF OpShape, Shape, Moves, At
<1> QED
  BY <1>1 DEF OpShape

\* The part file of who has met nobody, and the master of who does something else.
LEMMA OwnMaster ==
  ASSUME MasterStoreAssumption, OpShape, Crossing, NEW o \in Ops, Live(o),
         NEW u \in Ops \ {o}, u \notin crossed, op[u].pc \in PartPlaces
  PROVE  op[u].m \in Masters /\ op[u].m # op[o].m
<1>1. op[u].m \in Masters
  <2>1. op[u].kind = "part"
    BY DEF OpShape, Shape
  <2> QED
    BY <2>1 DEF OpShape, Shape
<1>2. Live(u) /\ op[u].m # NoMaster
  BY <1>1, ContentsDiffer DEF Live, PartPlaces
<1> QED
  BY <1>1, <1>2 DEF Crossing

Waiting == {"receiving", "sending", "queued", "checking", "moving"}

LEMMA PartStays ==
  ASSUME PartIsOwn, NEW o \in Ops, NEW p, Moves(o, p), crossed \subseteq crossed',
         \A u \in Uploads : u \in Ops, o \in Uploads => HasPart(o)',
         \A u \in Uploads \ {o} :
           u \notin crossed' /\ op[u].pc \in Waiting => part'[op[u].m] = part[op[u].m]
  PROVE  PartIsOwn'
<1>1. ASSUME NEW u \in Uploads \ {o} PROVE HasPart(u)'
  <2>1. op'[u] = op[u] /\ HasPart(u) /\ (u \in crossed => u \in crossed')
    BY DEF Moves, PartIsOwn
  <2>2. u \notin crossed' /\ op[u].pc \in Waiting => part'[op[u].m] = part[op[u].m]
    OBVIOUS
  <2> QED
    BY <2>1, <2>2 DEF HasPart, At, Waiting
<1> QED
  BY <1>1 DEF PartIsOwn

\* The ways a step keeps WillShow: it leaves its operation with a change to be shown, it is a
\* change that may never be, or it changes nothing the scripts show.
LEMMA ShowPending ==
  ASSUME NEW o \in Ops, op'[o].pc \in Changing
  PROVE  WillShow'
BY DEF WillShow, Pending

LEMMA ShowStays ==
  ASSUME WillShow, NEW o \in Ops, NEW p, Moves(o, p), op[o].pc \notin Changing,
         cat' = cat, \A m \in Masters : wim'[m] = Missing <=> wim[m] = Missing,
         regen' = regen, shown' = shown, patched' = patched, unshown => unshown'
  PROVE  WillShow'
<1>1. Listing' = Listing
  BY DEF Listing, Loaded
<1>2. Pending => Pending'
  BY DEF Pending, Moves
<1> QED
  BY <1>1, <1>2 DEF WillShow, Listed, Shown

LEMMA RunsStay ==
  ASSUME OneRunning, regen' = regen, unshown => unshown'
  PROVE  OneRunning'
BY DEF OneRunning, Running
-----------------------------------------------------------------------------
(***************************************************************************)
(* Steps: upload_winpe_install                                             *)
(***************************************************************************)
LEMMA ReceiveKeeps ==
  ASSUME MasterStoreAssumption, IInv, NEW o \in Uploads, NEW m \in Masters, Receive(o, m)
  PROVE  IInv'
<1>0. /\ TypeOK /\ OpShape /\ Crossing /\ PartPlace /\ WimPlace /\ PartHalf /\ PartFull /\ PartIsOwn
      /\ WimHalf /\ RowOf /\ MovedOwn /\ Fresh /\ CatalogueHeld /\ OneRunning /\ WillShow
      /\ o \in Ops /\ \A u \in Uploads : u \in Ops
  BY DEF IInv, OpInv, Ops
<1>b. Begin(o, "part", m, "receiving")
  BY DEF Receive
<1>m. /\ Moves(o, "receiving") /\ op'[o].kind = "part" /\ op'[o].m = m
      /\ op[o].pc = "idle" /\ crossed \subseteq crossed'
      /\ \A x \in Ops : Live(x) /\ op[x].m = m => x \in crossed' /\ o \in crossed'
  BY <1>0, <1>b, BeginMoves, BeginCrosses DEF OpPlaces, PartPlaces, CatPlaces, At
<1>a. op[o].m \notin Masters /\ op[o].kind = "none"
  BY <1>0, <1>m DEF OpShape, Shape, At
<1>n. \A u \in Uploads, x \in Masters :
        op[u].m = x => op'[u].m = x /\ op'[u].kind = op[u].kind
  BY <1>0, <1>m, <1>a DEF Moves
<1>u. UNCHANGED <<wim, cat, row, regen, patched, shown, moved, raced, orphaned, unshown>>
  BY DEF Receive, files, scripts, history
<1>w. /\ part' \in [Masters -> Contents]
      /\ \A x \in Masters : part'[x] = IF x = m THEN Half(o) ELSE part[x]
  <2>1. part' = [part EXCEPT ![m] = Half(o)]
    BY DEF Receive, Half
  <2> QED
    BY <1>0, <2>1, PutIs, ContentsAre DEF TypeOK
<1>r. ~Appears
  BY <1>0, <1>m, <1>u, <1>w DEF Appears, Recorded, At, Moves, RowOf
<1>1. TypeOK'
  BY <1>0, <1>m, <1>u, <1>w DEF TypeOK, Moves
<1>2. OpShape'
  BY <1>0, <1>m, ShapeStays DEF Shape, Moves, At, PartPlaces, CatPlaces
<1>3. Crossing'
  BY <1>0, <1>b, BeginCrosses DEF OpPlaces, PartPlaces, CatPlaces
<1>4. PartPlace'
  BY <1>0, <1>n, <1>m, <1>w, <1>a, ContentsDiffer DEF PartPlace
<1>5. WimPlace'
  BY <1>0, <1>n, <1>u, <1>a DEF WimPlace
<1>6. PartHalf'
  <2> SUFFICES ASSUME NEW x \in Masters, NEW u \in Uploads, part'[x] = Half(u)
               PROVE  op'[u].pc \in {"receiving", "discarding"}
    BY DEF PartHalf
  <2>1. CASE u = o
    BY <1>m, <2>1 DEF Moves
  <2>2. CASE ~(u = o)
    <3>1. part[x] = Half(u)
      BY <1>w, <2>2, ContentsDiffer
    <3> QED
      BY <1>0, <1>m, <2>2, <3>1 DEF PartHalf, Moves
  <2> QED
    BY <2>1, <2>2
<1>7. PartFull'
  BY <1>0, <1>m, <1>w, <1>a, ContentsDiffer DEF PartFull, PartPlace, Moves, PartPlaces
<1>8. PartIsOwn'
  <2>1. ASSUME NEW u \in Uploads \ {o}, u \notin crossed', op[u].pc \in Waiting
        PROVE  part'[op[u].m] = part[op[u].m]
    <3>1. op[u].m \in Masters /\ Live(u)
      BY <1>0, <2>1 DEF OpShape, Shape, PartPlaces, Live, Waiting
    <3> QED
      BY <1>0, <1>m, <1>w, <2>1, <3>1
  <2>2. HasPart(o)'
    BY <1>0, <1>m, <1>w, <1>a DEF PartIsOwn, HasPart, Moves, At
  <2> QED
    BY <1>0, <1>m, <2>1, <2>2, PartStays
<1>9. WimHalf'
  BY <1>0, <1>m, <1>n, <1>u, <1>a DEF WimHalf, WimPlace
<1>10. RowOf'
  BY <1>0, <1>m, <1>u, <1>a DEF RowOf, Moves, Keeps, PartPlaces, CatPlaces
<1>11. MovedOwn'
  BY <1>0, <1>m, <1>u, <1>a DEF MovedOwn, RowOf, Moves, Keeps, CatPlaces, PartPlaces
<1>12. Fresh'
  <2>1. ASSUME NEW w \in Ops, NEW u \in Uploads, op'[w].pc \in CatPlaces \cup {"moving", "in place"},
               u # w, (wim[op[w].m] = u)', Recorded(u)'
        PROVE  FALSE
    <3>1. CASE w = o
      BY <1>m, <2>1, <3>1 DEF Moves, CatPlaces
    <3>2. CASE w # o
      <4>1. op'[w].pc = op[w].pc /\ op'[w].m = op[w].m
        BY <1>0, <1>m, <3>2 DEF Moves
      <4>2. op[w].m \in Masters
        <5>1. op[w].kind \in {"part", "direct", "delete"}
          BY <1>0, <2>1, <4>1 DEF OpShape, Shape, CatPlaces, PartPlaces, At
        <5> QED
          BY <1>0, <5>1 DEF OpShape, Shape
      <4>3. wim[op[w].m] = u /\ Recorded(u)
        <5>1. wim'[op[w].m] = u /\ Recorded(u)'
          BY <2>1, <4>1
        <5> QED
          BY <1>r, <4>2, <5>1 DEF Appears
      <4> QED
        BY <1>0, <2>1, <4>1, <4>3 DEF Fresh
    <3> QED
      BY <3>1, <3>2
  <2> QED
    BY <2>1 DEF Fresh
<1>13. CatalogueHeld'
  BY <1>0, <1>m, <1>u, <1>r, CatalogueStays DEF Writers
<1>14. OneRunning'
  BY <1>0, <1>u, <1>w, RunsStay
<1>15. WillShow'
  BY <1>0, <1>m, <1>u, <1>w, ShowStays DEF Changing
<1> QED
  BY <1>1, <1>2, <1>3, <1>4, <1>5, <1>6, <1>7, <1>8, <1>9, <1>10, <1>11, <1>12, <1>13,
     <1>14, <1>15 DEF IInv, OpInv

LEMMA ReceivedKeeps ==
  ASSUME MasterStoreAssumption, IInv, NEW o \in Uploads, Received(o)
  PROVE  IInv'
<1>0. /\ TypeOK /\ OpShape /\ Crossing /\ PartPlace /\ WimPlace /\ PartHalf /\ PartFull /\ PartIsOwn
      /\ WimHalf /\ RowOf /\ MovedOwn /\ Fresh /\ CatalogueHeld /\ OneRunning /\ WillShow
      /\ o \in Ops /\ \A u \in Uploads : u \in Ops
  BY DEF IInv, OpInv, Ops
<1>m. Moves(o, "sending") /\ Keeps(o) /\ op[o].pc = "receiving"
  BY <1>0, GoMoves DEF Received, OpPlaces, PartPlaces, CatPlaces, At
<1>a. op[o].m \in Masters /\ op[o].kind = "part"
  BY <1>0, <1>m DEF OpShape, Shape, At, PartPlaces, CatPlaces
<1>n. \A u \in Uploads, x \in Masters :
        op[u].m = x => op'[u].m = x /\ op'[u].kind = op[u].kind
  BY <1>0, <1>m DEF Moves, Keeps
<1>u. UNCHANGED <<cat, regen, patched, shown, moved, crossed, raced, orphaned, unshown>>
  BY DEF Received, files, scripts, history
<1>v. /\ row' = [row EXCEPT ![o] = "processing"]
  BY <1>0 DEF Received, TypeOK
<1>w. /\ wim' \in [Masters -> Contents]
      /\ \A x \in Masters : wim'[x] = IF wim[x] = Half(o) THEN o ELSE wim[x]
      /\ part' \in [Masters -> Contents]
      /\ \A x \in Masters : part'[x] = IF part[x] = Half(o) THEN o ELSE part[x]
  BY <1>0, <1>a, ClosedIs DEF Received, TypeOK
<1>r. ~Appears
  BY <1>0, <1>m, <1>u, <1>v, <1>w, ContentsDiffer DEF Appears, Recorded, At, Moves, RowOf,
     TypeOK, WimPlace
<1>1. TypeOK'
  BY <1>0, <1>m, <1>u, <1>v, <1>w DEF TypeOK, Moves
<1>2. OpShape'
  <2>1. Shape(o)
    BY <1>0 DEF OpShape
  <2>2. Shape(o)'
    BY <1>0, <1>m, <2>1 DEF Shape, Moves, Keeps, At, PartPlaces, CatPlaces
  <2> QED
    BY <1>0, <1>m, <2>2, ShapeStays
<1>3. Crossing'
  BY <1>0, <1>m, <1>u, CrossingStays DEF Live
<1>4. PartPlace'
  <2> SUFFICES ASSUME NEW x \in Masters, NEW u \in Uploads, part'[x] \in {u, Half(u)}
               PROVE  op'[u].m = x
    BY DEF PartPlace
  <2>1. CASE u = o
    BY <1>0, <1>n, <1>w, <2>1, ContentsDiffer DEF PartPlace
  <2>2. CASE ~(u = o)
    BY <1>0, <1>n, <1>w, <2>2, ContentsDiffer DEF PartPlace
  <2> QED
    BY <2>1, <2>2
<1>5. WimPlace'
  BY <1>0, <1>n, <1>w, ContentsDiffer DEF WimPlace
<1>6. PartHalf'
  BY <1>0, <1>m, <1>w, ContentsDiffer DEF PartHalf, PartPlace, Moves
<1>7. PartFull'
  <2> SUFFICES ASSUME NEW x \in Masters, NEW u \in Uploads, part'[x] = u, u \notin crossed
               PROVE  op'[u].pc \in PartPlaces \ {"receiving"}
    BY <1>u DEF PartFull
  <2>1. CASE u = o
    BY <1>m, <2>1 DEF Moves, PartPlaces
  <2>2. CASE u # o
    <3>1. part[x] = u
      BY <1>0, <1>w, <2>2, ContentsDiffer
    <3> QED
      BY <1>0, <1>m, <2>2, <3>1 DEF PartFull, Moves
  <2> QED
    BY <2>1, <2>2
<1>8. PartIsOwn'
  <2>1. ASSUME NEW u \in Uploads \ {o}, u \notin crossed', op[u].pc \in Waiting
        PROVE  part'[op[u].m] = part[op[u].m]
    <3>1. part[op[u].m] \in {u, Half(u)} /\ op[u].m \in Masters
      BY <1>0, <1>m, <1>u, <2>1, OwnMaster DEF PartIsOwn, HasPart, Waiting, At, Live, PartPlaces
    <3>2. part[op[u].m] # Half(o)
      BY <2>1, <3>1, ContentsDiffer
    <3> QED
      BY <1>w, <3>1, <3>2
  <2>2. HasPart(o)'
    <3>1. HasPart(o)
      BY <1>0 DEF PartIsOwn
    <3> QED
      BY <1>m, <1>u, <1>w, <1>a, <3>1 DEF HasPart, Moves, At, Keeps
  <2> QED
    BY <1>0, <1>m, <1>u, <2>1, <2>2, PartStays
<1>9. WimHalf'
  <2> SUFFICES ASSUME NEW x \in Masters, NEW u \in Uploads, wim'[x] = Half(u)
               PROVE  op'[u].kind = "direct" \/ u \in crossed
    BY <1>u DEF WimHalf
  <2>1. wim[x] = Half(u)
    BY <1>w, ContentsDiffer
  <2> QED
    BY <1>0, <1>n, <2>1 DEF WimHalf, WimPlace
<1>10. RowOf'
  BY <1>0, <1>m, <1>u, <1>v, <1>a DEF RowOf, Moves, Keeps, PartPlaces, CatPlaces, TypeOK
<1>11. MovedOwn'
  BY <1>0, <1>m, <1>u, <1>v, <1>a DEF MovedOwn, RowOf, Moves, Keeps, CatPlaces, PartPlaces,
     TypeOK
<1>12. Fresh'
  BY <1>0, <1>m, <1>r, FreshStays DEF CatPlaces
<1>13. CatalogueHeld'
  BY <1>0, <1>m, <1>u, <1>r, CatalogueStays DEF Writers
<1>14. OneRunning'
  BY <1>0, <1>u, <1>v, <1>w, RunsStay
<1>15. WillShow'
  BY <1>0, <1>m, <1>u, <1>v, <1>w, ShowStays, ContentsDiffer DEF Changing
<1> QED
  BY <1>1, <1>2, <1>3, <1>4, <1>5, <1>6, <1>7, <1>8, <1>9, <1>10, <1>11, <1>12, <1>13,
     <1>14, <1>15 DEF IInv, OpInv

LEMMA ReceiveFailsKeeps ==
  ASSUME MasterStoreAssumption, IInv, NEW o \in Uploads, ReceiveFails(o)
  PROVE  IInv'
<1>0. /\ TypeOK /\ OpShape /\ Crossing /\ PartPlace /\ WimPlace /\ PartHalf /\ PartFull /\ PartIsOwn
      /\ WimHalf /\ RowOf /\ MovedOwn /\ Fresh /\ CatalogueHeld /\ OneRunning /\ WillShow
      /\ o \in Ops /\ \A u \in Uploads : u \in Ops
  BY DEF IInv, OpInv, Ops
<1>m. Moves(o, "discarding") /\ Keeps(o) /\ op[o].pc = "receiving"
  BY <1>0, GoMoves DEF ReceiveFails, OpPlaces, PartPlaces, CatPlaces, At
<1>a. op[o].m \in Masters /\ op[o].kind = "part"
  BY <1>0, <1>m DEF OpShape, Shape, At, PartPlaces, CatPlaces
<1>n. \A u \in Uploads, x \in Masters :
        op[u].m = x => op'[u].m = x /\ op'[u].kind = op[u].kind
  BY <1>0, <1>m DEF Moves, Keeps
<1>u. UNCHANGED <<wim, part, cat, row, regen, patched, shown, moved, crossed, raced, orphaned,
     unshown>>
  BY DEF ReceiveFails, files, scripts, history
<1>r. ~Appears
  BY <1>0, <1>m, <1>u DEF Appears, Recorded, At, Moves, RowOf
<1>1. TypeOK'
  BY <1>0, <1>m, <1>u DEF TypeOK, Moves
<1>2. OpShape'
  <2>1. Shape(o)
    BY <1>0 DEF OpShape
  <2>2. Shape(o)'
    BY <1>0, <1>m, <2>1 DEF Shape, Moves, Keeps, At, PartPlaces, CatPlaces
  <2> QED
    BY <1>0, <1>m, <2>2, ShapeStays
<1>3. Crossing'
  BY <1>0, <1>m, <1>u, CrossingStays DEF Live
<1>4. PartPlace'
  BY <1>0, <1>n, <1>u DEF PartPlace
<1>5. WimPlace'
  BY <1>0, <1>n, <1>u DEF WimPlace
<1>6. PartHalf'
  BY <1>0, <1>m, <1>u DEF PartHalf, Moves
<1>7. PartFull'
  BY <1>0, <1>m, <1>u DEF PartFull, Moves, PartPlaces
<1>8. PartIsOwn'
  <2>1. HasPart(o)'
    <3>1. HasPart(o)
      BY <1>0 DEF PartIsOwn
    <3> QED
      BY <1>m, <1>u, <3>1 DEF HasPart, At, Keeps, Moves
  <2> QED
    BY <1>0, <1>m, <1>u, <2>1, PartStays
<1>9. WimHalf'
  BY <1>0, <1>n, <1>u DEF WimHalf, WimPlace
<1>10. RowOf'
  BY <1>0, <1>m, <1>u, <1>a DEF RowOf, Moves, Keeps, PartPlaces, CatPlaces
<1>11. MovedOwn'
  BY <1>0, <1>m, <1>u, <1>a DEF MovedOwn, RowOf, Moves, Keeps, CatPlaces, PartPlaces
<1>12. Fresh'
  BY <1>0, <1>m, <1>r, FreshStays DEF CatPlaces
<1>13. CatalogueHeld'
  BY <1>0, <1>m, <1>u, <1>r, CatalogueStays DEF Writers
<1>14. OneRunning'
  BY <1>0, <1>u, RunsStay
<1>15. WillShow'
  BY <1>0, <1>m, <1>u, ShowStays DEF Changing
<1> QED
  BY <1>1, <1>2, <1>3, <1>4, <1>5, <1>6, <1>7, <1>8, <1>9, <1>10, <1>11, <1>12, <1>13,
     <1>14, <1>15 DEF IInv, OpInv

LEMMA SendFailsKeeps ==
  ASSUME MasterStoreAssumption, IInv, NEW o \in Uploads, SendFails(o)
  PROVE  IInv'
<1>0. /\ TypeOK /\ OpShape /\ Crossing /\ PartPlace /\ WimPlace /\ PartHalf /\ PartFull /\ PartIsOwn
      /\ WimHalf /\ RowOf /\ MovedOwn /\ Fresh /\ CatalogueHeld /\ OneRunning /\ WillShow
      /\ o \in Ops /\ \A u \in Uploads : u \in Ops
  BY DEF IInv, OpInv, Ops
<1>m. Moves(o, "discarding") /\ Keeps(o) /\ op[o].pc = "sending"
  BY <1>0, GoMoves DEF SendFails, OpPlaces, PartPlaces, CatPlaces, At
<1>a. op[o].m \in Masters /\ op[o].kind = "part"
  BY <1>0, <1>m DEF OpShape, Shape, At, PartPlaces, CatPlaces
<1>n. \A u \in Uploads, x \in Masters :
        op[u].m = x => op'[u].m = x /\ op'[u].kind = op[u].kind
  BY <1>0, <1>m DEF Moves, Keeps
<1>u. UNCHANGED <<wim, part, cat, row, regen, patched, shown, moved, crossed, raced, unshown>>
  BY DEF SendFails, files, scripts, history
<1>v. /\ orphaned' = orphaned \cup {o}
  BY <1>0 DEF SendFails, TypeOK
<1>r. ~Appears
  BY <1>0, <1>m, <1>u, <1>v DEF Appears, Recorded, At, Moves, RowOf
<1>1. TypeOK'
  BY <1>0, <1>m, <1>u, <1>v DEF TypeOK, Moves
<1>2. OpShape'
  <2>1. Shape(o)
    BY <1>0 DEF OpShape
  <2>2. Shape(o)'
    BY <1>0, <1>m, <2>1 DEF Shape, Moves, Keeps, At, PartPlaces, CatPlaces
  <2> QED
    BY <1>0, <1>m, <2>2, ShapeStays
<1>3. Crossing'
  BY <1>0, <1>m, <1>u, CrossingStays DEF Live
<1>4. PartPlace'
  BY <1>0, <1>n, <1>u DEF PartPlace
<1>5. WimPlace'
  BY <1>0, <1>n, <1>u DEF WimPlace
<1>6. PartHalf'
  BY <1>0, <1>m, <1>u DEF PartHalf, Moves
<1>7. PartFull'
  BY <1>0, <1>m, <1>u DEF PartFull, Moves, PartPlaces
<1>8. PartIsOwn'
  <2>1. HasPart(o)'
    <3>1. HasPart(o)
      BY <1>0 DEF PartIsOwn
    <3> QED
      BY <1>m, <1>u, <3>1 DEF HasPart, At, Keeps, Moves
  <2> QED
    BY <1>0, <1>m, <1>u, <2>1, PartStays
<1>9. WimHalf'
  BY <1>0, <1>n, <1>u DEF WimHalf, WimPlace
<1>10. RowOf'
  BY <1>0, <1>m, <1>u, <1>v, <1>a DEF RowOf, Moves, Keeps, PartPlaces, CatPlaces, TypeOK
<1>11. MovedOwn'
  BY <1>0, <1>m, <1>u, <1>a DEF MovedOwn, RowOf, Moves, Keeps, CatPlaces, PartPlaces
<1>12. Fresh'
  BY <1>0, <1>m, <1>r, FreshStays DEF CatPlaces
<1>13. CatalogueHeld'
  BY <1>0, <1>m, <1>u, <1>r, CatalogueStays DEF Writers
<1>14. OneRunning'
  BY <1>0, <1>u, <1>v, RunsStay
<1>15. WillShow'
  BY <1>0, <1>m, <1>u, <1>v, ShowStays DEF Changing
<1> QED
  BY <1>1, <1>2, <1>3, <1>4, <1>5, <1>6, <1>7, <1>8, <1>9, <1>10, <1>11, <1>12, <1>13,
     <1>14, <1>15 DEF IInv, OpInv

LEMMA DiscardKeeps ==
  ASSUME MasterStoreAssumption, IInv, NEW o \in Uploads, Discard(o)
  PROVE  IInv'
<1>0. /\ TypeOK /\ OpShape /\ Crossing /\ PartPlace /\ WimPlace /\ PartHalf /\ PartFull /\ PartIsOwn
      /\ WimHalf /\ RowOf /\ MovedOwn /\ Fresh /\ CatalogueHeld /\ OneRunning /\ WillShow
      /\ o \in Ops /\ \A u \in Uploads : u \in Ops
  BY DEF IInv, OpInv, Ops
<1>m. Moves(o, "ended") /\ Keeps(o) /\ op[o].pc = "discarding"
  BY <1>0, GoMoves DEF Discard, OpPlaces, PartPlaces, CatPlaces, At
<1>a. op[o].m \in Masters /\ op[o].kind = "part"
  BY <1>0, <1>m DEF OpShape, Shape, At, PartPlaces, CatPlaces
<1>n. \A u \in Uploads, x \in Masters :
        op[u].m = x => op'[u].m = x /\ op'[u].kind = op[u].kind
  BY <1>0, <1>m DEF Moves, Keeps
<1>u. UNCHANGED <<wim, cat, row, regen, patched, shown, moved, crossed, raced, orphaned,
     unshown>>
  BY DEF Discard, files, scripts, history
<1>w. /\ part' \in [Masters -> Contents]
      /\ \A x \in Masters : part'[x] = IF x = op[o].m THEN Missing ELSE part[x]
  BY <1>0, <1>a, PutIs, ContentsAre DEF Discard, TypeOK
<1>r. ~Appears
  BY <1>0, <1>m, <1>u, <1>w DEF Appears, Recorded, At, Moves, RowOf
<1>1. TypeOK'
  BY <1>0, <1>m, <1>u, <1>w DEF TypeOK, Moves
<1>2. OpShape'
  <2>1. Shape(o)
    BY <1>0 DEF OpShape
  <2>2. Shape(o)'
    BY <1>0, <1>m, <2>1 DEF Shape, Moves, Keeps, At, PartPlaces, CatPlaces
  <2> QED
    BY <1>0, <1>m, <2>2, ShapeStays
<1>3. Crossing'
  BY <1>0, <1>m, <1>u, CrossingStays DEF Live
<1>4. PartPlace'
  BY <1>0, <1>n, <1>w, ContentsDiffer DEF PartPlace
<1>5. WimPlace'
  BY <1>0, <1>n, <1>u DEF WimPlace
<1>6. PartHalf'
  BY <1>0, <1>m, <1>w, ContentsDiffer DEF PartHalf, PartPlace, Moves
<1>7. PartFull'
  BY <1>0, <1>m, <1>u, <1>w, ContentsDiffer DEF PartFull, PartPlace, Moves, PartPlaces
<1>8. PartIsOwn'
  <2>1. ASSUME NEW u \in Uploads \ {o}, u \notin crossed', op[u].pc \in Waiting
        PROVE  part'[op[u].m] = part[op[u].m]
    <3>1. op[u].m \in Masters /\ op[u].m # op[o].m
      BY <1>0, <1>m, <1>u, <2>1, OwnMaster DEF Live, Waiting, PartPlaces
    <3> QED
      BY <1>w, <3>1
  <2>2. HasPart(o)'
    <3>1. HasPart(o)
      BY <1>0 DEF PartIsOwn
    <3> QED
      BY <1>m, <1>u, <1>w, <1>a, <3>1 DEF HasPart, Moves, At, Keeps
  <2> QED
    BY <1>0, <1>m, <1>u, <2>1, <2>2, PartStays
<1>9. WimHalf'
  BY <1>0, <1>n, <1>u DEF WimHalf, WimPlace
<1>10. RowOf'
  BY <1>0, <1>m, <1>u, <1>a DEF RowOf, Moves, Keeps, PartPlaces, CatPlaces
<1>11. MovedOwn'
  BY <1>0, <1>m, <1>u, <1>a DEF MovedOwn, RowOf, Moves, Keeps, CatPlaces, PartPlaces
<1>12. Fresh'
  BY <1>0, <1>m, <1>r, FreshStays DEF CatPlaces
<1>13. CatalogueHeld'
  BY <1>0, <1>m, <1>u, <1>r, CatalogueStays DEF Writers
<1>14. OneRunning'
  BY <1>0, <1>u, <1>w, RunsStay
<1>15. WillShow'
  BY <1>0, <1>m, <1>u, <1>w, ShowStays DEF Changing
<1> QED
  BY <1>1, <1>2, <1>3, <1>4, <1>5, <1>6, <1>7, <1>8, <1>9, <1>10, <1>11, <1>12, <1>13,
     <1>14, <1>15 DEF IInv, OpInv

LEMMA SendKeeps ==
  ASSUME MasterStoreAssumption, IInv, NEW o \in Uploads, Send(o)
  PROVE  IInv'
<1>0. /\ TypeOK /\ OpShape /\ Crossing /\ PartPlace /\ WimPlace /\ PartHalf /\ PartFull /\ PartIsOwn
      /\ WimHalf /\ RowOf /\ MovedOwn /\ Fresh /\ CatalogueHeld /\ OneRunning /\ WillShow
      /\ o \in Ops /\ \A u \in Uploads : u \in Ops
  BY DEF IInv, OpInv, Ops
<1>m. Moves(o, "queued") /\ Keeps(o) /\ op[o].pc = "sending"
  BY <1>0, GoMoves DEF Send, OpPlaces, PartPlaces, CatPlaces, At
<1>a. op[o].m \in Masters /\ op[o].kind = "part"
  BY <1>0, <1>m DEF OpShape, Shape, At, PartPlaces, CatPlaces
<1>n. \A u \in Uploads, x \in Masters :
        op[u].m = x => op'[u].m = x /\ op'[u].kind = op[u].kind
  BY <1>0, <1>m DEF Moves, Keeps
<1>u. UNCHANGED <<wim, part, cat, row, regen, patched, shown, moved, crossed, raced, orphaned,
     unshown>>
  BY DEF Send, files, scripts, history
<1>r. ~Appears
  BY <1>0, <1>m, <1>u DEF Appears, Recorded, At, Moves, RowOf
<1>1. TypeOK'
  BY <1>0, <1>m, <1>u DEF TypeOK, Moves
<1>2. OpShape'
  <2>1. Shape(o)
    BY <1>0 DEF OpShape
  <2>2. Shape(o)'
    BY <1>0, <1>m, <2>1 DEF Shape, Moves, Keeps, At, PartPlaces, CatPlaces
  <2> QED
    BY <1>0, <1>m, <2>2, ShapeStays
<1>3. Crossing'
  BY <1>0, <1>m, <1>u, CrossingStays DEF Live
<1>4. PartPlace'
  BY <1>0, <1>n, <1>u DEF PartPlace
<1>5. WimPlace'
  BY <1>0, <1>n, <1>u DEF WimPlace
<1>6. PartHalf'
  BY <1>0, <1>m, <1>u DEF PartHalf, Moves
<1>7. PartFull'
  BY <1>0, <1>m, <1>u DEF PartFull, Moves, PartPlaces
<1>8. PartIsOwn'
  <2>1. HasPart(o)'
    <3>1. HasPart(o)
      BY <1>0 DEF PartIsOwn
    <3> QED
      BY <1>m, <1>u, <3>1 DEF HasPart, At, Keeps, Moves
  <2> QED
    BY <1>0, <1>m, <1>u, <2>1, PartStays
<1>9. WimHalf'
  BY <1>0, <1>n, <1>u DEF WimHalf, WimPlace
<1>10. RowOf'
  BY <1>0, <1>m, <1>u, <1>a DEF RowOf, Moves, Keeps, PartPlaces, CatPlaces
<1>11. MovedOwn'
  BY <1>0, <1>m, <1>u, <1>a DEF MovedOwn, RowOf, Moves, Keeps, CatPlaces, PartPlaces
<1>12. Fresh'
  BY <1>0, <1>m, <1>r, FreshStays DEF CatPlaces
<1>13. CatalogueHeld'
  BY <1>0, <1>m, <1>u, <1>r, CatalogueStays DEF Writers
<1>14. OneRunning'
  BY <1>0, <1>u, RunsStay
<1>15. WillShow'
  BY <1>0, <1>m, <1>u, ShowStays DEF Changing
<1> QED
  BY <1>1, <1>2, <1>3, <1>4, <1>5, <1>6, <1>7, <1>8, <1>9, <1>10, <1>11, <1>12, <1>13,
     <1>14, <1>15 DEF IInv, OpInv

-----------------------------------------------------------------------------
(***************************************************************************)
(* Steps: upload_winpe_install_task                                        *)
(***************************************************************************)
LEMMA TaskStartsKeeps ==
  ASSUME MasterStoreAssumption, IInv, NEW o \in Uploads, TaskStarts(o)
  PROVE  IInv'
<1>0. /\ TypeOK /\ OpShape /\ Crossing /\ PartPlace /\ WimPlace /\ PartHalf /\ PartFull /\ PartIsOwn
      /\ WimHalf /\ RowOf /\ MovedOwn /\ Fresh /\ CatalogueHeld /\ OneRunning /\ WillShow
      /\ o \in Ops /\ \A u \in Uploads : u \in Ops
  BY DEF IInv, OpInv, Ops
<1>m. PICK p \in {"checking", "failing"} :
            Moves(o, p) /\ Keeps(o) /\ op[o].pc = "queued"
  BY <1>0, GoMoves DEF TaskStarts, OpPlaces, PartPlaces, CatPlaces, At
<1>a. op[o].m \in Masters /\ op[o].kind = "part"
  BY <1>0, <1>m DEF OpShape, Shape, At, PartPlaces, CatPlaces
<1>n. \A u \in Uploads, x \in Masters :
        op[u].m = x => op'[u].m = x /\ op'[u].kind = op[u].kind
  BY <1>0, <1>m DEF Moves, Keeps
<1>u. UNCHANGED <<wim, part, cat, row, regen, patched, shown, moved, crossed, raced, orphaned,
     unshown>>
  BY DEF TaskStarts, files, scripts, history
<1>r. ~Appears
  BY <1>0, <1>m, <1>u DEF Appears, Recorded, At, Moves, RowOf
<1>1. TypeOK'
  BY <1>0, <1>m, <1>u DEF TypeOK, Moves
<1>2. OpShape'
  <2>1. Shape(o)
    BY <1>0 DEF OpShape
  <2>2. Shape(o)'
    BY <1>0, <1>m, <2>1 DEF Shape, Moves, Keeps, At, PartPlaces, CatPlaces
  <2> QED
    BY <1>0, <1>m, <2>2, ShapeStays
<1>3. Crossing'
  BY <1>0, <1>m, <1>u, CrossingStays DEF Live
<1>4. PartPlace'
  BY <1>0, <1>n, <1>u DEF PartPlace
<1>5. WimPlace'
  BY <1>0, <1>n, <1>u DEF WimPlace
<1>6. PartHalf'
  BY <1>0, <1>m, <1>u DEF PartHalf, Moves
<1>7. PartFull'
  BY <1>0, <1>m, <1>u DEF PartFull, Moves, PartPlaces
<1>8. PartIsOwn'
  <2>1. HasPart(o)'
    <3>1. HasPart(o)
      BY <1>0 DEF PartIsOwn
    <3> QED
      BY <1>m, <1>u, <3>1 DEF HasPart, At, Keeps, Moves
  <2> QED
    BY <1>0, <1>m, <1>u, <2>1, PartStays
<1>9. WimHalf'
  BY <1>0, <1>n, <1>u DEF WimHalf, WimPlace
<1>10. RowOf'
  BY <1>0, <1>m, <1>u, <1>a DEF RowOf, Moves, Keeps, PartPlaces, CatPlaces
<1>11. MovedOwn'
  BY <1>0, <1>m, <1>u, <1>a DEF MovedOwn, RowOf, Moves, Keeps, CatPlaces, PartPlaces
<1>12. Fresh'
  BY <1>0, <1>m, <1>r, FreshStays DEF CatPlaces
<1>13. CatalogueHeld'
  BY <1>0, <1>m, <1>u, <1>r, CatalogueStays DEF Writers
<1>14. OneRunning'
  BY <1>0, <1>u, RunsStay
<1>15. WillShow'
  BY <1>0, <1>m, <1>u, ShowStays DEF Changing
<1> QED
  BY <1>1, <1>2, <1>3, <1>4, <1>5, <1>6, <1>7, <1>8, <1>9, <1>10, <1>11, <1>12, <1>13,
     <1>14, <1>15 DEF IInv, OpInv

LEMMA TaskChecksPartKeeps ==
  ASSUME MasterStoreAssumption, IInv, NEW o \in Uploads, TaskChecks(o),
         part[op[o].m] # Missing
  PROVE  IInv'
<1>0. /\ TypeOK /\ OpShape /\ Crossing /\ PartPlace /\ WimPlace /\ PartHalf /\ PartFull /\ PartIsOwn
      /\ WimHalf /\ RowOf /\ MovedOwn /\ Fresh /\ CatalogueHeld /\ OneRunning /\ WillShow
      /\ o \in Ops /\ \A u \in Uploads : u \in Ops
  BY DEF IInv, OpInv, Ops
<1>m. Moves(o, "moving") /\ Keeps(o) /\ op[o].pc = "checking"
  BY <1>0, GoMoves DEF TaskChecks, OpPlaces, PartPlaces, CatPlaces, At
<1>a. op[o].m \in Masters /\ op[o].kind = "part"
  BY <1>0, <1>m DEF OpShape, Shape, At, PartPlaces, CatPlaces
<1>n. \A u \in Uploads, x \in Masters :
        op[u].m = x => op'[u].m = x /\ op'[u].kind = op[u].kind
  BY <1>0, <1>m DEF Moves, Keeps
<1>u. UNCHANGED <<part, cat, row, regen, patched, shown, moved, crossed, raced, orphaned,
     unshown>>
  BY DEF TaskChecks, files, scripts, history
<1>w. /\ wim' \in [Masters -> Contents]
      /\ \A x \in Masters : wim'[x] = IF x = op[o].m THEN Missing ELSE wim[x]
  BY <1>0, <1>a, PutIs, ContentsAre DEF TaskChecks, TypeOK
<1>r. ~Appears
  BY <1>0, <1>m, <1>u, <1>w, ContentsDiffer DEF Appears, Recorded, At, Moves, RowOf
<1>1. TypeOK'
  BY <1>0, <1>m, <1>u, <1>w DEF TypeOK, Moves
<1>2. OpShape'
  <2>1. Shape(o)
    BY <1>0 DEF OpShape
  <2>2. Shape(o)'
    BY <1>0, <1>m, <2>1 DEF Shape, Moves, Keeps, At, PartPlaces, CatPlaces
  <2> QED
    BY <1>0, <1>m, <2>2, ShapeStays
<1>3. Crossing'
  BY <1>0, <1>m, <1>u, CrossingStays DEF Live
<1>4. PartPlace'
  BY <1>0, <1>n, <1>u DEF PartPlace
<1>5. WimPlace'
  BY <1>0, <1>n, <1>w, ContentsDiffer DEF WimPlace
<1>6. PartHalf'
  BY <1>0, <1>m, <1>u DEF PartHalf, Moves
<1>7. PartFull'
  BY <1>0, <1>m, <1>u DEF PartFull, Moves, PartPlaces
<1>8. PartIsOwn'
  <2>1. HasPart(o)'
    <3>1. HasPart(o)
      BY <1>0 DEF PartIsOwn
    <3> QED
      BY <1>m, <1>u, <3>1 DEF HasPart, At, Keeps, Moves
  <2> QED
    BY <1>0, <1>m, <1>u, <2>1, PartStays
<1>9. WimHalf'
  BY <1>0, <1>n, <1>u, <1>w, ContentsDiffer DEF WimHalf, WimPlace
<1>10. RowOf'
  BY <1>0, <1>m, <1>u, <1>a DEF RowOf, Moves, Keeps, PartPlaces, CatPlaces
<1>11. MovedOwn'
  BY <1>0, <1>m, <1>u, <1>a DEF MovedOwn, RowOf, Moves, Keeps, CatPlaces, PartPlaces
<1>12. Fresh'
  <2>1. ASSUME NEW w \in Ops, NEW u \in Uploads, op'[w].pc \in CatPlaces \cup {"moving", "in place"},
               u # w, (wim[op[w].m] = u)', Recorded(u)'
        PROVE  FALSE
    <3>1. CASE w = o
      BY <1>m, <1>a, <1>w, <2>1, <3>1, ContentsDiffer DEF Moves, Keeps
    <3>2. CASE w # o
      <4>1. op'[w].pc = op[w].pc /\ op'[w].m = op[w].m
        BY <1>0, <1>m, <3>2 DEF Moves
      <4>2. op[w].m \in Masters
        <5>1. op[w].kind \in {"part", "direct", "delete"}
          BY <1>0, <2>1, <4>1 DEF OpShape, Shape, CatPlaces, PartPlaces, At
        <5> QED
          BY <1>0, <5>1 DEF OpShape, Shape
      <4>3. wim[op[w].m] = u /\ Recorded(u)
        <5>1. wim'[op[w].m] = u /\ Recorded(u)'
          BY <2>1, <4>1
        <5> QED
          BY <1>r, <4>2, <5>1 DEF Appears
      <4> QED
        BY <1>0, <2>1, <4>1, <4>3 DEF Fresh
    <3> QED
      BY <3>1, <3>2
  <2> QED
    BY <2>1 DEF Fresh
<1>13. CatalogueHeld'
  BY <1>0, <1>m, <1>u, <1>r, CatalogueStays DEF Writers
<1>14. OneRunning'
  BY <1>0, <1>u, <1>w, RunsStay
<1>15. WillShow'
  BY <1>0, <1>m, ShowPending DEF Moves, Changing
<1> QED
  BY <1>1, <1>2, <1>3, <1>4, <1>5, <1>6, <1>7, <1>8, <1>9, <1>10, <1>11, <1>12, <1>13,
     <1>14, <1>15 DEF IInv, OpInv

LEMMA TaskChecksNothingKeeps ==
  ASSUME MasterStoreAssumption, IInv, NEW o \in Uploads, TaskChecks(o),
         part[op[o].m] = Missing
  PROVE  IInv'
<1>0. /\ TypeOK /\ OpShape /\ Crossing /\ PartPlace /\ WimPlace /\ PartHalf /\ PartFull /\ PartIsOwn
      /\ WimHalf /\ RowOf /\ MovedOwn /\ Fresh /\ CatalogueHeld /\ OneRunning /\ WillShow
      /\ o \in Ops /\ \A u \in Uploads : u \in Ops
  BY DEF IInv, OpInv, Ops
<1>m. Moves(o, "failing") /\ Keeps(o) /\ op[o].pc = "checking"
  BY <1>0, GoMoves DEF TaskChecks, OpPlaces, PartPlaces, CatPlaces, At
<1>a. op[o].m \in Masters /\ op[o].kind = "part"
  BY <1>0, <1>m DEF OpShape, Shape, At, PartPlaces, CatPlaces
<1>n. \A u \in Uploads, x \in Masters :
        op[u].m = x => op'[u].m = x /\ op'[u].kind = op[u].kind
  BY <1>0, <1>m DEF Moves, Keeps
<1>u. UNCHANGED <<wim, part, cat, row, regen, patched, shown, moved, crossed, raced, orphaned,
     unshown>>
  BY DEF TaskChecks, files, scripts, history
<1>r. ~Appears
  BY <1>0, <1>m, <1>u DEF Appears, Recorded, At, Moves, RowOf
<1>1. TypeOK'
  BY <1>0, <1>m, <1>u DEF TypeOK, Moves
<1>2. OpShape'
  <2>1. Shape(o)
    BY <1>0 DEF OpShape
  <2>2. Shape(o)'
    BY <1>0, <1>m, <2>1 DEF Shape, Moves, Keeps, At, PartPlaces, CatPlaces
  <2> QED
    BY <1>0, <1>m, <2>2, ShapeStays
<1>3. Crossing'
  BY <1>0, <1>m, <1>u, CrossingStays DEF Live
<1>4. PartPlace'
  BY <1>0, <1>n, <1>u DEF PartPlace
<1>5. WimPlace'
  BY <1>0, <1>n, <1>u DEF WimPlace
<1>6. PartHalf'
  BY <1>0, <1>m, <1>u DEF PartHalf, Moves
<1>7. PartFull'
  BY <1>0, <1>m, <1>u DEF PartFull, Moves, PartPlaces
<1>8. PartIsOwn'
  <2>1. HasPart(o)'
    <3>1. HasPart(o)
      BY <1>0 DEF PartIsOwn
    <3> QED
      BY <1>m, <1>u, <3>1 DEF HasPart, At, Keeps, Moves
  <2> QED
    BY <1>0, <1>m, <1>u, <2>1, PartStays
<1>9. WimHalf'
  BY <1>0, <1>n, <1>u DEF WimHalf, WimPlace
<1>10. RowOf'
  BY <1>0, <1>m, <1>u, <1>a DEF RowOf, Moves, Keeps, PartPlaces, CatPlaces
<1>11. MovedOwn'
  BY <1>0, <1>m, <1>u, <1>a DEF MovedOwn, RowOf, Moves, Keeps, CatPlaces, PartPlaces
<1>12. Fresh'
  BY <1>0, <1>m, <1>r, FreshStays DEF CatPlaces
<1>13. CatalogueHeld'
  BY <1>0, <1>m, <1>u, <1>r, CatalogueStays DEF Writers
<1>14. OneRunning'
  BY <1>0, <1>u, RunsStay
<1>15. WillShow'
  BY <1>0, <1>m, <1>u, ShowStays DEF Changing
<1> QED
  BY <1>1, <1>2, <1>3, <1>4, <1>5, <1>6, <1>7, <1>8, <1>9, <1>10, <1>11, <1>12, <1>13,
     <1>14, <1>15 DEF IInv, OpInv

LEMMA TaskMovesPartKeeps ==
  ASSUME MasterStoreAssumption, IInv, NEW o \in Uploads, TaskMoves(o),
         part[op[o].m] # Missing
  PROVE  IInv'
<1>0. /\ TypeOK /\ OpShape /\ Crossing /\ PartPlace /\ WimPlace /\ PartHalf /\ PartFull /\ PartIsOwn
      /\ WimHalf /\ RowOf /\ MovedOwn /\ Fresh /\ CatalogueHeld /\ OneRunning /\ WillShow
      /\ o \in Ops /\ \A u \in Uploads : u \in Ops
  BY DEF IInv, OpInv, Ops
<1>m. Moves(o, "reading") /\ Keeps(o) /\ op[o].pc = "moving"
  BY <1>0, GoMoves DEF TaskMoves, OpPlaces, PartPlaces, CatPlaces, At
<1>a. op[o].m \in Masters /\ op[o].kind = "part"
  BY <1>0, <1>m DEF OpShape, Shape, At, PartPlaces, CatPlaces
<1>n. \A u \in Uploads, x \in Masters :
        op[u].m = x => op'[u].m = x /\ op'[u].kind = op[u].kind
  BY <1>0, <1>m DEF Moves, Keeps
<1>u. UNCHANGED <<cat, row, regen, patched, shown, crossed, raced, orphaned, unshown>>
  BY DEF TaskMoves, files, scripts, history
<1>v. /\ moved' = [moved EXCEPT ![o] = part[op[o].m]]
  BY <1>0 DEF TaskMoves, TypeOK
<1>w. /\ wim' \in [Masters -> Contents]
      /\ \A x \in Masters : wim'[x] = IF x = op[o].m THEN part[op[o].m] ELSE wim[x]
      /\ part' \in [Masters -> Contents]
      /\ \A x \in Masters : part'[x] = IF x = op[o].m THEN Missing ELSE part[x]
  <2>1. /\ wim' = [wim EXCEPT ![op[o].m] = part[op[o].m]]
        /\ part' = [part EXCEPT ![op[o].m] = Missing]
    BY DEF TaskMoves
  <2> QED
    BY <1>0, <1>a, <2>1, PutIs, ContentsAre DEF TypeOK
<1>r. ~Appears
  <2>1. ASSUME NEW x \in Masters, NEW u \in Uploads, wim'[x] = u, wim[x] # u, Recorded(u)'
        PROVE  FALSE
    <3>1. x = op[o].m /\ part[x] = u
      BY <1>w, <2>1
    <3>2. u \notin crossed /\ row[u] = row'[u]
      BY <1>u, <2>1 DEF Recorded
    <3>3. op[u].pc \in PartPlaces
      BY <1>0, <3>1, <3>2 DEF PartFull
    <3>4. op'[u].pc # "committing" /\ row[u] # "done"
      BY <1>0, <1>m, <3>3 DEF RowOf, Moves, PartPlaces
    <3> QED
      BY <2>1, <3>2, <3>4 DEF Recorded, At
  <2>2. ASSUME NEW u \in Uploads, Recorded(u)' PROVE Recorded(u)
    BY <1>0, <1>m, <1>u, <2>2 DEF Recorded, Moves, At
  <2> QED
    BY <2>1, <2>2 DEF Appears
<1>1. TypeOK'
  <2>1. part[op[o].m] \in Contents
    BY <1>0, <1>a DEF TypeOK
  <2>2. moved' \in [Uploads -> Contents]
    BY <1>0, <1>v, <2>1 DEF TypeOK
  <2> QED
    BY <1>0, <1>m, <1>u, <1>w, <2>2 DEF TypeOK, Moves
<1>2. OpShape'
  <2>1. Shape(o)
    BY <1>0 DEF OpShape
  <2>2. Shape(o)'
    BY <1>0, <1>m, <2>1 DEF Shape, Moves, Keeps, At, PartPlaces, CatPlaces
  <2> QED
    BY <1>0, <1>m, <2>2, ShapeStays
<1>3. Crossing'
  BY <1>0, <1>m, <1>u, CrossingStays DEF Live
<1>4. PartPlace'
  BY <1>0, <1>n, <1>w, ContentsDiffer DEF PartPlace
<1>5. WimPlace'
  BY <1>0, <1>n, <1>w, ContentsDiffer DEF WimPlace, PartPlace
<1>6. PartHalf'
  BY <1>0, <1>m, <1>w, ContentsDiffer DEF PartHalf, PartPlace, Moves
<1>7. PartFull'
  <2> SUFFICES ASSUME NEW x \in Masters, NEW u \in Uploads, part'[x] = u, u \notin crossed
               PROVE  op'[u].pc \in PartPlaces \ {"receiving"}
    BY <1>u DEF PartFull
  <2>1. CASE u = o
    <3>1. x # op[o].m /\ part[x] = o
      BY <1>0, <1>w, <2>1, ContentsDiffer
    <3> QED
      BY <1>0, <2>1, <3>1 DEF PartPlace
  <2>2. CASE u # o
    <3>1. part[x] = u
      BY <1>0, <1>w, <2>2, ContentsDiffer
    <3> QED
      BY <1>0, <1>m, <2>2, <3>1 DEF PartFull, Moves
  <2> QED
    BY <2>1, <2>2
<1>8. PartIsOwn'
  <2>1. ASSUME NEW u \in Uploads \ {o}, u \notin crossed', op[u].pc \in Waiting
        PROVE  part'[op[u].m] = part[op[u].m]
    <3>1. op[u].m \in Masters /\ op[u].m # op[o].m
      BY <1>0, <1>m, <1>u, <2>1, OwnMaster DEF Live, Waiting, PartPlaces
    <3> QED
      BY <1>w, <3>1
  <2>2. HasPart(o)'
    <3>1. HasPart(o)
      BY <1>0 DEF PartIsOwn
    <3> QED
      BY <1>m, <1>u, <1>w, <1>a, <3>1 DEF HasPart, Moves, At, Keeps
  <2> QED
    BY <1>0, <1>m, <1>u, <2>1, <2>2, PartStays
<1>9. WimHalf'
  <2>1. ASSUME NEW x \in Masters, NEW u \in Uploads, wim'[x] = Half(u), x = op[o].m
        PROVE  u \in crossed
    <3>1. part[x] = Half(u) /\ op[u].m = x
      BY <1>0, <1>w, <2>1 DEF PartPlace
    <3>2. op[u].pc \in {"receiving", "discarding"}
      BY <1>0, <3>1 DEF PartHalf
    <3>3. u # o /\ Live(u) /\ Live(o) /\ op[u].m # NoMaster
      BY <1>m, <2>1, <3>1, <3>2, ContentsDiffer DEF Live
    <3> QED
      BY <1>0, <2>1, <3>1, <3>3 DEF Crossing
  <2>2. ASSUME NEW x \in Masters, NEW u \in Uploads, wim'[x] = Half(u), x # op[o].m
        PROVE  op'[u].kind = "direct" \/ u \in crossed
    BY <1>0, <1>m, <1>w, <2>2 DEF WimHalf, Moves, Keeps
  <2> QED
    BY <1>u, <2>1, <2>2 DEF WimHalf
<1>10. RowOf'
  BY <1>0, <1>m, <1>u, <1>a DEF RowOf, Moves, Keeps, PartPlaces, CatPlaces
<1>11. MovedOwn'
  <2>1. o \notin crossed => part[op[o].m] = o
    BY <1>0, <1>m DEF PartIsOwn, HasPart
  <2>2. moved'[o] = part[op[o].m] /\ \A u \in Uploads \ {o} : moved'[u] = moved[u]
    BY <1>0, <1>v DEF TypeOK
  <2> QED
    BY <1>0, <1>m, <1>u, <2>1, <2>2 DEF MovedOwn, Moves, Keeps
<1>12. Fresh'
  BY <1>0, <1>m, <1>r, FreshStays DEF CatPlaces
<1>13. CatalogueHeld'
  BY <1>0, <1>m, <1>u, <1>r, CatalogueStays DEF Writers
<1>14. OneRunning'
  BY <1>0, <1>u, <1>v, <1>w, RunsStay
<1>15. WillShow'
  BY <1>0, <1>m, ShowPending DEF Moves, Changing
<1> QED
  BY <1>1, <1>2, <1>3, <1>4, <1>5, <1>6, <1>7, <1>8, <1>9, <1>10, <1>11, <1>12, <1>13,
     <1>14, <1>15 DEF IInv, OpInv

LEMMA TaskMovesNothingKeeps ==
  ASSUME MasterStoreAssumption, IInv, NEW o \in Uploads, TaskMoves(o),
         part[op[o].m] = Missing
  PROVE  IInv'
<1>0. /\ TypeOK /\ OpShape /\ Crossing /\ PartPlace /\ WimPlace /\ PartHalf /\ PartFull /\ PartIsOwn
      /\ WimHalf /\ RowOf /\ MovedOwn /\ Fresh /\ CatalogueHeld /\ OneRunning /\ WillShow
      /\ o \in Ops /\ \A u \in Uploads : u \in Ops
  BY DEF IInv, OpInv, Ops
<1>m. Moves(o, "failing") /\ Keeps(o) /\ op[o].pc = "moving"
  BY <1>0, GoMoves DEF TaskMoves, OpPlaces, PartPlaces, CatPlaces, At
<1>a. op[o].m \in Masters /\ op[o].kind = "part"
  BY <1>0, <1>m DEF OpShape, Shape, At, PartPlaces, CatPlaces
<1>n. \A u \in Uploads, x \in Masters :
        op[u].m = x => op'[u].m = x /\ op'[u].kind = op[u].kind
  BY <1>0, <1>m DEF Moves, Keeps
<1>u. UNCHANGED <<wim, part, cat, row, regen, patched, shown, moved, crossed, raced, orphaned>>
  BY DEF TaskMoves, files, scripts, history
<1>v. /\ unshown' = TRUE
  BY <1>0 DEF TaskMoves, TypeOK
<1>r. ~Appears
  BY <1>0, <1>m, <1>u, <1>v DEF Appears, Recorded, At, Moves, RowOf
<1>1. TypeOK'
  BY <1>0, <1>m, <1>u, <1>v DEF TypeOK, Moves
<1>2. OpShape'
  <2>1. Shape(o)
    BY <1>0 DEF OpShape
  <2>2. Shape(o)'
    BY <1>0, <1>m, <2>1 DEF Shape, Moves, Keeps, At, PartPlaces, CatPlaces
  <2> QED
    BY <1>0, <1>m, <2>2, ShapeStays
<1>3. Crossing'
  BY <1>0, <1>m, <1>u, CrossingStays DEF Live
<1>4. PartPlace'
  BY <1>0, <1>n, <1>u DEF PartPlace
<1>5. WimPlace'
  BY <1>0, <1>n, <1>u DEF WimPlace
<1>6. PartHalf'
  BY <1>0, <1>m, <1>u DEF PartHalf, Moves
<1>7. PartFull'
  BY <1>0, <1>m, <1>u DEF PartFull, Moves, PartPlaces
<1>8. PartIsOwn'
  <2>1. HasPart(o)'
    <3>1. HasPart(o)
      BY <1>0 DEF PartIsOwn
    <3> QED
      BY <1>m, <1>u, <3>1 DEF HasPart, At, Keeps, Moves
  <2> QED
    BY <1>0, <1>m, <1>u, <2>1, PartStays
<1>9. WimHalf'
  BY <1>0, <1>n, <1>u DEF WimHalf, WimPlace
<1>10. RowOf'
  BY <1>0, <1>m, <1>u, <1>a DEF RowOf, Moves, Keeps, PartPlaces, CatPlaces
<1>11. MovedOwn'
  BY <1>0, <1>m, <1>u, <1>a DEF MovedOwn, RowOf, Moves, Keeps, CatPlaces, PartPlaces
<1>12. Fresh'
  BY <1>0, <1>m, <1>r, FreshStays DEF CatPlaces
<1>13. CatalogueHeld'
  BY <1>0, <1>m, <1>u, <1>r, CatalogueStays DEF Writers
<1>14. OneRunning'
  BY <1>0, <1>u, <1>v, RunsStay
<1>15. WillShow'
  BY <1>v DEF WillShow
<1> QED
  BY <1>1, <1>2, <1>3, <1>4, <1>5, <1>6, <1>7, <1>8, <1>9, <1>10, <1>11, <1>12, <1>13,
     <1>14, <1>15 DEF IInv, OpInv

LEMMA TaskFailsKeeps ==
  ASSUME MasterStoreAssumption, IInv, NEW o \in Uploads, TaskFails(o)
  PROVE  IInv'
<1>0. /\ TypeOK /\ OpShape /\ Crossing /\ PartPlace /\ WimPlace /\ PartHalf /\ PartFull /\ PartIsOwn
      /\ WimHalf /\ RowOf /\ MovedOwn /\ Fresh /\ CatalogueHeld /\ OneRunning /\ WillShow
      /\ o \in Ops /\ \A u \in Uploads : u \in Ops
  BY DEF IInv, OpInv, Ops
<1>m. Moves(o, "ended") /\ Keeps(o) /\ op[o].pc = "failing"
  BY <1>0, GoMoves DEF TaskFails, OpPlaces, PartPlaces, CatPlaces, At
<1>a. op[o].m \in Masters /\ op[o].kind = "part"
  BY <1>0, <1>m DEF OpShape, Shape, At, PartPlaces, CatPlaces
<1>n. \A u \in Uploads, x \in Masters :
        op[u].m = x => op'[u].m = x /\ op'[u].kind = op[u].kind
  BY <1>0, <1>m DEF Moves, Keeps
<1>u. UNCHANGED <<wim, cat, regen, patched, shown, moved, crossed, raced>>
  BY DEF TaskFails, files, scripts, history
<1>v. /\ unshown' = (unshown \/ moved[o] # Missing)
      /\ \/ row' = [row EXCEPT ![o] = "error"] /\ orphaned' = orphaned
         \/ row' = row /\ orphaned' = orphaned \cup {o}
  BY <1>0 DEF TaskFails, TypeOK
<1>w. /\ part' \in [Masters -> Contents]
      /\ \A x \in Masters : part'[x] = IF x = op[o].m THEN Missing ELSE part[x]
  BY <1>0, <1>a, PutIs, ContentsAre DEF TaskFails, TypeOK
<1>r. ~Appears
  BY <1>0, <1>m, <1>u, <1>v, <1>w DEF Appears, Recorded, At, Moves, RowOf, TypeOK
<1>1. TypeOK'
  BY <1>0, <1>m, <1>u, <1>v, <1>w DEF TypeOK, Moves
<1>2. OpShape'
  <2>1. Shape(o)
    BY <1>0 DEF OpShape
  <2>2. Shape(o)'
    BY <1>0, <1>m, <2>1 DEF Shape, Moves, Keeps, At, PartPlaces, CatPlaces
  <2> QED
    BY <1>0, <1>m, <2>2, ShapeStays
<1>3. Crossing'
  BY <1>0, <1>m, <1>u, CrossingStays DEF Live
<1>4. PartPlace'
  BY <1>0, <1>n, <1>w, ContentsDiffer DEF PartPlace
<1>5. WimPlace'
  BY <1>0, <1>n, <1>u DEF WimPlace
<1>6. PartHalf'
  BY <1>0, <1>m, <1>w, ContentsDiffer DEF PartHalf, PartPlace, Moves
<1>7. PartFull'
  BY <1>0, <1>m, <1>u, <1>w, ContentsDiffer DEF PartFull, PartPlace, Moves, PartPlaces
<1>8. PartIsOwn'
  <2>1. ASSUME NEW u \in Uploads \ {o}, u \notin crossed', op[u].pc \in Waiting
        PROVE  part'[op[u].m] = part[op[u].m]
    <3>1. op[u].m \in Masters /\ op[u].m # op[o].m
      BY <1>0, <1>m, <1>u, <2>1, OwnMaster DEF Live, Waiting, PartPlaces
    <3> QED
      BY <1>w, <3>1
  <2>2. HasPart(o)'
    <3>1. HasPart(o)
      BY <1>0 DEF PartIsOwn
    <3> QED
      BY <1>m, <1>u, <1>w, <1>a, <3>1 DEF HasPart, Moves, At, Keeps
  <2> QED
    BY <1>0, <1>m, <1>u, <2>1, <2>2, PartStays
<1>9. WimHalf'
  BY <1>0, <1>n, <1>u DEF WimHalf, WimPlace
<1>10. RowOf'
  <2>1. ASSUME NEW u \in Uploads \ {o} PROVE row'[u] = row[u] /\ op'[u] = op[u]
    BY <1>0, <1>m, <1>v DEF TypeOK, Moves
  <2>2. row'[o] \in {"error", row[o]} /\ (row'[o] = "error" \/ o \in orphaned') /\ row[o] # "done"
    BY <1>0, <1>m, <1>v DEF TypeOK, RowOf
  <2>3. \A u \in Uploads : u \in orphaned => u \in orphaned'
    BY <1>v
  <2> QED
    BY <1>0, <1>m, <2>1, <2>2, <2>3 DEF RowOf, Moves
<1>11. MovedOwn'
  BY <1>0, <1>m, <1>u, <1>v, <1>a DEF MovedOwn, RowOf, Moves, Keeps, CatPlaces, PartPlaces,
     TypeOK
<1>12. Fresh'
  BY <1>0, <1>m, <1>r, FreshStays DEF CatPlaces
<1>13. CatalogueHeld'
  BY <1>0, <1>m, <1>u, <1>r, CatalogueStays DEF Writers
<1>14. OneRunning'
  BY <1>0, <1>u, <1>v, <1>w, RunsStay
<1>15. WillShow'
  BY <1>0, <1>m, <1>u, <1>v, <1>w, ShowStays DEF Changing
<1> QED
  BY <1>1, <1>2, <1>3, <1>4, <1>5, <1>6, <1>7, <1>8, <1>9, <1>10, <1>11, <1>12, <1>13,
     <1>14, <1>15 DEF IInv, OpInv

-----------------------------------------------------------------------------
(***************************************************************************)
(* Steps: uploads in place                                                 *)
(***************************************************************************)
LEMMA OpenInPlaceKeeps ==
  ASSUME MasterStoreAssumption, IInv, NEW o \in Uploads, NEW m \in Masters, OpenInPlace(o, m)
  PROVE  IInv'
<1>0. /\ TypeOK /\ OpShape /\ Crossing /\ PartPlace /\ WimPlace /\ PartHalf /\ PartFull /\ PartIsOwn
      /\ WimHalf /\ RowOf /\ MovedOwn /\ Fresh /\ CatalogueHeld /\ OneRunning /\ WillShow
      /\ o \in Ops /\ \A u \in Uploads : u \in Ops
  BY DEF IInv, OpInv, Ops
<1>b. Begin(o, "direct", m, "in place")
  BY DEF OpenInPlace
<1>m. /\ Moves(o, "in place") /\ op'[o].kind = "direct" /\ op'[o].m = m
      /\ op[o].pc = "idle" /\ crossed \subseteq crossed'
      /\ \A x \in Ops : Live(x) /\ op[x].m = m => x \in crossed' /\ o \in crossed'
  BY <1>0, <1>b, BeginMoves, BeginCrosses DEF OpPlaces, PartPlaces, CatPlaces, At
<1>a. op[o].m \notin Masters /\ op[o].kind = "none"
  BY <1>0, <1>m DEF OpShape, Shape, At
<1>n. \A u \in Uploads, x \in Masters :
        op[u].m = x => op'[u].m = x /\ op'[u].kind = op[u].kind
  BY <1>0, <1>m, <1>a DEF Moves
<1>u. UNCHANGED <<part, cat, row, regen, patched, shown, moved, raced, orphaned, unshown>>
  BY DEF OpenInPlace, files, scripts, history
<1>o. PICK c \in {Half(o), Garbage} : wim' = [wim EXCEPT ![m] = c]
  BY DEF OpenInPlace, Opened, Half
<1>w. /\ wim' \in [Masters -> Contents]
      /\ \A x \in Masters : wim'[x] = IF x = m THEN c ELSE wim[x]
  BY <1>0, <1>o, PutIs, ContentsAre DEF TypeOK
<1>e. \A u \in Uploads : u # c /\ (Half(u) = c => u = o)
  BY ContentsDiffer
<1>r. ~Appears
  <2>1. ASSUME NEW u \in Uploads, Recorded(u)' PROVE Recorded(u)
    BY <1>0, <1>m, <1>u, <2>1 DEF Recorded, At, Moves
  <2> QED
    BY <1>w, <1>e, <2>1 DEF Appears
<1>1. TypeOK'
  BY <1>0, <1>m, <1>u, <1>w DEF TypeOK, Moves
<1>2. OpShape'
  BY <1>0, <1>m, ShapeStays DEF Shape, Moves, At, PartPlaces, CatPlaces
<1>3. Crossing'
  BY <1>0, <1>b, BeginCrosses DEF OpPlaces, PartPlaces, CatPlaces
<1>4. PartPlace'
  BY <1>0, <1>n, <1>u, <1>a DEF PartPlace
<1>5. WimPlace'
  <2> SUFFICES ASSUME NEW x \in Masters, NEW u \in Uploads, wim'[x] \in {u, Half(u)}
               PROVE  op'[u].m = x
    BY DEF WimPlace
  <2>1. CASE x = m
    BY <1>m, <1>w, <1>e, <2>1
  <2>2. CASE ~(x = m)
    BY <1>0, <1>n, <1>w, <2>2 DEF WimPlace
  <2> QED
    BY <2>1, <2>2
<1>6. PartHalf'
  BY <1>0, <1>m, <1>u DEF PartHalf, Moves
<1>7. PartFull'
  <2>1. ASSUME NEW x \in Masters, NEW u \in Uploads, part[x] = u, u \notin crossed
        PROVE  op'[u].pc \in PartPlaces \ {"receiving"}
    <3>1. op[u].m = x /\ op[u].pc \in PartPlaces \ {"receiving"}
      BY <1>0, <2>1 DEF PartPlace, PartFull
    <3> QED
      BY <1>0, <1>m, <1>a, <3>1 DEF Moves
  <2> QED
    BY <1>m, <1>u, <2>1 DEF PartFull
<1>8. PartIsOwn'
  <2>1. ASSUME NEW u \in Uploads \ {o}, u \notin crossed', op[u].pc \in Waiting
        PROVE  part'[op[u].m] = part[op[u].m]
    <3>1. op[u].m \in Masters /\ Live(u)
      BY <1>0, <2>1 DEF OpShape, Shape, PartPlaces, Live, Waiting
    <3> QED
      BY <1>0, <1>m, <1>u, <2>1, <3>1
  <2>2. HasPart(o)'
    BY <1>0, <1>m, <1>u, <1>a DEF PartIsOwn, HasPart, Moves, At
  <2> QED
    BY <1>0, <1>m, <2>1, <2>2, PartStays
<1>9. WimHalf'
  <2> SUFFICES ASSUME NEW x \in Masters, NEW u \in Uploads, wim'[x] = Half(u)
               PROVE  op'[u].kind = "direct" \/ u \in crossed'
    BY DEF WimHalf
  <2>1. CASE x = m
    BY <1>m, <1>w, <1>e, <2>1
  <2>2. CASE ~(x = m)
    <3>1. wim[x] = Half(u)
      BY <1>w, <2>2
    <3>2. op[u].m = x /\ (op[u].kind = "direct" \/ u \in crossed)
      BY <1>0, <3>1 DEF WimPlace, WimHalf
    <3> QED
      BY <1>m, <1>n, <3>2
  <2> QED
    BY <2>1, <2>2
<1>10. RowOf'
  BY <1>0, <1>m, <1>u, <1>a DEF RowOf, Moves, Keeps, PartPlaces, CatPlaces
<1>11. MovedOwn'
  BY <1>0, <1>m, <1>u, <1>a DEF MovedOwn, RowOf, Moves, Keeps, CatPlaces, PartPlaces
<1>12. Fresh'
  <2>1. ASSUME NEW w \in Ops, NEW u \in Uploads, op'[w].pc \in CatPlaces \cup {"moving", "in place"},
               u # w, (wim[op[w].m] = u)', Recorded(u)'
        PROVE  FALSE
    <3>1. CASE w = o
      BY <1>m, <1>o, <1>w, <2>1, <3>1, ContentsDiffer DEF Moves
    <3>2. CASE w # o
      <4>1. op'[w].pc = op[w].pc /\ op'[w].m = op[w].m
        BY <1>0, <1>m, <3>2 DEF Moves
      <4>2. op[w].m \in Masters
        <5>1. op[w].kind \in {"part", "direct", "delete"}
          BY <1>0, <2>1, <4>1 DEF OpShape, Shape, CatPlaces, PartPlaces, At
        <5> QED
          BY <1>0, <5>1 DEF OpShape, Shape
      <4>3. wim[op[w].m] = u /\ Recorded(u)
        <5>1. wim'[op[w].m] = u /\ Recorded(u)'
          BY <2>1, <4>1
        <5> QED
          BY <1>r, <4>2, <5>1 DEF Appears
      <4> QED
        BY <1>0, <2>1, <4>1, <4>3 DEF Fresh
    <3> QED
      BY <3>1, <3>2
  <2> QED
    BY <2>1 DEF Fresh
<1>13. CatalogueHeld'
  BY <1>0, <1>m, <1>u, <1>r, CatalogueStays DEF Writers
<1>14. OneRunning'
  BY <1>0, <1>u, <1>w, RunsStay
<1>15. WillShow'
  BY <1>0, <1>m, ShowPending DEF Moves, Changing
<1> QED
  BY <1>1, <1>2, <1>3, <1>4, <1>5, <1>6, <1>7, <1>8, <1>9, <1>10, <1>11, <1>12, <1>13,
     <1>14, <1>15 DEF IInv, OpInv

LEMMA WrittenInPlaceKeeps ==
  ASSUME MasterStoreAssumption, IInv, NEW o \in Uploads, WrittenInPlace(o)
  PROVE  IInv'
<1>0. /\ TypeOK /\ OpShape /\ Crossing /\ PartPlace /\ WimPlace /\ PartHalf /\ PartFull /\ PartIsOwn
      /\ WimHalf /\ RowOf /\ MovedOwn /\ Fresh /\ CatalogueHeld /\ OneRunning /\ WillShow
      /\ o \in Ops /\ \A u \in Uploads : u \in Ops
  BY DEF IInv, OpInv, Ops
<1>m. Moves(o, "reading") /\ Keeps(o) /\ op[o].pc = "in place"
  BY <1>0, GoMoves DEF WrittenInPlace, OpPlaces, PartPlaces, CatPlaces, At
<1>a. op[o].m \in Masters /\ op[o].kind = "direct"
  BY <1>0, <1>m DEF OpShape, Shape, At, PartPlaces, CatPlaces
<1>n. \A u \in Uploads, x \in Masters :
        op[u].m = x => op'[u].m = x /\ op'[u].kind = op[u].kind
  BY <1>0, <1>m DEF Moves, Keeps
<1>u. UNCHANGED <<part, cat, row, regen, patched, shown, moved, crossed, raced, orphaned,
     unshown>>
  BY DEF WrittenInPlace, files, scripts, history
<1>w. /\ wim' \in [Masters -> Contents]
      /\ \A x \in Masters : wim'[x] = IF wim[x] = Half(o) THEN o ELSE wim[x]
  <2>1. wim' = Closed(wim, o)
    BY DEF WrittenInPlace
  <2>2. wim \in [Masters -> Contents]
    BY <1>0 DEF TypeOK
  <2> QED
    BY <2>1, <2>2, ClosedIs
<1>r. ~Appears
  <2>1. ASSUME NEW u \in Uploads, Recorded(u)' PROVE Recorded(u) /\ u # o
    BY <1>0, <1>m, <1>u, <2>1 DEF Recorded, At, Moves, RowOf
  <2> QED
    BY <1>w, <2>1 DEF Appears
<1>1. TypeOK'
  BY <1>0, <1>m, <1>u, <1>w DEF TypeOK, Moves
<1>2. OpShape'
  <2>1. Shape(o)
    BY <1>0 DEF OpShape
  <2>2. Shape(o)'
    BY <1>0, <1>m, <2>1 DEF Shape, Moves, Keeps, At, PartPlaces, CatPlaces
  <2> QED
    BY <1>0, <1>m, <2>2, ShapeStays
<1>3. Crossing'
  BY <1>0, <1>m, <1>u, CrossingStays DEF Live
<1>4. PartPlace'
  BY <1>0, <1>n, <1>u DEF PartPlace
<1>5. WimPlace'
  BY <1>0, <1>n, <1>w, ContentsDiffer DEF WimPlace
<1>6. PartHalf'
  BY <1>0, <1>m, <1>u DEF PartHalf, Moves
<1>7. PartFull'
  BY <1>0, <1>m, <1>u DEF PartFull, Moves, PartPlaces
<1>8. PartIsOwn'
  <2>1. HasPart(o)'
    <3>1. HasPart(o)
      BY <1>0 DEF PartIsOwn
    <3> QED
      BY <1>m, <1>u, <3>1 DEF HasPart, At, Keeps, Moves
  <2> QED
    BY <1>0, <1>m, <1>u, <2>1, PartStays
<1>9. WimHalf'
  <2> SUFFICES ASSUME NEW x \in Masters, NEW u \in Uploads, wim'[x] = Half(u)
               PROVE  op'[u].kind = "direct" \/ u \in crossed
    BY <1>u DEF WimHalf
  <2>1. wim[x] = Half(u)
    BY <1>w, ContentsDiffer
  <2> QED
    BY <1>0, <1>n, <2>1 DEF WimHalf, WimPlace
<1>10. RowOf'
  BY <1>0, <1>m, <1>u, <1>a DEF RowOf, Moves, Keeps, PartPlaces, CatPlaces
<1>11. MovedOwn'
  BY <1>0, <1>m, <1>u, <1>a DEF MovedOwn, RowOf, Moves, Keeps, CatPlaces, PartPlaces
<1>12. Fresh'
  BY <1>0, <1>m, <1>r, FreshStays DEF CatPlaces
<1>13. CatalogueHeld'
  BY <1>0, <1>m, <1>u, <1>r, CatalogueStays DEF Writers
<1>14. OneRunning'
  BY <1>0, <1>u, <1>w, RunsStay
<1>15. WillShow'
  BY <1>0, <1>m, ShowPending DEF Moves, Changing
<1> QED
  BY <1>1, <1>2, <1>3, <1>4, <1>5, <1>6, <1>7, <1>8, <1>9, <1>10, <1>11, <1>12, <1>13,
     <1>14, <1>15 DEF IInv, OpInv

LEMMA BrokenInPlaceKeeps ==
  ASSUME MasterStoreAssumption, IInv, NEW o \in Uploads, BrokenInPlace(o)
  PROVE  IInv'
<1>0. /\ TypeOK /\ OpShape /\ Crossing /\ PartPlace /\ WimPlace /\ PartHalf /\ PartFull /\ PartIsOwn
      /\ WimHalf /\ RowOf /\ MovedOwn /\ Fresh /\ CatalogueHeld /\ OneRunning /\ WillShow
      /\ o \in Ops /\ \A u \in Uploads : u \in Ops
  BY DEF IInv, OpInv, Ops
<1>m. Moves(o, "ended") /\ Keeps(o) /\ op[o].pc = "in place"
  BY <1>0, GoMoves DEF BrokenInPlace, OpPlaces, PartPlaces, CatPlaces, At
<1>a. op[o].m \in Masters /\ op[o].kind = "direct"
  BY <1>0, <1>m DEF OpShape, Shape, At, PartPlaces, CatPlaces
<1>n. \A u \in Uploads, x \in Masters :
        op[u].m = x => op'[u].m = x /\ op'[u].kind = op[u].kind
  BY <1>0, <1>m DEF Moves, Keeps
<1>u. UNCHANGED <<wim, part, cat, row, regen, patched, shown, moved, crossed, raced, orphaned>>
  BY DEF BrokenInPlace, files, scripts, history
<1>v. /\ unshown' = TRUE
  BY <1>0 DEF BrokenInPlace, TypeOK
<1>r. ~Appears
  BY <1>0, <1>m, <1>u, <1>v DEF Appears, Recorded, At, Moves, RowOf
<1>1. TypeOK'
  BY <1>0, <1>m, <1>u, <1>v DEF TypeOK, Moves
<1>2. OpShape'
  <2>1. Shape(o)
    BY <1>0 DEF OpShape
  <2>2. Shape(o)'
    BY <1>0, <1>m, <2>1 DEF Shape, Moves, Keeps, At, PartPlaces, CatPlaces
  <2> QED
    BY <1>0, <1>m, <2>2, ShapeStays
<1>3. Crossing'
  BY <1>0, <1>m, <1>u, CrossingStays DEF Live
<1>4. PartPlace'
  BY <1>0, <1>n, <1>u DEF PartPlace
<1>5. WimPlace'
  BY <1>0, <1>n, <1>u DEF WimPlace
<1>6. PartHalf'
  BY <1>0, <1>m, <1>u DEF PartHalf, Moves
<1>7. PartFull'
  BY <1>0, <1>m, <1>u DEF PartFull, Moves, PartPlaces
<1>8. PartIsOwn'
  <2>1. HasPart(o)'
    <3>1. HasPart(o)
      BY <1>0 DEF PartIsOwn
    <3> QED
      BY <1>m, <1>u, <3>1 DEF HasPart, At, Keeps, Moves
  <2> QED
    BY <1>0, <1>m, <1>u, <2>1, PartStays
<1>9. WimHalf'
  BY <1>0, <1>n, <1>u DEF WimHalf, WimPlace
<1>10. RowOf'
  BY <1>0, <1>m, <1>u, <1>a DEF RowOf, Moves, Keeps, PartPlaces, CatPlaces
<1>11. MovedOwn'
  BY <1>0, <1>m, <1>u, <1>a DEF MovedOwn, RowOf, Moves, Keeps, CatPlaces, PartPlaces
<1>12. Fresh'
  BY <1>0, <1>m, <1>r, FreshStays DEF CatPlaces
<1>13. CatalogueHeld'
  BY <1>0, <1>m, <1>u, <1>r, CatalogueStays DEF Writers
<1>14. OneRunning'
  BY <1>0, <1>u, <1>v, RunsStay
<1>15. WillShow'
  BY <1>v DEF WillShow
<1> QED
  BY <1>1, <1>2, <1>3, <1>4, <1>5, <1>6, <1>7, <1>8, <1>9, <1>10, <1>11, <1>12, <1>13,
     <1>14, <1>15 DEF IInv, OpInv

-----------------------------------------------------------------------------
(***************************************************************************)
(* Steps: delete_master and requests                                       *)
(***************************************************************************)
LEMMA DeleteKeeps ==
  ASSUME MasterStoreAssumption, IInv, NEW o \in Others, NEW m \in Masters, Delete(o, m)
  PROVE  IInv'
<1>0. /\ TypeOK /\ OpShape /\ Crossing /\ PartPlace /\ WimPlace /\ PartHalf /\ PartFull /\ PartIsOwn
      /\ WimHalf /\ RowOf /\ MovedOwn /\ Fresh /\ CatalogueHeld /\ OneRunning /\ WillShow
      /\ o \in Ops /\ \A u \in Uploads : u \in Ops
  BY DEF IInv, OpInv, Ops
<1>b. Begin(o, "delete", m, "reading")
  BY DEF Delete
<1>m. /\ Moves(o, "reading") /\ op'[o].kind = "delete" /\ op'[o].m = m
      /\ op[o].pc = "idle" /\ crossed \subseteq crossed'
      /\ \A x \in Ops : Live(x) /\ op[x].m = m => x \in crossed' /\ o \in crossed'
  BY <1>0, <1>b, BeginMoves, BeginCrosses DEF OpPlaces, PartPlaces, CatPlaces, At
<1>a. op[o].m \notin Masters /\ op[o].kind = "none"
  BY <1>0, <1>m DEF OpShape, Shape, At
<1>n. \A u \in Uploads, x \in Masters :
        op[u].m = x => op'[u].m = x /\ op'[u].kind = op[u].kind
  BY <1>0, <1>m, <1>a DEF Moves
<1>u. UNCHANGED <<cat, row, regen, patched, shown, moved, raced, orphaned, unshown>>
  BY DEF Delete, files, scripts, history
<1>w. /\ wim' \in [Masters -> Contents]
      /\ \A x \in Masters : wim'[x] = IF x = m THEN Missing ELSE wim[x]
      /\ part' \in [Masters -> Contents]
      /\ \A x \in Masters : part'[x] = IF x = m THEN Missing ELSE part[x]
  BY <1>0, PutIs, ContentsAre DEF Delete, TypeOK
<1>r. ~Appears
  <2>1. ASSUME NEW u \in Uploads, Recorded(u)' PROVE Recorded(u)
    BY <1>0, <1>m, <1>u, <2>1 DEF Recorded, At, Moves
  <2> QED
    BY <1>w, <2>1, ContentsDiffer DEF Appears
<1>1. TypeOK'
  BY <1>0, <1>m, <1>u, <1>w DEF TypeOK, Moves
<1>2. OpShape'
  BY <1>0, <1>m, ShapeStays DEF Shape, Moves, At, PartPlaces, CatPlaces
<1>3. Crossing'
  BY <1>0, <1>b, BeginCrosses DEF OpPlaces, PartPlaces, CatPlaces
<1>4. PartPlace'
  BY <1>0, <1>n, <1>m, <1>w, <1>a, ContentsDiffer DEF PartPlace
<1>5. WimPlace'
  BY <1>0, <1>n, <1>m, <1>w, <1>a, ContentsDiffer DEF WimPlace
<1>6. PartHalf'
  <2> SUFFICES ASSUME NEW x \in Masters, NEW u \in Uploads, part'[x] = Half(u)
               PROVE  op'[u].pc \in {"receiving", "discarding"}
    BY DEF PartHalf
  <2>1. CASE x = m
    BY <1>w, <2>1, ContentsDiffer
  <2>2. CASE ~(x = m)
    <3>1. part[x] = Half(u)
      BY <1>w, <2>2
    <3>2. op[u].pc \in {"receiving", "discarding"}
      BY <1>0, <3>1 DEF PartHalf
    <3> QED
      BY <1>0, <1>m, <3>2 DEF Moves
  <2> QED
    BY <2>1, <2>2
<1>7. PartFull'
  BY <1>0, <1>m, <1>w, <1>a, ContentsDiffer DEF PartFull, PartPlace, Moves, PartPlaces
<1>8. PartIsOwn'
  <2>1. ASSUME NEW u \in Uploads \ {o}, u \notin crossed', op[u].pc \in Waiting
        PROVE  part'[op[u].m] = part[op[u].m]
    <3>1. op[u].m \in Masters /\ Live(u)
      BY <1>0, <2>1 DEF OpShape, Shape, PartPlaces, Live, Waiting
    <3> QED
      BY <1>0, <1>m, <1>w, <2>1, <3>1
  <2> QED
    BY <1>0, <1>m, <2>1, PartStays DEF Ops, MasterStoreAssumption
<1>9. WimHalf'
  BY <1>0, <1>n, <1>m, <1>w, <1>a, ContentsDiffer DEF WimHalf, WimPlace
<1>10. RowOf'
  BY <1>0, <1>m, <1>u, <1>a DEF RowOf, Moves, Keeps, PartPlaces, CatPlaces
<1>11. MovedOwn'
  BY <1>0, <1>m, <1>u, <1>a DEF MovedOwn, RowOf, Moves, Keeps, CatPlaces, PartPlaces
<1>12. Fresh'
  <2>1. ASSUME NEW w \in Ops, NEW u \in Uploads, op'[w].pc \in CatPlaces \cup {"moving", "in place"},
               u # w, (wim[op[w].m] = u)', Recorded(u)'
        PROVE  FALSE
    <3>1. CASE w = o
      BY <1>m, <1>w, <2>1, <3>1, ContentsDiffer DEF Moves
    <3>2. CASE w # o
      <4>1. op'[w].pc = op[w].pc /\ op'[w].m = op[w].m
        BY <1>0, <1>m, <3>2 DEF Moves
      <4>2. op[w].m \in Masters
        <5>1. op[w].kind \in {"part", "direct", "delete"}
          BY <1>0, <2>1, <4>1 DEF OpShape, Shape, CatPlaces, PartPlaces, At
        <5> QED
          BY <1>0, <5>1 DEF OpShape, Shape
      <4>3. wim[op[w].m] = u /\ Recorded(u)
        <5>1. wim'[op[w].m] = u /\ Recorded(u)'
          BY <2>1, <4>1
        <5> QED
          BY <1>r, <4>2, <5>1 DEF Appears
      <4> QED
        BY <1>0, <2>1, <4>1, <4>3 DEF Fresh
    <3> QED
      BY <3>1, <3>2
  <2> QED
    BY <2>1 DEF Fresh
<1>13. CatalogueHeld'
  BY <1>0, <1>m, <1>u, <1>r, CatalogueStays DEF Writers
<1>14. OneRunning'
  BY <1>0, <1>u, <1>w, RunsStay
<1>15. WillShow'
  BY <1>0, <1>m, ShowPending DEF Moves, Changing
<1> QED
  BY <1>1, <1>2, <1>3, <1>4, <1>5, <1>6, <1>7, <1>8, <1>9, <1>10, <1>11, <1>12, <1>13,
     <1>14, <1>15 DEF IInv, OpInv

LEMMA AskKeeps ==
  ASSUME MasterStoreAssumption, IInv, NEW o \in Others, Ask(o)
  PROVE  IInv'
<1>0. /\ TypeOK /\ OpShape /\ Crossing /\ PartPlace /\ WimPlace /\ PartHalf /\ PartFull /\ PartIsOwn
      /\ WimHalf /\ RowOf /\ MovedOwn /\ Fresh /\ CatalogueHeld /\ OneRunning /\ WillShow
      /\ o \in Ops /\ \A u \in Uploads : u \in Ops
  BY DEF IInv, OpInv, Ops
<1>m. Moves(o, "regenerating") /\ op'[o].kind = "ask" /\ op'[o].m = NoMaster /\ op[o].pc = "idle"
  BY <1>0, AskMoves DEF Ask, At
<1>a. op[o].m \notin Masters /\ op[o].kind = "none"
  BY <1>0, <1>m DEF OpShape, Shape, At
<1>n. \A u \in Uploads, x \in Masters :
        op[u].m = x => op'[u].m = x /\ op'[u].kind = op[u].kind
  BY <1>0, <1>m, <1>a DEF Moves
<1>u. UNCHANGED <<wim, part, cat, row, regen, shown, moved, crossed, raced, orphaned, unshown>>
  BY DEF Ask, files, scripts, history
<1>v. /\ patched' = FALSE
  BY <1>0 DEF Ask, TypeOK
<1>r. ~Appears
  BY <1>0, <1>m, <1>u, <1>v DEF Appears, Recorded, At, Moves, RowOf
<1>1. TypeOK'
  BY <1>0, <1>m, <1>u, <1>v DEF TypeOK, Moves
<1>2. OpShape'
  BY <1>0, <1>m, ContentsDiffer, ShapeStays DEF Shape, Moves, At, PartPlaces, CatPlaces
<1>3. Crossing'
  BY <1>0, <1>m, <1>u, CrossingStays DEF Live
<1>4. PartPlace'
  BY <1>0, <1>n, <1>u, <1>a, ContentsDiffer DEF PartPlace
<1>5. WimPlace'
  BY <1>0, <1>n, <1>u, <1>a, ContentsDiffer DEF WimPlace
<1>6. PartHalf'
  BY <1>0, <1>m, <1>u DEF PartHalf, Moves
<1>7. PartFull'
  BY <1>0, <1>m, <1>u, <1>a DEF PartFull, Moves, PartPlaces
<1>8. PartIsOwn'
  BY <1>0, <1>m, <1>u, PartStays DEF MasterStoreAssumption
<1>9. WimHalf'
  BY <1>0, <1>n, <1>u, <1>a DEF WimHalf, WimPlace
<1>10. RowOf'
  BY <1>0, <1>m, <1>u, <1>a DEF RowOf, Moves, Keeps, PartPlaces, CatPlaces
<1>11. MovedOwn'
  BY <1>0, <1>m, <1>u, <1>a DEF MovedOwn, RowOf, Moves, Keeps, CatPlaces, PartPlaces
<1>12. Fresh'
  <2>1. ASSUME NEW w \in Ops, NEW u \in Uploads, op'[w].pc \in CatPlaces \cup {"moving", "in place"},
               u # w, (wim[op[w].m] = u)', Recorded(u)'
        PROVE  FALSE
    <3>1. CASE w = o
      BY <1>m, <2>1, <3>1 DEF Moves, CatPlaces
    <3>2. CASE w # o
      <4>1. op'[w].pc = op[w].pc /\ op'[w].m = op[w].m
        BY <1>0, <1>m, <3>2 DEF Moves
      <4>2. op[w].m \in Masters
        <5>1. op[w].kind \in {"part", "direct", "delete"}
          BY <1>0, <2>1, <4>1 DEF OpShape, Shape, CatPlaces, PartPlaces, At
        <5> QED
          BY <1>0, <5>1 DEF OpShape, Shape
      <4>3. wim[op[w].m] = u /\ Recorded(u)
        <5>1. wim'[op[w].m] = u /\ Recorded(u)'
          BY <2>1, <4>1
        <5> QED
          BY <1>r, <4>2, <5>1 DEF Appears
      <4> QED
        BY <1>0, <2>1, <4>1, <4>3 DEF Fresh
    <3> QED
      BY <3>1, <3>2
  <2> QED
    BY <2>1 DEF Fresh
<1>13. CatalogueHeld'
  BY <1>0, <1>m, <1>u, <1>r, CatalogueStays DEF Writers
<1>14. OneRunning'
  BY <1>0, <1>u, <1>v, RunsStay
<1>15. WillShow'
  BY <1>0, <1>m, ShowPending DEF Moves, Changing
<1> QED
  BY <1>1, <1>2, <1>3, <1>4, <1>5, <1>6, <1>7, <1>8, <1>9, <1>10, <1>11, <1>12, <1>13,
     <1>14, <1>15 DEF IInv, OpInv

-----------------------------------------------------------------------------
(***************************************************************************)
(* Steps: the catalogue                                                    *)
(***************************************************************************)
LEMMA ReadCatalogueKeeps ==
  ASSUME MasterStoreAssumption, IInv, NEW o \in Ops, ReadCatalogue(o)
  PROVE  IInv'
<1>0. /\ TypeOK /\ OpShape /\ Crossing /\ PartPlace /\ WimPlace /\ PartHalf /\ PartFull /\ PartIsOwn
      /\ WimHalf /\ RowOf /\ MovedOwn /\ Fresh /\ CatalogueHeld /\ OneRunning /\ WillShow
      /\ o \in Ops /\ \A u \in Uploads : u \in Ops
  BY DEF IInv, OpInv, Ops
<1>l. Loaded \in [Masters -> Entries]
  BY <1>0, IdleOpIsTyped DEF Loaded, TypeOK
<1>c. Changed(o, Loaded) \in [Masters -> Entries]
  <2>1. op[o].kind # "delete" => o \in Entries
    BY <1>0 DEF ReadCatalogue, At, OpShape, Shape, CatPlaces, Entries
  <2>2. NoEntry \in Entries
    BY DEF Entries
  <2>3. ASSUME NEW e \in Entries PROVE [Loaded EXCEPT ![op[o].m] = e] \in [Masters -> Entries]
    BY <1>l
  <2> QED
    BY <2>1, <2>2, <2>3 DEF Changed
<1>m. /\ Moves(o, "truncating") /\ Keeps(o) /\ op[o].pc = "reading"
      /\ op'[o].seen = Changed(o, Loaded)
  BY <1>0, <1>c, SeenMoves DEF ReadCatalogue, OpPlaces, CatPlaces, At
<1>a. op[o].m \in Masters
  BY <1>0, <1>m DEF OpShape, Shape, At, PartPlaces, CatPlaces
<1>n. \A u \in Uploads, x \in Masters :
        op[u].m = x => op'[u].m = x /\ op'[u].kind = op[u].kind
  BY <1>0, <1>m DEF Moves, Keeps
<1>u. UNCHANGED <<wim, part, cat, row, regen, patched, shown, moved, crossed, orphaned,
     unshown>>
  BY DEF ReadCatalogue, files, scripts, history
<1>v. /\ raced' = (raced \/ Writers # {})
  BY <1>0 DEF ReadCatalogue, TypeOK
<1>r. ~Appears
  BY <1>0, <1>m, <1>u, <1>v DEF Appears, Recorded, At, Moves, RowOf
<1>1. TypeOK'
  BY <1>0, <1>m, <1>u, <1>v DEF TypeOK, Moves
<1>2. OpShape'
  <2>1. Shape(o)
    BY <1>0 DEF OpShape
  <2>2. Shape(o)'
    BY <1>0, <1>m, <2>1 DEF Shape, Moves, Keeps, At, PartPlaces, CatPlaces
  <2> QED
    BY <1>0, <1>m, <2>2, ShapeStays
<1>3. Crossing'
  BY <1>0, <1>m, <1>u, CrossingStays DEF Live
<1>4. PartPlace'
  BY <1>0, <1>n, <1>u DEF PartPlace
<1>5. WimPlace'
  BY <1>0, <1>n, <1>u DEF WimPlace
<1>6. PartHalf'
  BY <1>0, <1>m, <1>u DEF PartHalf, Moves
<1>7. PartFull'
  BY <1>0, <1>m, <1>u DEF PartFull, Moves, PartPlaces
<1>8. PartIsOwn'
  <2>1. o \in Uploads => HasPart(o)'
    <3>1. o \in Uploads => HasPart(o)
      BY <1>0 DEF PartIsOwn
    <3> QED
      BY <1>m, <1>u, <3>1 DEF HasPart, At, Keeps, Moves
  <2> QED
    BY <1>0, <1>m, <1>u, <2>1, PartStays
<1>9. WimHalf'
  BY <1>0, <1>n, <1>u DEF WimHalf, WimPlace
<1>10. RowOf'
  BY <1>0, <1>m, <1>u, <1>a DEF RowOf, Moves, Keeps, PartPlaces, CatPlaces
<1>11. MovedOwn'
  BY <1>0, <1>m, <1>u, <1>a DEF MovedOwn, RowOf, Moves, Keeps, CatPlaces, PartPlaces
<1>12. Fresh'
  BY <1>0, <1>m, <1>r, FreshStays DEF CatPlaces
<1>13. CatalogueHeld'
  <2> SUFFICES ASSUME ~raced, Writers = {} PROVE CatalogueHeld'
    BY <1>v DEF CatalogueHeld
  <2>1. cat # Torn /\ Matches(cat) /\ Loaded = cat
    BY <1>0 DEF CatalogueHeld, Loaded
  <2>2. Writers' = {o}
    BY <1>0, <1>m DEF Writers, Moves
  <2>3. /\ \A x \in Masters \ {op[o].m} : op'[o].seen[x] = cat[x]
        /\ op[o].kind # "delete" => op'[o].seen[op[o].m] = o
    BY <1>a, <1>l, <1>m, <2>1 DEF Changed
  <2>4. ASSUME NEW x \in Masters, NEW u \in Uploads, wim[x] = u, Recorded(u)
        PROVE  op'[o].seen[x] = u
    <3>1. u # o
      BY <1>0, <1>m, <2>4 DEF Recorded, At, RowOf
    <3>2. x # op[o].m
      BY <1>0, <1>m, <2>4, <3>1 DEF Fresh, CatPlaces
    <3> QED
      BY <2>1, <2>3, <2>4, <3>2 DEF Matches
  <2>5. Matches(op[o].seen)'
    <3>1. ASSUME NEW u \in Uploads, Recorded(u)' PROVE Recorded(u)
      BY <1>0, <1>m, <1>u, <3>1 DEF Recorded, At, Moves
    <3> QED
      BY <1>u, <2>4, <3>1 DEF Matches
  <2> QED
    BY <1>m, <2>2, <2>3, <2>5 DEF CatalogueHeld, At, Moves, Keeps
<1>14. OneRunning'
  BY <1>0, <1>u, <1>v, RunsStay
<1>15. WillShow'
  BY <1>0, <1>m, ShowPending DEF Moves, Changing
<1> QED
  BY <1>1, <1>2, <1>3, <1>4, <1>5, <1>6, <1>7, <1>8, <1>9, <1>10, <1>11, <1>12, <1>13,
     <1>14, <1>15 DEF IInv, OpInv

LEMMA TruncateCatalogueKeeps ==
  ASSUME MasterStoreAssumption, IInv, NEW o \in Ops, TruncateCatalogue(o)
  PROVE  IInv'
<1>0. /\ TypeOK /\ OpShape /\ Crossing /\ PartPlace /\ WimPlace /\ PartHalf /\ PartFull /\ PartIsOwn
      /\ WimHalf /\ RowOf /\ MovedOwn /\ Fresh /\ CatalogueHeld /\ OneRunning /\ WillShow
      /\ o \in Ops /\ \A u \in Uploads : u \in Ops
  BY DEF IInv, OpInv, Ops
<1>m. Moves(o, "writing catalogue") /\ Keeps(o) /\ op[o].pc = "truncating"
  BY <1>0, GoMoves DEF TruncateCatalogue, OpPlaces, PartPlaces, CatPlaces, At
<1>a. op[o].m \in Masters
  BY <1>0, <1>m DEF OpShape, Shape, At, PartPlaces, CatPlaces
<1>n. \A u \in Uploads, x \in Masters :
        op[u].m = x => op'[u].m = x /\ op'[u].kind = op[u].kind
  BY <1>0, <1>m DEF Moves, Keeps
<1>u. UNCHANGED <<wim, part, row, regen, patched, shown, moved, crossed, raced, orphaned,
     unshown>>
  BY DEF TruncateCatalogue, files, scripts, history
<1>v. /\ cat' = Torn
  BY <1>0 DEF TruncateCatalogue, TypeOK
<1>s. op'[o].seen = op[o].seen
  BY <1>0, GoMoves DEF TruncateCatalogue, OpPlaces, CatPlaces
<1>r. ~Appears
  BY <1>0, <1>m, <1>u, <1>v DEF Appears, Recorded, At, Moves, RowOf
<1>1. TypeOK'
  BY <1>0, <1>m, <1>u, <1>v DEF TypeOK, Moves
<1>2. OpShape'
  <2>1. Shape(o)
    BY <1>0 DEF OpShape
  <2>2. Shape(o)'
    BY <1>0, <1>m, <2>1 DEF Shape, Moves, Keeps, At, PartPlaces, CatPlaces
  <2> QED
    BY <1>0, <1>m, <2>2, ShapeStays
<1>3. Crossing'
  BY <1>0, <1>m, <1>u, CrossingStays DEF Live
<1>4. PartPlace'
  BY <1>0, <1>n, <1>u DEF PartPlace
<1>5. WimPlace'
  BY <1>0, <1>n, <1>u DEF WimPlace
<1>6. PartHalf'
  BY <1>0, <1>m, <1>u DEF PartHalf, Moves
<1>7. PartFull'
  BY <1>0, <1>m, <1>u DEF PartFull, Moves, PartPlaces
<1>8. PartIsOwn'
  <2>1. o \in Uploads => HasPart(o)'
    <3>1. o \in Uploads => HasPart(o)
      BY <1>0 DEF PartIsOwn
    <3> QED
      BY <1>m, <1>u, <3>1 DEF HasPart, At, Keeps, Moves
  <2> QED
    BY <1>0, <1>m, <1>u, <2>1, PartStays
<1>9. WimHalf'
  BY <1>0, <1>n, <1>u DEF WimHalf, WimPlace
<1>10. RowOf'
  BY <1>0, <1>m, <1>u, <1>a DEF RowOf, Moves, Keeps, PartPlaces, CatPlaces
<1>11. MovedOwn'
  BY <1>0, <1>m, <1>u, <1>a DEF MovedOwn, RowOf, Moves, Keeps, CatPlaces, PartPlaces
<1>12. Fresh'
  BY <1>0, <1>m, <1>r, FreshStays DEF CatPlaces
<1>13. CatalogueHeld'
  <2> SUFFICES ASSUME ~raced PROVE CatalogueHeld'
    BY <1>u DEF CatalogueHeld
  <2>1. /\ o \in Writers /\ \A w \in Writers : w = o
        /\ Matches(op[o].seen)
        /\ op[o].kind # "delete" => op[o].seen[op[o].m] = o
    BY <1>0, <1>m DEF CatalogueHeld, Writers
  <2>2. Writers' = {o}
    BY <1>0, <1>m, <2>1 DEF Writers, Moves
  <2>3. op'[o].seen = op[o].seen
    BY <1>s
  <2>4. Matches(op[o].seen)'
    BY <1>r, <2>1, <2>3 DEF Matches, Appears
  <2> QED
    BY <1>m, <1>v, <2>1, <2>2, <2>3, <2>4 DEF CatalogueHeld, At, Moves, Keeps
<1>14. OneRunning'
  BY <1>0, <1>u, <1>v, RunsStay
<1>15. WillShow'
  BY <1>0, <1>m, ShowPending DEF Moves, Changing
<1> QED
  BY <1>1, <1>2, <1>3, <1>4, <1>5, <1>6, <1>7, <1>8, <1>9, <1>10, <1>11, <1>12, <1>13,
     <1>14, <1>15 DEF IInv, OpInv

LEMMA WriteCatalogueKeeps ==
  ASSUME MasterStoreAssumption, IInv, NEW o \in Ops, WriteCatalogue(o)
  PROVE  IInv'
<1>0. /\ TypeOK /\ OpShape /\ Crossing /\ PartPlace /\ WimPlace /\ PartHalf /\ PartFull /\ PartIsOwn
      /\ WimHalf /\ RowOf /\ MovedOwn /\ Fresh /\ CatalogueHeld /\ OneRunning /\ WillShow
      /\ o \in Ops /\ \A u \in Uploads : u \in Ops
  BY DEF IInv, OpInv, Ops
<1>m. PICK p \in {"regenerating", "committing"} :
            Moves(o, p) /\ Keeps(o) /\ op[o].pc = "writing catalogue"
            /\ (p = "committing" <=> op[o].kind # "delete")
  BY <1>0, SeenMoves, IdleOpIsTyped DEF WriteCatalogue, OpPlaces, PartPlaces, CatPlaces, At
<1>a. op[o].m \in Masters
  BY <1>0, <1>m DEF OpShape, Shape, At, PartPlaces, CatPlaces
<1>n. \A u \in Uploads, x \in Masters :
        op[u].m = x => op'[u].m = x /\ op'[u].kind = op[u].kind
  BY <1>0, <1>m DEF Moves, Keeps
<1>u. UNCHANGED <<wim, part, row, regen, patched, shown, moved, crossed, raced, orphaned,
     unshown>>
  BY DEF WriteCatalogue, files, scripts, history
<1>v. /\ cat' \in {op[o].seen, Torn}
      /\ cat # Torn \/ cat' = op[o].seen
  BY <1>0 DEF WriteCatalogue, TypeOK
<1>1. TypeOK'
  <2>1. op[o].seen \in [Masters -> Entries]
    BY <1>0 DEF TypeOK, OpState
  <2> QED
    BY <1>0, <1>m, <1>u, <1>v, <2>1 DEF TypeOK, Moves
<1>2. OpShape'
  <2>1. Shape(o)
    BY <1>0 DEF OpShape
  <2>2. Shape(o)'
    BY <1>0, <1>m, <2>1 DEF Shape, Moves, Keeps, At, PartPlaces, CatPlaces
  <2> QED
    BY <1>0, <1>m, <2>2, ShapeStays
<1>3. Crossing'
  BY <1>0, <1>m, <1>u, CrossingStays DEF Live
<1>4. PartPlace'
  BY <1>0, <1>n, <1>u DEF PartPlace
<1>5. WimPlace'
  BY <1>0, <1>n, <1>u DEF WimPlace
<1>6. PartHalf'
  BY <1>0, <1>m, <1>u DEF PartHalf, Moves
<1>7. PartFull'
  BY <1>0, <1>m, <1>u DEF PartFull, Moves, PartPlaces
<1>8. PartIsOwn'
  <2>1. o \in Uploads => HasPart(o)'
    <3>1. o \in Uploads => HasPart(o)
      BY <1>0 DEF PartIsOwn
    <3> QED
      BY <1>m, <1>u, <3>1 DEF HasPart, At, Keeps, Moves
  <2> QED
    BY <1>0, <1>m, <1>u, <2>1, PartStays
<1>9. WimHalf'
  BY <1>0, <1>n, <1>u DEF WimHalf, WimPlace
<1>10. RowOf'
  BY <1>0, <1>m, <1>u, <1>a DEF RowOf, Moves, Keeps, PartPlaces, CatPlaces
<1>11. MovedOwn'
  BY <1>0, <1>m, <1>u, <1>a DEF MovedOwn, RowOf, Moves, Keeps, CatPlaces, PartPlaces
<1>12. Fresh'
  <2>1. ASSUME NEW w \in Ops, NEW u \in Uploads, op'[w].pc \in CatPlaces \cup {"moving", "in place"},
               u # w, (wim[op[w].m] = u)', Recorded(u)'
        PROVE  FALSE
    <3>1. /\ op'[w] = op[w] /\ w # o /\ wim[op[w].m] = u /\ u \notin crossed
          /\ op[w].pc \in CatPlaces \cup {"moving", "in place"}
      BY <1>0, <1>m, <1>u, <2>1 DEF Moves, CatPlaces, Recorded
    <3>2. op[w].m \in Masters
      <4>1. op[w].kind \in {"part", "direct", "delete"}
        BY <1>0, <3>1 DEF OpShape, Shape, CatPlaces, PartPlaces, At
      <4> QED
        BY <1>0, <4>1 DEF OpShape, Shape
    <3>3. CASE u = o
      <4>1. op[o].m = op[w].m /\ op[o].m # NoMaster
        <5>1. o \in Uploads /\ wim[op[w].m] = o
          BY <3>1, <3>3
        <5> QED
          BY <1>0, <3>2, <5>1, ContentsDiffer DEF WimPlace
      <4>2. Live(o) /\ Live(w)
        BY <1>m, <3>1 DEF Live, CatPlaces
      <4> QED
        BY <1>0, <3>1, <3>3, <4>1, <4>2 DEF Crossing
    <3>4. CASE u # o
      <4>1. Recorded(u)
        BY <1>0, <1>m, <1>u, <2>1, <3>4 DEF Recorded, At, Moves
      <4> QED
        BY <1>0, <2>1, <3>1, <4>1 DEF Fresh
    <3> QED
      BY <3>3, <3>4
  <2> QED
    BY <2>1 DEF Fresh
<1>13. CatalogueHeld'
  <2> SUFFICES ASSUME ~raced PROVE CatalogueHeld'
    BY <1>u DEF CatalogueHeld
  <2>1. /\ \A w \in Writers : w = o
        /\ Matches(op[o].seen) /\ cat = Torn
        /\ op[o].kind # "delete" => op[o].seen[op[o].m] = o
    BY <1>0, <1>m DEF CatalogueHeld, Writers, At
  <2>2. Writers' = {}
    BY <1>m, <2>1 DEF Writers, Moves
  <2>3. cat' = op[o].seen /\ cat' # Torn
    BY <1>0, <1>v, <2>1, ContentsDiffer DEF TypeOK, OpState
  <2>4. ASSUME NEW x \in Masters, NEW u \in Uploads, wim[x] = u, Recorded(u)'
        PROVE  op[o].seen[x] = u
    <3>1. CASE u = o
      <4>1. op[o].kind # "delete"
        <5>1. row[o] # "done" /\ row' = row
          BY <1>0, <1>m, <1>u, <3>1 DEF RowOf
        <5>2. op'[o].pc = "committing"
          BY <2>4, <3>1, <5>1 DEF Recorded, At
        <5> QED
          BY <1>m, <5>2 DEF Moves
      <4>2. op[o].m = x
        BY <1>0, <2>4, <3>1 DEF WimPlace
      <4> QED
        BY <2>1, <3>1, <4>1, <4>2
    <3>2. CASE u # o
      <4>1. Recorded(u)
        BY <1>0, <1>m, <1>u, <2>4, <3>2 DEF Recorded, At, Moves
      <4> QED
        BY <2>1, <2>4, <4>1 DEF Matches
    <3> QED
      BY <3>1, <3>2
  <2>5. Matches(cat)'
    BY <1>u, <2>3, <2>4 DEF Matches
  <2> QED
    BY <2>2, <2>3, <2>5 DEF CatalogueHeld
<1>14. OneRunning'
  BY <1>0, <1>u, <1>v, RunsStay
<1>15. WillShow'
  BY <1>0, <1>m, ShowPending DEF Moves, Changing
<1> QED
  BY <1>1, <1>2, <1>3, <1>4, <1>5, <1>6, <1>7, <1>8, <1>9, <1>10, <1>11, <1>12, <1>13,
     <1>14, <1>15 DEF IInv, OpInv

LEMMA WriteCatalogueFailsKeeps ==
  ASSUME MasterStoreAssumption, IInv, NEW o \in Ops, WriteCatalogueFails(o)
  PROVE  IInv'
<1>0. /\ TypeOK /\ OpShape /\ Crossing /\ PartPlace /\ WimPlace /\ PartHalf /\ PartFull /\ PartIsOwn
      /\ WimHalf /\ RowOf /\ MovedOwn /\ Fresh /\ CatalogueHeld /\ OneRunning /\ WillShow
      /\ o \in Ops /\ \A u \in Uploads : u \in Ops
  BY DEF IInv, OpInv, Ops
<1>m. PICK p \in {"failing", "ended"} :
            Moves(o, p) /\ Keeps(o) /\ op[o].pc = "writing catalogue"
            /\ (p = "failing" <=> op[o].kind = "part")
  BY <1>0, SeenMoves, IdleOpIsTyped DEF WriteCatalogueFails, OpPlaces, PartPlaces, CatPlaces, At
<1>a. op[o].m \in Masters
  BY <1>0, <1>m DEF OpShape, Shape, At, PartPlaces, CatPlaces
<1>n. \A u \in Uploads, x \in Masters :
        op[u].m = x => op'[u].m = x /\ op'[u].kind = op[u].kind
  BY <1>0, <1>m DEF Moves, Keeps
<1>u. UNCHANGED <<wim, part, row, regen, patched, shown, moved, crossed, orphaned>>
  BY DEF WriteCatalogueFails, files, scripts, history
<1>v. /\ cat' = Torn
      /\ raced' = TRUE
      /\ unshown' = TRUE
  BY <1>0 DEF WriteCatalogueFails, TypeOK
<1>r. ~Appears
  BY <1>0, <1>m, <1>u, <1>v DEF Appears, Recorded, At, Moves, RowOf
<1>1. TypeOK'
  BY <1>0, <1>m, <1>u, <1>v DEF TypeOK, Moves
<1>2. OpShape'
  <2>1. Shape(o)
    BY <1>0 DEF OpShape
  <2>2. Shape(o)'
    BY <1>0, <1>m, <2>1 DEF Shape, Moves, Keeps, At, PartPlaces, CatPlaces
  <2> QED
    BY <1>0, <1>m, <2>2, ShapeStays
<1>3. Crossing'
  BY <1>0, <1>m, <1>u, CrossingStays DEF Live
<1>4. PartPlace'
  BY <1>0, <1>n, <1>u DEF PartPlace
<1>5. WimPlace'
  BY <1>0, <1>n, <1>u DEF WimPlace
<1>6. PartHalf'
  BY <1>0, <1>m, <1>u DEF PartHalf, Moves
<1>7. PartFull'
  BY <1>0, <1>m, <1>u DEF PartFull, Moves, PartPlaces
<1>8. PartIsOwn'
  <2>1. o \in Uploads => HasPart(o)'
    <3>1. o \in Uploads => HasPart(o)
      BY <1>0 DEF PartIsOwn
    <3> QED
      BY <1>m, <1>u, <3>1 DEF HasPart, At, Keeps, Moves
  <2> QED
    BY <1>0, <1>m, <1>u, <2>1, PartStays
<1>9. WimHalf'
  BY <1>0, <1>n, <1>u DEF WimHalf, WimPlace
<1>10. RowOf'
  BY <1>0, <1>m, <1>u, <1>a DEF RowOf, Moves, Keeps, PartPlaces, CatPlaces
<1>11. MovedOwn'
  BY <1>0, <1>m, <1>u, <1>a DEF MovedOwn, RowOf, Moves, Keeps, CatPlaces, PartPlaces
<1>12. Fresh'
  BY <1>0, <1>m, <1>r, FreshStays DEF CatPlaces
<1>13. CatalogueHeld'
  BY <1>v DEF CatalogueHeld
<1>14. OneRunning'
  BY <1>0, <1>u, <1>v, RunsStay
<1>15. WillShow'
  BY <1>v DEF WillShow
<1> QED
  BY <1>1, <1>2, <1>3, <1>4, <1>5, <1>6, <1>7, <1>8, <1>9, <1>10, <1>11, <1>12, <1>13,
     <1>14, <1>15 DEF IInv, OpInv

-----------------------------------------------------------------------------
(***************************************************************************)
(* Steps: the end                                                          *)
(***************************************************************************)
LEMMA CommitDoneKeeps ==
  ASSUME MasterStoreAssumption, IInv, NEW o \in Uploads, CommitDone(o)
  PROVE  IInv'
<1>0. /\ TypeOK /\ OpShape /\ Crossing /\ PartPlace /\ WimPlace /\ PartHalf /\ PartFull /\ PartIsOwn
      /\ WimHalf /\ RowOf /\ MovedOwn /\ Fresh /\ CatalogueHeld /\ OneRunning /\ WillShow
      /\ o \in Ops /\ \A u \in Uploads : u \in Ops
  BY DEF IInv, OpInv, Ops
<1>m. Moves(o, "regenerating") /\ Keeps(o) /\ op[o].pc = "committing"
  BY <1>0, GoMoves DEF CommitDone, OpPlaces, PartPlaces, CatPlaces, At
<1>a. op[o].m \in Masters
  BY <1>0, <1>m DEF OpShape, Shape, At, PartPlaces, CatPlaces
<1>n. \A u \in Uploads, x \in Masters :
        op[u].m = x => op'[u].m = x /\ op'[u].kind = op[u].kind
  BY <1>0, <1>m DEF Moves, Keeps
<1>u. UNCHANGED <<wim, part, cat, regen, shown, moved, crossed, raced, orphaned, unshown>>
  BY DEF CommitDone, files, scripts, history
<1>v. /\ row' = [row EXCEPT ![o] = "done"]
      /\ patched' \in BOOLEAN
  BY <1>0 DEF CommitDone, TypeOK
<1>r. ~Appears
  BY <1>0, <1>m, <1>u, <1>v DEF Appears, Recorded, At, Moves, RowOf, TypeOK
<1>1. TypeOK'
  BY <1>0, <1>m, <1>u, <1>v DEF TypeOK, Moves
<1>2. OpShape'
  <2>1. Shape(o)
    BY <1>0 DEF OpShape
  <2>2. Shape(o)'
    BY <1>0, <1>m, <2>1 DEF Shape, Moves, Keeps, At, PartPlaces, CatPlaces
  <2> QED
    BY <1>0, <1>m, <2>2, ShapeStays
<1>3. Crossing'
  BY <1>0, <1>m, <1>u, CrossingStays DEF Live
<1>4. PartPlace'
  BY <1>0, <1>n, <1>u DEF PartPlace
<1>5. WimPlace'
  BY <1>0, <1>n, <1>u DEF WimPlace
<1>6. PartHalf'
  BY <1>0, <1>m, <1>u DEF PartHalf, Moves
<1>7. PartFull'
  BY <1>0, <1>m, <1>u DEF PartFull, Moves, PartPlaces
<1>8. PartIsOwn'
  <2>1. HasPart(o)'
    <3>1. HasPart(o)
      BY <1>0 DEF PartIsOwn
    <3> QED
      BY <1>m, <1>u, <3>1 DEF HasPart, At, Keeps, Moves
  <2> QED
    BY <1>0, <1>m, <1>u, <2>1, PartStays
<1>9. WimHalf'
  BY <1>0, <1>n, <1>u DEF WimHalf, WimPlace
<1>10. RowOf'
  BY <1>0, <1>m, <1>u, <1>v, <1>a DEF RowOf, Moves, Keeps, PartPlaces, CatPlaces, TypeOK
<1>11. MovedOwn'
  BY <1>0, <1>m, <1>u, <1>v, <1>a DEF MovedOwn, RowOf, Moves, Keeps, CatPlaces, PartPlaces,
     TypeOK
<1>12. Fresh'
  BY <1>0, <1>m, <1>r, FreshStays DEF CatPlaces
<1>13. CatalogueHeld'
  BY <1>0, <1>m, <1>u, <1>r, CatalogueStays DEF Writers
<1>14. OneRunning'
  BY <1>0, <1>u, <1>v, RunsStay
<1>15. WillShow'
  BY <1>0, <1>m, ShowPending DEF Moves, Changing
<1> QED
  BY <1>1, <1>2, <1>3, <1>4, <1>5, <1>6, <1>7, <1>8, <1>9, <1>10, <1>11, <1>12, <1>13,
     <1>14, <1>15 DEF IInv, OpInv

LEMMA CommitFailsKeeps ==
  ASSUME MasterStoreAssumption, IInv, NEW o \in Uploads, CommitFails(o)
  PROVE  IInv'
<1>0. /\ TypeOK /\ OpShape /\ Crossing /\ PartPlace /\ WimPlace /\ PartHalf /\ PartFull /\ PartIsOwn
      /\ WimHalf /\ RowOf /\ MovedOwn /\ Fresh /\ CatalogueHeld /\ OneRunning /\ WillShow
      /\ o \in Ops /\ \A u \in Uploads : u \in Ops
  BY DEF IInv, OpInv, Ops
<1>m. PICK p \in {"failing", "ended"} :
            Moves(o, p) /\ Keeps(o) /\ op[o].pc = "committing"
            /\ (p = "failing" <=> op[o].kind = "part")
  BY <1>0, GoMoves DEF CommitFails, OpPlaces, PartPlaces, CatPlaces, At
<1>a. op[o].m \in Masters
  BY <1>0, <1>m DEF OpShape, Shape, At, PartPlaces, CatPlaces
<1>n. \A u \in Uploads, x \in Masters :
        op[u].m = x => op'[u].m = x /\ op'[u].kind = op[u].kind
  BY <1>0, <1>m DEF Moves, Keeps
<1>u. UNCHANGED <<wim, part, cat, row, regen, patched, shown, moved, crossed, raced, orphaned>>
  BY DEF CommitFails, files, scripts, history
<1>v. /\ unshown' = TRUE
  BY <1>0 DEF CommitFails, TypeOK
<1>r. ~Appears
  BY <1>0, <1>m, <1>u, <1>v DEF Appears, Recorded, At, Moves, RowOf
<1>1. TypeOK'
  BY <1>0, <1>m, <1>u, <1>v DEF TypeOK, Moves
<1>2. OpShape'
  <2>1. Shape(o)
    BY <1>0 DEF OpShape
  <2>2. Shape(o)'
    BY <1>0, <1>m, <2>1 DEF Shape, Moves, Keeps, At, PartPlaces, CatPlaces
  <2> QED
    BY <1>0, <1>m, <2>2, ShapeStays
<1>3. Crossing'
  BY <1>0, <1>m, <1>u, CrossingStays DEF Live
<1>4. PartPlace'
  BY <1>0, <1>n, <1>u DEF PartPlace
<1>5. WimPlace'
  BY <1>0, <1>n, <1>u DEF WimPlace
<1>6. PartHalf'
  BY <1>0, <1>m, <1>u DEF PartHalf, Moves
<1>7. PartFull'
  BY <1>0, <1>m, <1>u DEF PartFull, Moves, PartPlaces
<1>8. PartIsOwn'
  <2>1. HasPart(o)'
    <3>1. HasPart(o)
      BY <1>0 DEF PartIsOwn
    <3> QED
      BY <1>m, <1>u, <3>1 DEF HasPart, At, Keeps, Moves
  <2> QED
    BY <1>0, <1>m, <1>u, <2>1, PartStays
<1>9. WimHalf'
  BY <1>0, <1>n, <1>u DEF WimHalf, WimPlace
<1>10. RowOf'
  BY <1>0, <1>m, <1>u, <1>a DEF RowOf, Moves, Keeps, PartPlaces, CatPlaces
<1>11. MovedOwn'
  BY <1>0, <1>m, <1>u, <1>a DEF MovedOwn, RowOf, Moves, Keeps, CatPlaces, PartPlaces
<1>12. Fresh'
  BY <1>0, <1>m, <1>r, FreshStays DEF CatPlaces
<1>13. CatalogueHeld'
  BY <1>0, <1>m, <1>u, <1>r, CatalogueStays DEF Writers
<1>14. OneRunning'
  BY <1>0, <1>u, <1>v, RunsStay
<1>15. WillShow'
  BY <1>v DEF WillShow
<1> QED
  BY <1>1, <1>2, <1>3, <1>4, <1>5, <1>6, <1>7, <1>8, <1>9, <1>10, <1>11, <1>12, <1>13,
     <1>14, <1>15 DEF IInv, OpInv

LEMMA QueueRegenKeeps ==
  ASSUME MasterStoreAssumption, IInv, NEW o \in Ops, QueueRegen(o)
  PROVE  IInv'
<1>0. /\ TypeOK /\ OpShape /\ Crossing /\ PartPlace /\ WimPlace /\ PartHalf /\ PartFull /\ PartIsOwn
      /\ WimHalf /\ RowOf /\ MovedOwn /\ Fresh /\ CatalogueHeld /\ OneRunning /\ WillShow
      /\ o \in Ops /\ \A u \in Uploads : u \in Ops
  BY DEF IInv, OpInv, Ops
<1>m. Moves(o, "ended") /\ Keeps(o) /\ op[o].pc = "regenerating"
  BY <1>0, GoMoves DEF QueueRegen, OpPlaces, PartPlaces, CatPlaces, At
<1>n. \A u \in Uploads, x \in Masters :
        op[u].m = x => op'[u].m = x /\ op'[u].kind = op[u].kind
  BY <1>0, <1>m DEF Moves, Keeps
<1>u. UNCHANGED <<wim, part, cat, row, patched, shown, moved, crossed, raced, orphaned,
     unshown>>
  BY DEF QueueRegen, files, scripts, history
<1>v. /\ regen' = [regen EXCEPT ![o].pc = "queued"]
  BY <1>0 DEF QueueRegen, TypeOK
<1>r. ~Appears
  BY <1>0, <1>m, <1>u, <1>v DEF Appears, Recorded, At, Moves, RowOf
<1>1. TypeOK'
  BY <1>0, <1>m, <1>u, <1>v DEF TypeOK, Moves, RunState
<1>2. OpShape'
  <2>1. Shape(o)
    BY <1>0 DEF OpShape
  <2>2. Shape(o)'
    BY <1>0, <1>m, <2>1 DEF Shape, Moves, Keeps, At, PartPlaces, CatPlaces
  <2> QED
    BY <1>0, <1>m, <2>2, ShapeStays
<1>3. Crossing'
  BY <1>0, <1>m, <1>u, CrossingStays DEF Live
<1>4. PartPlace'
  BY <1>0, <1>n, <1>u DEF PartPlace
<1>5. WimPlace'
  BY <1>0, <1>n, <1>u DEF WimPlace
<1>6. PartHalf'
  BY <1>0, <1>m, <1>u DEF PartHalf, Moves
<1>7. PartFull'
  BY <1>0, <1>m, <1>u DEF PartFull, Moves, PartPlaces
<1>8. PartIsOwn'
  <2>1. o \in Uploads => HasPart(o)'
    <3>1. o \in Uploads => HasPart(o)
      BY <1>0 DEF PartIsOwn
    <3> QED
      BY <1>m, <1>u, <3>1 DEF HasPart, At, Keeps, Moves
  <2> QED
    BY <1>0, <1>m, <1>u, <2>1, PartStays
<1>9. WimHalf'
  BY <1>0, <1>n, <1>u DEF WimHalf, WimPlace
<1>10. RowOf'
  BY <1>0, <1>m, <1>u DEF RowOf, Moves, Keeps, PartPlaces, CatPlaces
<1>11. MovedOwn'
  BY <1>0, <1>m, <1>u DEF MovedOwn, RowOf, Moves, Keeps, CatPlaces, PartPlaces
<1>12. Fresh'
  BY <1>0, <1>m, <1>r, FreshStays DEF CatPlaces
<1>13. CatalogueHeld'
  BY <1>0, <1>m, <1>u, <1>r, CatalogueStays DEF Writers
<1>14. OneRunning'
  <2>1. Running' \subseteq Running
    BY <1>0, <1>v DEF Running, TypeOK
  <2> QED
    BY <1>0, <1>u, <2>1 DEF OneRunning
<1>15. WillShow'
  <2>1. regen'[o].pc = "queued"
    BY <1>0, <1>v DEF TypeOK
  <2> QED
    BY <1>0, <2>1 DEF WillShow, Pending
<1> QED
  BY <1>1, <1>2, <1>3, <1>4, <1>5, <1>6, <1>7, <1>8, <1>9, <1>10, <1>11, <1>12, <1>13,
     <1>14, <1>15 DEF IInv, OpInv

LEMMA QueueRegenFailsKeeps ==
  ASSUME MasterStoreAssumption, IInv, NEW o \in Ops, QueueRegenFails(o)
  PROVE  IInv'
<1>0. /\ TypeOK /\ OpShape /\ Crossing /\ PartPlace /\ WimPlace /\ PartHalf /\ PartFull /\ PartIsOwn
      /\ WimHalf /\ RowOf /\ MovedOwn /\ Fresh /\ CatalogueHeld /\ OneRunning /\ WillShow
      /\ o \in Ops /\ \A u \in Uploads : u \in Ops
  BY DEF IInv, OpInv, Ops
<1>m. Moves(o, "ended") /\ Keeps(o) /\ op[o].pc = "regenerating"
  BY <1>0, GoMoves DEF QueueRegenFails, OpPlaces, PartPlaces, CatPlaces, At
<1>n. \A u \in Uploads, x \in Masters :
        op[u].m = x => op'[u].m = x /\ op'[u].kind = op[u].kind
  BY <1>0, <1>m DEF Moves, Keeps
<1>u. UNCHANGED <<wim, part, cat, row, regen, patched, shown, moved, crossed, raced, orphaned>>
  BY DEF QueueRegenFails, files, scripts, history
<1>v. /\ unshown' = TRUE
  BY <1>0 DEF QueueRegenFails, TypeOK
<1>r. ~Appears
  BY <1>0, <1>m, <1>u, <1>v DEF Appears, Recorded, At, Moves, RowOf
<1>1. TypeOK'
  BY <1>0, <1>m, <1>u, <1>v DEF TypeOK, Moves
<1>2. OpShape'
  <2>1. Shape(o)
    BY <1>0 DEF OpShape
  <2>2. Shape(o)'
    BY <1>0, <1>m, <2>1 DEF Shape, Moves, Keeps, At, PartPlaces, CatPlaces
  <2> QED
    BY <1>0, <1>m, <2>2, ShapeStays
<1>3. Crossing'
  BY <1>0, <1>m, <1>u, CrossingStays DEF Live
<1>4. PartPlace'
  BY <1>0, <1>n, <1>u DEF PartPlace
<1>5. WimPlace'
  BY <1>0, <1>n, <1>u DEF WimPlace
<1>6. PartHalf'
  BY <1>0, <1>m, <1>u DEF PartHalf, Moves
<1>7. PartFull'
  BY <1>0, <1>m, <1>u DEF PartFull, Moves, PartPlaces
<1>8. PartIsOwn'
  <2>1. o \in Uploads => HasPart(o)'
    <3>1. o \in Uploads => HasPart(o)
      BY <1>0 DEF PartIsOwn
    <3> QED
      BY <1>m, <1>u, <3>1 DEF HasPart, At, Keeps, Moves
  <2> QED
    BY <1>0, <1>m, <1>u, <2>1, PartStays
<1>9. WimHalf'
  BY <1>0, <1>n, <1>u DEF WimHalf, WimPlace
<1>10. RowOf'
  BY <1>0, <1>m, <1>u DEF RowOf, Moves, Keeps, PartPlaces, CatPlaces
<1>11. MovedOwn'
  BY <1>0, <1>m, <1>u DEF MovedOwn, RowOf, Moves, Keeps, CatPlaces, PartPlaces
<1>12. Fresh'
  BY <1>0, <1>m, <1>r, FreshStays DEF CatPlaces
<1>13. CatalogueHeld'
  BY <1>0, <1>m, <1>u, <1>r, CatalogueStays DEF Writers
<1>14. OneRunning'
  BY <1>0, <1>u, <1>v, RunsStay
<1>15. WillShow'
  BY <1>v DEF WillShow
<1> QED
  BY <1>1, <1>2, <1>3, <1>4, <1>5, <1>6, <1>7, <1>8, <1>9, <1>10, <1>11, <1>12, <1>13,
     <1>14, <1>15 DEF IInv, OpInv
-----------------------------------------------------------------------------
(***************************************************************************)
(* Steps: the regenerations                                                *)
(***************************************************************************)
\* They change neither the files, nor the catalogue, nor an operation.
LEMMA OpInvStays ==
  ASSUME OpInv, UNCHANGED <<wim, part, cat, row, op, moved, crossed, raced, orphaned>>
  PROVE  OpInv'
<1>1. OpShape' /\ Crossing'
  BY DEF OpInv, OpShape, Shape, At, Crossing, Live
<1>2. PartPlace' /\ WimPlace' /\ PartHalf' /\ PartFull' /\ WimHalf'
  BY DEF OpInv, PartPlace, WimPlace, PartHalf, PartFull, WimHalf
<1>3. PartIsOwn' /\ RowOf' /\ MovedOwn'
  BY DEF OpInv, PartIsOwn, HasPart, At, RowOf, MovedOwn
<1>4. Fresh'
  BY DEF OpInv, Fresh, Recorded, At
<1>5. CatalogueHeld'
  <2>1. Writers' = Writers /\ (Matches(cat)' <=> Matches(cat))
    BY DEF Writers, Matches, Recorded, At
  <2>2. \A w \in Writers : Matches(op[w].seen)' <=> Matches(op[w].seen)
    BY DEF Matches, Recorded, At
  <2>3. CatalogueHeld
    BY DEF OpInv
  <2> QED
    BY <2>1, <2>2, <2>3 DEF CatalogueHeld, At
<1> QED
  BY <1>1, <1>2, <1>3, <1>4, <1>5 DEF OpInv

\* A regeneration that moves, and the others.
Runs(o, p) ==
  /\ regen' \in [Ops -> RunState]
  /\ \A x \in Ops \ {o} : regen'[x] = regen[x]
  /\ regen'[o].pc = p

LEMMA StepRuns ==
  ASSUME TypeOK, NEW o \in Ops,
         NEW p \in {"none", "queued", "listing", "writing", "patching", "ended"}, Step(o, p)
  PROVE  Runs(o, p)
<1>1. regen[o] \in RunState
  BY DEF TypeOK
<1>2. [regen[o] EXCEPT !.pc = p] \in RunState
  BY <1>1 DEF RunState
<1>3. regen' = [regen EXCEPT ![o] = [regen[o] EXCEPT !.pc = p]]
  BY DEF Step
<1>4. regen'[o] = [regen[o] EXCEPT !.pc = p] /\ \A x \in Ops \ {o} : regen'[x] = regen[x]
  BY <1>3 DEF TypeOK
<1>5. regen' \in [Ops -> RunState]
  BY <1>2, <1>3 DEF TypeOK
<1> QED
  BY <1>1, <1>4, <1>5 DEF RunState, Runs

LEMMA ListingIsTyped ==
  ASSUME TypeOK
  PROVE  Listing \in [Masters -> Entries \cup {-1}] /\ Empty \in [Masters -> Entries \cup {-1}]
<1>1. Loaded \in [Masters -> Entries]
  BY IdleOpIsTyped DEF Loaded, TypeOK
<1>2. NoEntry \in Entries
  BY DEF Entries
<1>3. \A x \in Masters : Loaded[x] \in Entries \cup {-1}
  BY <1>1
<1> QED
  BY <1>2, <1>3 DEF Listing, Empty

LEMMA FreshRuns ==
  ASSUME TypeOK, NEW o \in Ops, NEW p \in {"none", "queued", "listing", "writing", "patching", "ended"},
         NEW f \in [Masters -> Entries \cup {-1}],
         regen' = [regen EXCEPT ![o] = [pc |-> p, seen |-> f]]
  PROVE  Runs(o, p) /\ regen'[o].seen = f
<1>1. [pc |-> p, seen |-> f] \in RunState
  BY DEF RunState
<1> QED
  BY <1>1 DEF Runs, TypeOK

LEMMA RegenStartsKeeps ==
  ASSUME MasterStoreAssumption, IInv, NEW o \in Ops, RegenStarts(o)
  PROVE  IInv'
<1>0. TypeOK /\ OpInv /\ OneRunning /\ WillShow
  BY DEF IInv
<1>1. PICK p \in {"ended", "listing"} : Runs(o, p) /\ (p = "ended" <=> OnDisk = {})
  BY <1>0, StepRuns DEF RegenStarts
<1>2. /\ UNCHANGED <<wim, part, cat, row, op, lock, patched, shown, moved, crossed, raced, orphaned>>
      /\ unshown' = (unshown \/ Running # {} \/ OnDisk = {})
  BY DEF RegenStarts, files, scripts
<1>3. TypeOK'
  BY <1>0, <1>1, <1>2 DEF TypeOK, Runs
<1>4. OpInv'
  BY <1>0, <1>2, OpInvStays
<1>5. OneRunning'
  BY <1>1, <1>2 DEF OneRunning, Running, Runs
<1>6. WillShow'
  BY <1>1, <1>2 DEF WillShow, Pending, Runs
<1> QED
  BY <1>3, <1>4, <1>5, <1>6 DEF IInv

LEMMA RegenListsKeeps ==
  ASSUME MasterStoreAssumption, IInv, NEW o \in Ops, RegenLists(o)
  PROVE  IInv'
<1>0. TypeOK /\ OpInv /\ OneRunning /\ WillShow
  BY DEF IInv
<1>1. Runs(o, "writing") /\ regen'[o].seen = Listing /\ regen[o].pc = "listing"
  BY <1>0, FreshRuns, ListingIsTyped DEF RegenLists
<1>2. /\ UNCHANGED <<wim, part, cat, row, op, lock, patched, shown, moved, crossed, raced, orphaned>>
      /\ unshown' = (unshown /\ \E x \in Ops : Live(x) \/ (x # o /\ x \in Running))
  BY DEF RegenLists, files, scripts
<1>3. TypeOK'
  BY <1>0, <1>1, <1>2 DEF TypeOK, Runs
<1>4. OpInv'
  BY <1>0, <1>2, OpInvStays
<1>5. OneRunning'
  <2> SUFFICES ASSUME ~unshown' PROVE \A x \in Running' : x = o
    BY DEF OneRunning
  <2>1. o \in Running /\ \A x \in Running' : x \in Running
    BY <1>1 DEF Running, Runs
  <2>2. CASE ~unshown
    BY <1>0, <2>1, <2>2 DEF OneRunning
  <2>3. CASE unshown
    BY <1>2, <2>1, <2>3 DEF Running
  <2> QED
    BY <2>2, <2>3
<1>6. WillShow'
  <2>1. Listing' = Listing
    BY <1>2 DEF Listing, Loaded
  <2> QED
    BY <1>1, <2>1 DEF WillShow, Listed, Runs
<1> QED
  BY <1>3, <1>4, <1>5, <1>6 DEF IInv

LEMMA RegenWritesKeeps ==
  ASSUME MasterStoreAssumption, IInv, NEW o \in Ops, RegenWrites(o)
  PROVE  IInv'
<1>0. TypeOK /\ OpInv /\ OneRunning /\ WillShow
  BY DEF IInv
<1>1. Runs(o, "patching") /\ regen[o].pc = "writing" /\ shown' = regen[o].seen
  BY <1>0, FreshRuns, ListingIsTyped DEF RegenWrites
<1>2. UNCHANGED <<wim, part, cat, row, op, lock, patched, moved, crossed, raced, orphaned, unshown>>
  BY DEF RegenWrites, files, history
<1>3. TypeOK'
  BY <1>0, <1>1, <1>2 DEF TypeOK, Runs
<1>4. OpInv'
  BY <1>0, <1>2, OpInvStays
<1>5. OneRunning'
  <2>1. \A x \in Running' : x \in Running
    BY <1>1 DEF Running, Runs
  <2> QED
    BY <1>0, <1>2, <2>1 DEF OneRunning
<1>6. WillShow'
  <2> SUFFICES ASSUME ~unshown, ~Pending' PROVE Shown'
    BY <1>2 DEF WillShow
  <2>1. ~Pending
    BY <1>1, <1>2 DEF Pending, Runs
  <2>2. \A x \in Ops \ {o} : regen[x].pc # "writing"
    BY <1>0, <1>1 DEF OneRunning, Running
  <2>3. regen[o].seen = Listing
    BY <1>0, <1>1, <2>1, <2>2 DEF WillShow, Listed, Shown
  <2>4. Listing' = Listing
    BY <1>2 DEF Listing, Loaded
  <2> QED
    BY <1>1, <2>2, <2>3, <2>4 DEF Shown, Runs
<1> QED
  BY <1>3, <1>4, <1>5, <1>6 DEF IInv

LEMMA RegenCommitsKeeps ==
  ASSUME MasterStoreAssumption, IInv, NEW o \in Ops, RegenCommits(o)
  PROVE  IInv'
<1>0. TypeOK /\ OpInv /\ OneRunning /\ WillShow
  BY DEF IInv
<1>1. Runs(o, "ended") /\ regen[o].pc = "patching" /\ patched' = TRUE
  BY <1>0, StepRuns DEF RegenCommits
<1>2. UNCHANGED <<wim, part, cat, row, op, lock, shown, moved, crossed, raced, orphaned, unshown>>
  BY DEF RegenCommits, files, history
<1>3. TypeOK'
  BY <1>0, <1>1, <1>2 DEF TypeOK, Runs
<1>4. OpInv'
  BY <1>0, <1>2, OpInvStays
<1>5. OneRunning'
  <2>1. \A x \in Running' : x \in Running
    BY <1>1 DEF Running, Runs
  <2> QED
    BY <1>0, <1>2, <2>1 DEF OneRunning
<1>6. WillShow'
  <2> SUFFICES ASSUME ~unshown, ~Pending' PROVE Shown'
    BY <1>2 DEF WillShow
  <2>1. ~Pending
    BY <1>1, <1>2 DEF Pending, Runs
  <2>2. \A x \in Ops : regen[x].pc # "writing"
    BY <1>0, <1>1 DEF OneRunning, Running
  <2>3. shown = Listing
    BY <1>0, <1>1, <2>1, <2>2 DEF WillShow, Listed, Shown
  <2>4. Listing' = Listing
    BY <1>2 DEF Listing, Loaded
  <2> QED
    BY <1>1, <1>2, <2>2, <2>3, <2>4 DEF Shown, Runs
<1> QED
  BY <1>3, <1>4, <1>5, <1>6 DEF IInv

LEMMA RegenFailsKeeps ==
  ASSUME MasterStoreAssumption, IInv, NEW o \in Ops, RegenFails(o)
  PROVE  IInv'
<1>0. TypeOK /\ OpInv /\ OneRunning /\ WillShow
  BY DEF IInv
<1>1. Runs(o, "ended") /\ regen[o].pc \in {"listing", "writing", "patching"}
  BY <1>0, FreshRuns, ListingIsTyped DEF RegenFails
<1>2. /\ UNCHANGED <<wim, part, cat, row, op, lock, patched, shown, moved, crossed, raced, orphaned>>
      /\ unshown' = (unshown \/ regen[o].pc # "patching")
  BY DEF RegenFails, files, scripts
<1>3. TypeOK'
  BY <1>0, <1>1, <1>2 DEF TypeOK, Runs
<1>4. OpInv'
  BY <1>0, <1>2, OpInvStays
<1>5. OneRunning'
  <2>1. \A x \in Running' : x \in Running
    BY <1>1 DEF Running, Runs
  <2> QED
    BY <1>0, <1>2, <2>1 DEF OneRunning
<1>6. WillShow'
  <2> SUFFICES ASSUME ~unshown, regen[o].pc = "patching", ~Pending' PROVE Shown'
    BY <1>2 DEF WillShow
  <2>1. ~Pending
    BY <1>1, <1>2 DEF Pending, Runs
  <2>2. \A x \in Ops : regen[x].pc # "writing"
    BY <1>0, <1>1 DEF OneRunning, Running
  <2>3. shown = Listing
    BY <1>0, <1>1, <2>1, <2>2 DEF WillShow, Listed, Shown
  <2>4. Listing' = Listing
    BY <1>2 DEF Listing, Loaded
  <2> QED
    BY <1>1, <1>2, <2>2, <2>3, <2>4 DEF Shown, Runs
<1> QED
  BY <1>3, <1>4, <1>5, <1>6 DEF IInv
-----------------------------------------------------------------------------
(***************************************************************************)
(* The invariant and the properties                                        *)
(***************************************************************************)
LEMMA StutterKeeps ==
  ASSUME IInv, UNCHANGED vars
  PROVE  IInv'
<1>1. UNCHANGED <<wim, part, cat, row, op, regen, patched, shown,
                  moved, crossed, raced, orphaned, unshown>>
  BY DEF vars
<1>2. OpInv'
  BY <1>1, OpInvStays DEF IInv
<1>3. TypeOK' /\ OneRunning'
  BY <1>1 DEF IInv, TypeOK, OneRunning, Running
<1>4. Listing' = Listing
  BY <1>1 DEF Listing, Loaded
<1>5. WillShow'
  BY <1>1, <1>4 DEF IInv, WillShow, Pending, Listed, Shown
<1> QED
  BY <1>2, <1>3, <1>5 DEF IInv

LEMMA InitHolds ==
  ASSUME MasterStoreAssumption, Init
  PROVE  IInv
<1>0. \A u \in Uploads : u \in Ops
  BY DEF Ops
<1>1. \A o \in Ops : op[o] = IdleOp /\ regen[o] = IdleRun
  BY DEF Init
<1>2. /\ \A o \in Ops : op[o].pc = "idle" /\ op[o].kind = "none" /\ op[o].m = NoMaster
      /\ \A o \in Ops : regen[o].pc = "none"
  BY <1>1, IdleOpIsTyped DEF IdleRun
<1>3. IdleRun \in RunState
  <2>1. Empty \in [Masters -> Entries \cup {-1}]
    BY DEF Empty, Entries
  <2> QED
    BY <2>1 DEF IdleRun, RunState
<1>4. TypeOK
  BY <1>3, IdleOpIsTyped, ContentsAre DEF TypeOK, Init
<1>5. OpShape /\ Crossing
  BY <1>2, ContentsDiffer DEF OpShape, Shape, At, Crossing, PartPlaces, CatPlaces
<1>6. PartPlace /\ WimPlace /\ PartHalf /\ PartFull /\ WimHalf
  <2>1. \A m \in Masters : part[m] = Missing /\ wim[m] = Missing
    BY DEF Init
  <2> QED
    BY <2>1, ContentsDiffer DEF PartPlace, WimPlace, PartHalf, PartFull, WimHalf
<1>7. PartIsOwn /\ RowOf /\ MovedOwn /\ Fresh
  <2>1. \A u \in Uploads : row[u] = "none"
    BY DEF Init
  <2> QED
    BY <1>0, <1>2, <2>1 DEF PartIsOwn, HasPart, At, RowOf, MovedOwn, Fresh, Recorded, CatPlaces
<1>8. CatalogueHeld
  <2>1. Writers = {} /\ \A u \in Uploads : ~Recorded(u)
    BY <1>0, <1>2 DEF Init, Writers, Recorded, At
  <2>2. cat # Torn
    BY ContentsDiffer, IdleOpIsTyped DEF Init
  <2> QED
    BY <2>1, <2>2 DEF CatalogueHeld, Matches
<1>9. OneRunning /\ WillShow
  BY <1>2 DEF Init, OneRunning, Running, WillShow, Shown
<1> QED
  BY <1>4, <1>5, <1>6, <1>7, <1>8, <1>9 DEF IInv, OpInv

LEMMA NextKeeps ==
  ASSUME MasterStoreAssumption, IInv, [Next]_vars
  PROVE  IInv'
<1>1. ASSUME NEW u \in Uploads, NEW m \in Masters, Receive(u, m) \/ OpenInPlace(u, m)
      PROVE  IInv'
  BY <1>1, ReceiveKeeps, OpenInPlaceKeeps
<1>2. ASSUME NEW u \in Uploads, Received(u) \/ ReceiveFails(u) \/ Send(u) \/ SendFails(u) \/ Discard(u)
      PROVE  IInv'
  BY <1>2, ReceivedKeeps, ReceiveFailsKeeps, SendKeeps, SendFailsKeeps, DiscardKeeps
<1>3. ASSUME NEW u \in Uploads, TaskStarts(u) \/ TaskChecks(u) \/ TaskMoves(u) \/ TaskFails(u)
      PROVE  IInv'
  BY <1>3, TaskStartsKeeps, TaskChecksPartKeeps, TaskChecksNothingKeeps, TaskMovesPartKeeps,
     TaskMovesNothingKeeps, TaskFailsKeeps
<1>4. ASSUME NEW u \in Uploads, WrittenInPlace(u) \/ BrokenInPlace(u) \/ CommitDone(u) \/ CommitFails(u)
      PROVE  IInv'
  BY <1>4, WrittenInPlaceKeeps, BrokenInPlaceKeeps, CommitDoneKeeps, CommitFailsKeeps
<1>5. ASSUME NEW d \in Others, Ask(d) \/ \E m \in Masters : Delete(d, m)
      PROVE  IInv'
  BY <1>5, AskKeeps, DeleteKeeps
<1>6. ASSUME NEW o \in Ops, ReadCatalogue(o) \/ TruncateCatalogue(o) \/ WriteCatalogue(o)
                              \/ WriteCatalogueFails(o) \/ QueueRegen(o) \/ QueueRegenFails(o)
      PROVE  IInv'
  BY <1>6, ReadCatalogueKeeps, TruncateCatalogueKeeps, WriteCatalogueKeeps, WriteCatalogueFailsKeeps,
     QueueRegenKeeps, QueueRegenFailsKeeps
<1>7. ASSUME NEW o \in Ops, RegenStarts(o) \/ RegenLists(o) \/ RegenWrites(o) \/ RegenCommits(o)
                              \/ RegenFails(o)
      PROVE  IInv'
  BY <1>7, RegenStartsKeeps, RegenListsKeeps, RegenWritesKeeps, RegenCommitsKeeps, RegenFailsKeeps
<1>8. CASE Over \/ UNCHANGED vars
  BY <1>8, StutterKeeps DEF Over
<1> QED
  BY <1>1, <1>2, <1>3, <1>4, <1>5, <1>6, <1>7, <1>8 DEF Next

\* The invariant holds in every state, whatever the uploads, deletions and regenerations do
\* to each other.
THEOREM Invariance == Spec => []IInv
<1>1. Init => IInv
  BY InitHolds, MasterStoreAssumption
<1>2. IInv /\ [Next]_vars => IInv'
  BY NextKeeps, MasterStoreAssumption
<1> QED
  BY <1>1, <1>2, PTL DEF Spec

\* Every variable has its type.
THEOREM TypeCorrect == Spec => []TypeOK
<1>1. IInv => TypeOK
  BY DEF IInv
<1> QED
  BY <1>1, Invariance, PTL

\* No row of an upload stays at "processing" without a task that will set it, except the two
\* ways upload_winpe_install and its task leave one behind (ProcessingHasTask).
THEOREM NoRowIsAbandoned == Spec => []ProcessingHasTask
<1>1. IInv => ProcessingHasTask
  BY DEF IInv, OpInv, RowOf, ProcessingHasTask, Live, PartPlaces, CatPlaces
<1> QED
  BY <1>1, Invariance, PTL

\* An upload that met nobody on its master and shows "done" has moved the bytes it received
\* itself, whole: the part file named after the master was never another's (DoneMovedItsOwn).
THEOREM DoneIsOwn == Spec => []DoneMovedItsOwn
<1>1. IInv => DoneMovedItsOwn
  BY DEF IInv, OpInv, MovedOwn, DoneMovedItsOwn
<1> QED
  BY <1>1, Invariance, PTL

\* install.wim is never served half written, but by an upload in place or where operations
\* on one master crossed (ServedWhole).
THEOREM WimsAreWhole == Spec => []ServedWhole
<1>1. IInv => ServedWhole
  BY DEF IInv, OpInv, WimHalf, Half, ServedWhole
<1> QED
  BY <1>1, Invariance, PTL

\* masters.json has the label and DISM index of the image in place, as long as no two
\* read-modify-write cycles of the catalogue overlapped (EntryOfOwnImage).
THEOREM EntriesMatch == Spec => []EntryOfOwnImage
<1>1. IInv => EntryOfOwnImage
  BY DEF IInv, OpInv, CatalogueHeld, Matches, Recorded, EntryOfOwnImage
<1> QED
  BY <1>1, Invariance, PTL

\* The scripts that WinPE shows list the masters there are once everything is quiet, unless a
\* regeneration was lost (QuietScriptsCurrent).
THEOREM ScriptsAreCurrent == Spec => []QuietScriptsCurrent
<1>1. IInv => QuietScriptsCurrent
  <2> SUFFICES ASSUME IInv, patched, ~unshown,
                      \A o \in Ops : ~Live(o) /\ regen[o].pc \in {"none", "ended"}
               PROVE  shown = Listing
    BY DEF QuietScriptsCurrent
  <2>1. ~Pending /\ ~Listed
    BY DEF Pending, Listed, Live, Changing
  <2> QED
    BY <2>1 DEF IInv, WillShow, Shown
<1> QED
  BY <1>1, Invariance, PTL
=============================================================================
