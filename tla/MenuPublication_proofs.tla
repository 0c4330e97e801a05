----------------------- MODULE MenuPublication_proofs -----------------------
(***************************************************************************)
(* Proofs about MenuPublication for any number of OS types and of          *)
(* overlapping regenerations.                                              *)
(***************************************************************************)
EXTENDS MenuPublication, TLAPS

InHand(r, p) == pc[r] \in {"read", "written"} /\ cur[r] = p

\* The page in hand is still to do; menu.ipxe only once nothing else is, and it
\* links the OS types read at the start.
PageInHand ==
  \A r \in Regens, p \in Pages : InHand(r, p) =>
    /\ p \in todo[r]
    /\ p = Central => todo[r] = {Central} /\ snap[r].links = list[r]
    /\ pc[r] = "written" => menu[p] # NoFile

\* A regeneration has written, or failed to write, what it is past.
WorkedThrough ==
  \A r \in Regens : \A o \in list[r] : o \in todo[r] \/ menu[o] # NoFile \/ o \in failed

CentralHasNoScripts == autres[Central] = NoFile

\* Together with TypeOK these make CentralLinksExist inductive.
LinkInv ==
  /\ TypeOK
  /\ PageInHand
  /\ WorkedThrough
  /\ CentralHasNoScripts
  /\ CentralLinksExist

\* Regeneration r will leave p as the database asks for it now, if nothing else
\* happens.
Brings(r, p) ==
  /\ ~Idle(r)
  /\ p \in todo[r]
  /\ lsite[r] = site
  /\ p = Central => list[r] = rows
  /\ InHand(r, p) => /\ snap[r] = Wanted(p)
                     /\ pc[r] = "written" => menu[p] = Wanted(p)

\* A page that is kept is current, or a regeneration is asked for, or one that
\* runs brings it.
KeptIsComing ==
  \A p \in Pages \ failed : Live(p) /\ why[p] = "kept" =>
    \/ Current(p)
    \/ owing > 0
    \/ queued > 0
    \/ \E r \in Regens : Brings(r, p)

IInv == LinkInv /\ KeptIsComing
-----------------------------------------------------------------------------
\* What would be written for a page is content, and its script menu is content or
\* no file.
LEMMA WantedIsContent ==
  ASSUME TypeOK, NEW p \in Pages
  PROVE  /\ Links(p) \in SUBSET OsTypes
         /\ Wanted(p) \in Content
<1>1. Links(p) \in SUBSET OsTypes
  BY DEF TypeOK, Links, Pages
<1>2. rev[p] \in Nat /\ site \in Nat
  BY DEF TypeOK
<1>3. QED
  BY <1>1, <1>2 DEF Wanted, Content

LEMMA NoPageIsContent == NoPage \in Content
BY DEF NoPage, Content

\* Every action keeps the types.
LEMMA TypeStep == ASSUME TypeOK, [Next]_vars PROVE TypeOK'
<1> USE MenuPublicationAssumption, NoPageIsContent
    DEF TypeOK, dbVars, fileVars, regenVars, Reasons, Pages
<1>1. ASSUME NEW p \in Pages, NEW scripts \in BOOLEAN, Change(p, scripts) PROVE TypeOK'
  BY <1>1 DEF Change, Revise, Owe
<1>2. CASE ChangeSite
  BY <1>2 DEF ChangeSite, Owe
<1>3. ASSUME NEW p \in Pages, NEW scripts \in BOOLEAN, ChangeSilently(p, scripts)
      PROVE  TypeOK'
  BY <1>3 DEF ChangeSilently, Revise
<1>4. ASSUME NEW o \in OsTypes, AddOsType(o) PROVE TypeOK'
  BY <1>4 DEF AddOsType
<1>5. ASSUME NEW o \in OsTypes, DeleteOsType(o) PROVE TypeOK'
  BY <1>5 DEF DeleteOsType
<1>6. ASSUME NEW p \in Pages, SaveOverride(p) PROVE TypeOK'
  BY <1>6 DEF SaveOverride, Owe
<1>7. CASE Regenerate
  BY <1>7 DEF Regenerate, Owe
<1>8. CASE LoseRequest
  BY <1>8 DEF LoseRequest, Drop
<1>9. ASSUME NEW r \in Regens, Abort(r) PROVE TypeOK'
  BY <1>9 DEF Abort, Return, Drop
<1>10. CASE Post
  BY <1>10 DEF Post
<1>11. ASSUME NEW r \in Regens, Begin(r) PROVE TypeOK'
  BY <1>11 DEF Begin
<1>12. ASSUME NEW r \in Regens, NEW p \in Pages, Read(r, p) PROVE TypeOK'
  <2>1. RenderedLinks(r, p) \in SUBSET OsTypes
    BY WantedIsContent DEF RenderedLinks
  <2>2. [rev |-> rev[p], site |-> lsite[r], links |-> RenderedLinks(r, p)] \in Content
    BY <2>1 DEF Content
  <2>3. QED
    BY <1>12, <2>2 DEF Read
<1>13. ASSUME NEW r \in Regens, WritePage(r) PROVE TypeOK'
  BY <1>13 DEF WritePage
<1>14. ASSUME NEW r \in Regens, FinishPage(r) PROVE TypeOK'
  BY <1>14 DEF FinishPage, StaleAutres, AutresOf, Return, NextPage
<1>15. ASSUME NEW r \in Regens, PageFails(r) PROVE TypeOK'
  BY <1>15 DEF PageFails, NextPage
<1>16. CASE UNCHANGED vars
  BY <1>16 DEF vars
<1>17. QED
  BY <1>1, <1>2, <1>3, <1>4, <1>5, <1>6, <1>7, <1>8, <1>9, <1>10, <1>11, <1>12, <1>13,
     <1>14, <1>15, <1>16 DEF Next, Environment, Regeneration
-----------------------------------------------------------------------------
\* The actions that leave the files, the regenerations and their failures alone.
Aside ==
  \/ \E p \in Pages, scripts \in BOOLEAN : Change(p, scripts) \/ ChangeSilently(p, scripts)
  \/ ChangeSite
  \/ \E o \in OsTypes : AddOsType(o) \/ DeleteOsType(o)
  \/ Regenerate
  \/ LoseRequest
  \/ Post

LEMMA AsideFrame ==
  ASSUME Aside
  PROVE  UNCHANGED <<menu, autres, regenVars, failed>>
BY DEF Aside, Change, ChangeSilently, ChangeSite, AddOsType, DeleteOsType, Regenerate,
       LoseRequest, Post, fileVars, dbVars, regenVars

\* The actions that are proved one by one.
LEMMA NextCases ==
  ASSUME [Next]_vars
  PROVE  \/ Aside
         \/ \E p \in Pages : SaveOverride(p)
         \/ \E r \in Regens : \/ Abort(r)
                              \/ Begin(r)
                              \/ \E p \in Pages : Read(r, p)
                              \/ WritePage(r)
                              \/ FinishPage(r)
                              \/ PageFails(r)
         \/ UNCHANGED vars
BY DEF Next, Environment, Regeneration, Aside

\* Content is a file, and not one typed by hand.
LEMMA ContentIsFile == \A c \in Content : c # NoFile /\ c # Manual
BY MenuPublicationAssumption

\* A regeneration keeps to the order of its loop.
LEMMA PageInHandStep ==
  ASSUME LinkInv, [Next]_vars
  PROVE  PageInHand'
<1> USE DEF LinkInv, TypeOK, PageInHand, InHand
<1>1. CASE Aside
  BY <1>1, AsideFrame DEF regenVars
<1>2. ASSUME NEW p \in Pages, SaveOverride(p) PROVE PageInHand'
  BY <1>2, MenuPublicationAssumption DEF SaveOverride, regenVars
<1>3. ASSUME NEW r \in Regens, Abort(r) PROVE PageInHand'
  BY <1>3 DEF Abort, Return, fileVars
<1>4. ASSUME NEW r \in Regens, Begin(r) PROVE PageInHand'
  BY <1>4 DEF Begin, fileVars
<1>5. ASSUME NEW r \in Regens, NEW p \in Pages, Read(r, p) PROVE PageInHand'
  BY <1>5 DEF Read, RenderedLinks, fileVars
<1>6. ASSUME NEW r \in Regens, WritePage(r) PROVE PageInHand'
  BY <1>6, ContentIsFile DEF WritePage
<1>7. ASSUME NEW r \in Regens, FinishPage(r) PROVE PageInHand'
  BY <1>7 DEF FinishPage, Return, NextPage
<1>8. ASSUME NEW r \in Regens, PageFails(r) PROVE PageInHand'
  BY <1>8 DEF PageFails, NextPage, fileVars
<1>9. CASE UNCHANGED vars
  BY <1>9 DEF vars
<1>10. QED
  BY <1>1, <1>2, <1>3, <1>4, <1>5, <1>6, <1>7, <1>8, <1>9, NextCases

\* What a regeneration has listed is to do, written or failed.
LEMMA WorkedThroughStep ==
  ASSUME LinkInv, [Next]_vars
  PROVE  WorkedThrough'
<1> USE DEF LinkInv, TypeOK, WorkedThrough, Pages
<1>1. CASE Aside
  BY <1>1, AsideFrame DEF regenVars
<1>2. ASSUME NEW p \in Pages, SaveOverride(p) PROVE WorkedThrough'
  BY <1>2, MenuPublicationAssumption DEF SaveOverride, regenVars
<1>3. ASSUME NEW r \in Regens, Abort(r) PROVE WorkedThrough'
  BY <1>3 DEF Abort, Return, fileVars
<1>4. ASSUME NEW r \in Regens, Begin(r) PROVE WorkedThrough'
  BY <1>4 DEF Begin, fileVars
<1>5. ASSUME NEW r \in Regens, NEW p \in Pages, Read(r, p) PROVE WorkedThrough'
  BY <1>5 DEF Read, fileVars
<1>6. ASSUME NEW r \in Regens, WritePage(r) PROVE WorkedThrough'
  BY <1>6, ContentIsFile DEF WritePage
<1>7. ASSUME NEW r \in Regens, FinishPage(r) PROVE WorkedThrough'
  <2>1. menu[cur[r]] # NoFile
    BY <1>7 DEF FinishPage, PageInHand, InHand
  <2>2. \A o \in failed \ failed' : menu[o] # NoFile
    BY <1>7, <2>1 DEF FinishPage
  <2>3. menu' = menu
    BY <1>7 DEF FinishPage
  <2>4. CASE cur[r] = Central
    BY <1>7, <2>2, <2>3, <2>4 DEF FinishPage, Return
  <2>5. CASE cur[r] # Central
    BY <1>7, <2>1, <2>2, <2>3, <2>5 DEF FinishPage, NextPage
  <2>6. QED
    BY <2>4, <2>5
<1>8. ASSUME NEW r \in Regens, PageFails(r) PROVE WorkedThrough'
  BY <1>8 DEF PageFails, NextPage, fileVars
<1>9. CASE UNCHANGED vars
  BY <1>9 DEF vars
<1>10. QED
  BY <1>1, <1>2, <1>3, <1>4, <1>5, <1>6, <1>7, <1>8, <1>9, NextCases

\* menu.ipxe has no script menu.
LEMMA CentralHasNoScriptsStep ==
  ASSUME LinkInv, [Next]_vars
  PROVE  CentralHasNoScripts'
<1> USE DEF LinkInv, TypeOK, CentralHasNoScripts
<1>1. CASE Aside
  BY <1>1, AsideFrame
<1>2. ASSUME NEW r \in Regens, FinishPage(r) PROVE CentralHasNoScripts'
  BY <1>2 DEF FinishPage, Pages
<1>3. QED
  BY <1>1, <1>2, NextCases DEF SaveOverride, Abort, Begin, Read, WritePage, PageFails,
     fileVars, vars

\* menu.ipxe is written from a list that has been worked through.
LEMMA CentralLinksStep ==
  ASSUME LinkInv, [Next]_vars
  PROVE  CentralLinksExist'
<1> USE DEF LinkInv, TypeOK, CentralLinksExist, Pages
<1>1. CASE Aside
  BY <1>1, AsideFrame
<1>2. ASSUME NEW p \in Pages, SaveOverride(p) PROVE CentralLinksExist'
  BY <1>2, MenuPublicationAssumption DEF SaveOverride
<1>3. ASSUME NEW r \in Regens, WritePage(r) PROVE CentralLinksExist'
  <2>1. menu' = [menu EXCEPT ![cur[r]] = snap[r]] /\ failed' = failed /\ snap[r] \in Content
    BY <1>3 DEF WritePage
  <2>2. \A o \in OsTypes : menu[o] # NoFile => menu'[o] # NoFile
    BY <2>1, ContentIsFile
  <2>3. CASE cur[r] = Central
    <3>1. \A o \in snap[r].links : o \in OsTypes /\ (menu[o] # NoFile \/ o \in failed)
      BY <1>3, <2>3, MenuPublicationAssumption DEF WritePage, PageInHand, InHand, WorkedThrough
    <3>2. QED
      BY <2>1, <2>2, <2>3, <3>1
  <2>4. CASE cur[r] # Central
    <3>1. menu'[Central] = menu[Central]
      BY <2>1, <2>4
    <3>2. menu[Central] \notin {NoFile, Manual} => menu[Central].links \subseteq OsTypes
      BY DEF Content
    <3>3. QED
      BY <2>1, <2>2, <3>1, <3>2
  <2>5. QED
    BY <2>3, <2>4
<1>4. ASSUME NEW r \in Regens, FinishPage(r) PROVE CentralLinksExist'
  <2>1. menu' = menu /\ \A o \in failed \ failed' : menu[o] # NoFile
    BY <1>4 DEF FinishPage, PageInHand, InHand
  <2>2. QED
    BY <2>1
<1>5. ASSUME NEW r \in Regens, PageFails(r) PROVE CentralLinksExist'
  BY <1>5 DEF PageFails, fileVars
<1>6. QED
  BY <1>1, <1>2, <1>3, <1>4, <1>5, NextCases DEF Abort, Begin, Read, fileVars, vars
-----------------------------------------------------------------------------
\* A page stays current, or out of date, as long as neither its files nor what the
\* database asks for change.
LEMMA SameDemand ==
  ASSUME NEW p \in Pages, rev' = rev, scripted' = scripted, site' = site, rows' = rows
  PROVE  /\ Wanted(p)' = Wanted(p)
         /\ WantedAutres(p)' = WantedAutres(p)
BY DEF Wanted, WantedAutres, AutresOf, Links

\* Writing the wanted content of a page in hand makes it current.
LEMMA AutresFollows ==
  ASSUME LinkInv, NEW r \in Regens, InHand(r, cur[r]), snap[r] = Wanted(cur[r])
  PROVE  (IF cur[r] = Central THEN autres[cur[r]] ELSE StaleAutres(r, cur[r]))
           = WantedAutres(cur[r])
BY DEF LinkInv, CentralHasNoScripts, StaleAutres, WantedAutres, AutresOf

\* Changes either ask for a regeneration or end the promise; a lost request ends it.
LEMMA KeptAside ==
  ASSUME IInv, Aside
  PROVE  KeptIsComing'
<1> USE DEF IInv, LinkInv, TypeOK
<1> SUFFICES ASSUME NEW p \in Pages, p \notin failed', Live(p)', why'[p] = "kept"
             PROVE  \/ Current(p)'
                    \/ owing' > 0
                    \/ queued' > 0
                    \/ \E r \in Regens : Brings(r, p)'
  BY DEF KeptIsComing
<1>1. CASE \/ \E q \in Pages, scripts \in BOOLEAN : Change(q, scripts)
           \/ ChangeSite
           \/ Regenerate
           \/ Post
  BY <1>1 DEF Change, ChangeSite, Regenerate, Post, Owe
<1>2. CASE LoseRequest
  <2>1. why[p] = "kept" /\ Current(p)
    BY <1>2 DEF LoseRequest, Drop
  <2>2. menu' = menu /\ autres' = autres
    BY <1>2 DEF LoseRequest, fileVars
  <2>3. Current(p)'
    BY <1>2, <2>1, <2>2, SameDemand DEF LoseRequest, dbVars, Current
  <2>4. QED
    BY <2>3
<1>3. CASE \/ \E q \in Pages, scripts \in BOOLEAN : ChangeSilently(q, scripts)
           \/ \E o \in OsTypes : AddOsType(o) \/ DeleteOsType(o)
  <2> DEFINE Untouched == /\ why[p] = "kept" /\ Live(p)
                          /\ rev'[p] = rev[p]
                          /\ site' = site
                          /\ p = Central => rows' = rows
                          /\ p # Central => (p \in scripted' <=> p \in scripted)
  <2>1. ASSUME NEW q \in Pages, NEW scripts \in BOOLEAN, ChangeSilently(q, scripts)
        PROVE  Untouched
    <3>1. p # q /\ why[p] = "kept"
      BY <2>1 DEF ChangeSilently
    <3>2. QED
      BY <2>1, <3>1 DEF ChangeSilently, Revise, Live
  <2>2. ASSUME NEW o \in OsTypes, AddOsType(o) \/ DeleteOsType(o)
        PROVE  Untouched
    <3>1. p # o /\ p # Central /\ why[p] = "kept"
      BY <2>2 DEF AddOsType, DeleteOsType, Pages
    <3>2. QED
      BY <2>2, <3>1 DEF AddOsType, DeleteOsType, Live
  <2>3. Untouched /\ Links(p)' = Links(p)
    <3>1. Untouched
      BY <1>3, <2>1, <2>2
    <3>2. QED
      BY <3>1 DEF Links
  <2>4. UNCHANGED <<menu, autres, regenVars, failed, owing, queued>>
    BY <1>3 DEF ChangeSilently, Revise, AddOsType, DeleteOsType, fileVars, regenVars
  <2>5. Wanted(p)' = Wanted(p) /\ WantedAutres(p)' = WantedAutres(p)
    BY <2>3 DEF Wanted, WantedAutres, AutresOf
  <2>6. Current(p)' = Current(p) /\ \A r \in Regens : Brings(r, p) => Brings(r, p)'
    BY <2>3, <2>4, <2>5 DEF Current, Brings, InHand, Idle, regenVars
  <2>7. QED
    BY <2>3, <2>4, <2>6 DEF KeptIsComing
<1>4. QED
  BY <1>1, <1>2, <1>3 DEF Aside

\* A regeneration that fails ends the promise for what it leaves out of date.
LEMMA KeptAbort ==
  ASSUME IInv, NEW r \in Regens, Abort(r)
  PROVE  KeptIsComing'
<1> USE DEF IInv, LinkInv, TypeOK
<1> SUFFICES ASSUME NEW p \in Pages, why'[p] = "kept"
             PROVE  Current(p)'
  BY DEF KeptIsComing
<1>1. Current(p)
  BY DEF Abort, Drop
<1>2. UNCHANGED <<dbVars, fileVars>>
  BY DEF Abort
<1>3. QED
  BY <1>1, <1>2, SameDemand DEF dbVars, fileVars, Current

\* A regeneration that starts brings every page of the database.
LEMMA KeptBegin ==
  ASSUME IInv, NEW r \in Regens, Begin(r)
  PROVE  KeptIsComing'
<1> USE DEF IInv, LinkInv, TypeOK
<1> SUFFICES ASSUME NEW p \in Pages, Live(p)'
             PROVE  Brings(r, p)'
  BY DEF KeptIsComing
<1>1. Live(p) /\ UNCHANGED dbVars
  BY DEF Begin, Live, dbVars
<1>2. QED
  BY <1>1 DEF Begin, Brings, InHand, Idle, dbVars, Live

\* Rendering a page takes what the database asks for, and the page in hand only.
LEMMA KeptRead ==
  ASSUME IInv, NEW r \in Regens, NEW q \in Pages, Read(r, q)
  PROVE  KeptIsComing'
<1> USE DEF IInv, LinkInv, TypeOK
<1>1. UNCHANGED <<dbVars, owing, queued, fileVars, list, lsite, todo, why, failed>>
  BY DEF Read
<1>2. \A p \in Pages : Current(p)' = Current(p) /\ Live(p)' = Live(p) /\ Wanted(p)' = Wanted(p)
  BY <1>1, SameDemand DEF Current, Live, dbVars, fileVars
<1>3. ASSUME NEW p \in Pages, NEW k \in Regens, Brings(k, p) PROVE Brings(k, p)'
  <2>1. CASE k = r /\ p = q
    <3>1. snap'[r] = [rev |-> rev[p], site |-> lsite[r], links |-> RenderedLinks(r, p)]
      BY <2>1 DEF Read
    <3>2. snap'[r] = Wanted(p) /\ pc'[r] = "read"
      BY <2>1, <1>3, <3>1 DEF Read, Brings, Wanted, RenderedLinks, Links
    <3>3. QED
      BY <1>1, <1>2, <1>3, <2>1, <3>2 DEF Brings, InHand, Idle, dbVars
  <2>2. CASE ~(k = r /\ p = q)
    BY <1>1, <1>2, <1>3, <2>2 DEF Read, Brings, InHand, Idle, dbVars, fileVars
  <2>3. QED
    BY <2>1, <2>2
<1>4. QED
  BY <1>1, <1>2, <1>3 DEF KeptIsComing

\* A page is written: it is the wanted one, or it takes the wanted one away and the
\* promise ends, or whoever was to bring the page still does.
LEMMA KeptWrite ==
  ASSUME IInv, NEW r \in Regens, WritePage(r)
  PROVE  KeptIsComing'
<1> USE DEF IInv, LinkInv, TypeOK
<1>1. UNCHANGED <<dbVars, owing, queued, autres, list, lsite, todo, cur, snap, failed>>
  BY DEF WritePage
<1>2. \A p \in Pages : /\ Live(p)' = Live(p)
                       /\ Wanted(p)' = Wanted(p)
                       /\ WantedAutres(p)' = WantedAutres(p)
  BY <1>1, SameDemand DEF Live, dbVars
<1>3. \A p \in Pages : p # cur[r] => menu'[p] = menu[p]
  BY DEF WritePage
<1>4. menu'[cur[r]] = snap[r] /\ cur[r] \in Pages /\ InHand(r, cur[r])
  BY DEF WritePage, InHand
<1>5. \A p \in Pages : why'[p] = "kept" =>
        why[p] = "kept" /\ (menu[p] = Wanted(p) => menu'[p] = Wanted(p))
  BY <1>3, <1>4 DEF WritePage
<1>6. ASSUME NEW p \in Pages, why'[p] = "kept", Current(p) PROVE Current(p)'
  BY <1>1, <1>2, <1>5, <1>6 DEF Current
<1>7. ASSUME NEW p \in Pages, why'[p] = "kept", NEW k \in Regens, Brings(k, p)
      PROVE  Brings(k, p)'
  <2>1. ~Idle(k)' /\ p \in todo'[k] /\ lsite'[k] = site' /\ (p = Central => list'[k] = rows')
    BY <1>1, <1>7 DEF Brings, WritePage, Idle, dbVars
  <2>2. InHand(k, p)' => InHand(k, p)
    BY <1>1 DEF InHand, WritePage
  <2>3. InHand(k, p)' /\ pc'[k] = "written" => menu'[p] = Wanted(p)
    <3>1. CASE k = r
      BY <1>1, <1>4, <1>7, <2>2, <3>1 DEF Brings, InHand
    <3>2. CASE k # r
      BY <1>1, <1>5, <1>7, <2>2, <3>2 DEF Brings, WritePage
    <3>3. QED
      BY <3>1, <3>2
  <2>4. QED
    BY <1>1, <1>2, <1>7, <2>1, <2>2, <2>3 DEF Brings
<1>8. QED
  BY <1>1, <1>2, <1>5, <1>6, <1>7 DEF KeptIsComing

\* A page is finished: its script menu follows its menu, or the promise ends, or
\* whoever was to bring the page still does.
LEMMA KeptFinish ==
  ASSUME IInv, NEW r \in Regens, FinishPage(r)
  PROVE  KeptIsComing'
<1> USE DEF IInv, LinkInv, TypeOK
<1> PICK q \in Pages : q = cur[r]
  OBVIOUS
<1>1. UNCHANGED <<dbVars, owing, queued, menu>>
  BY DEF FinishPage
<1>2. \A p \in Pages : /\ Live(p)' = Live(p)
                       /\ Wanted(p)' = Wanted(p)
                       /\ WantedAutres(p)' = WantedAutres(p)
  BY <1>1, SameDemand DEF Live, dbVars
<1>3. InHand(r, q) /\ (q = Central => todo[r] = {Central})
  BY DEF FinishPage, InHand, PageInHand
<1>4. \A p \in Pages : p # q =>
        autres'[p] = autres[p] /\ why'[p] = why[p] /\ (p \in failed' <=> p \in failed)
  BY DEF FinishPage
<1>5. autres'[q] = IF q = Central THEN autres[q] ELSE StaleAutres(r, q)
  BY <1>3 DEF FinishPage
<1>6. ASSUME NEW p \in Pages, NEW k \in Regens, Brings(k, p), k # r \/ p # q
      PROVE  Brings(k, p)'
  <2>1. CASE k # r
    <3>1. UNCHANGED <<pc[k], todo[k], list[k], lsite[k], cur[k], snap[k]>>
      BY <2>1 DEF FinishPage, Return, NextPage
    <3>2. QED
      BY <1>1, <1>2, <1>6, <3>1 DEF Brings, InHand, Idle, dbVars
  <2>2. CASE k = r
    <3>1. q # Central
      BY <1>3, <1>6, <2>2 DEF Brings
    <3>2. NextPage(r)
      BY <3>1 DEF FinishPage
    <3>3. p \in todo'[r] /\ pc'[r] = "loop" /\ list' = list /\ lsite' = lsite
      BY <1>6, <2>2, <3>2 DEF NextPage, Brings
    <3>4. QED
      BY <1>1, <1>2, <1>6, <2>2, <3>3 DEF Brings, InHand, Idle, dbVars
  <2>3. QED
    BY <2>1, <2>2
<1>7. CASE menu[q] = Wanted(q) /\ autres'[q] = WantedAutres(q)
  <2>1. Current(q)'
    BY <1>1, <1>2, <1>3, <1>7 DEF Current
  <2>2. QED
    BY <1>1, <1>2, <1>3, <1>4, <1>6, <2>1 DEF KeptIsComing, Current
<1>8. CASE ~(menu[q] = Wanted(q) /\ autres'[q] = WantedAutres(q))
  <2>1. failed' = failed
    BY <1>8 DEF FinishPage
  <2>2. why'[q] = "kept" =>
          why[q] = "kept" /\ ~(autres[q] = WantedAutres(q) /\ autres'[q] # autres[q])
    BY <1>3, <1>8 DEF FinishPage
  <2>3. ~Brings(r, q)
    <3>1. SUFFICES ASSUME Brings(r, q) PROVE FALSE
      OBVIOUS
    <3>2. snap[r] = Wanted(q) /\ menu[q] = Wanted(q)
      BY <1>3, <3>1 DEF Brings, FinishPage
    <3>3. autres'[q] = WantedAutres(q)
      BY <1>3, <1>5, <3>2, AutresFollows
    <3>4. QED
      BY <1>8, <3>2, <3>3
  <2>4. why'[q] = "kept" => ~Current(q)
    BY <1>8, <2>2 DEF Current
  <2>5. QED
    BY <1>1, <1>2, <1>3, <1>4, <1>6, <2>1, <2>2, <2>3, <2>4 DEF KeptIsComing, Current
<1>9. QED
  BY <1>7, <1>8

\* A page that cannot be generated is excepted; the others stay to do.
LEMMA KeptFails ==
  ASSUME IInv, NEW r \in Regens, PageFails(r)
  PROVE  KeptIsComing'
<1> USE DEF IInv, LinkInv, TypeOK
<1>1. UNCHANGED <<dbVars, owing, queued, fileVars, why>> /\ failed' = failed \cup {cur[r]}
  BY DEF PageFails
<1>2. \A p \in Pages : Current(p)' = Current(p) /\ Live(p)' = Live(p) /\ Wanted(p)' = Wanted(p)
  BY <1>1, SameDemand DEF Current, Live, dbVars, fileVars
<1>3. ASSUME NEW p \in Pages \ failed', NEW k \in Regens, Brings(k, p) PROVE Brings(k, p)'
  <2>1. p # cur[r]
    BY <1>1
  <2>2. CASE k = r
    BY <1>1, <1>2, <1>3, <2>1, <2>2 DEF PageFails, NextPage, Brings, InHand, Idle, dbVars, fileVars
  <2>3. CASE k # r
    <3>1. UNCHANGED <<pc[k], todo[k], list[k], lsite[k], cur[k], snap[k]>>
      BY <2>3 DEF PageFails, NextPage
    <3>2. QED
      BY <1>1, <1>2, <1>3, <3>1 DEF Brings, InHand, Idle, dbVars, fileVars
  <2>4. QED
    BY <2>2, <2>3
<1>4. QED
  BY <1>1, <1>2, <1>3 DEF KeptIsComing

\* Every step keeps the promise.
LEMMA KeptStep ==
  ASSUME IInv, [Next]_vars
  PROVE  KeptIsComing'
<1>1. ASSUME NEW p \in Pages, SaveOverride(p) PROVE KeptIsComing'
  BY <1>1 DEF SaveOverride, Owe, KeptIsComing, IInv, LinkInv, TypeOK
<1>2. CASE UNCHANGED vars
  BY <1>2 DEF vars, KeptIsComing, Live, Current, Brings, InHand, Idle, Wanted, WantedAutres,
              AutresOf, Links, IInv
<1>3. QED
  BY <1>1, <1>2, NextCases, KeptAside, KeptAbort, KeptBegin, KeptRead, KeptWrite, KeptFinish,
     KeptFails
-----------------------------------------------------------------------------
LEMMA AtStart == Init => IInv
<1> SUFFICES ASSUME Init PROVE IInv
  OBVIOUS
<1>1. TypeOK
  BY MenuPublicationAssumption, NoPageIsContent DEF Init, TypeOK, Reasons, Pages
<1>2. PageInHand /\ WorkedThrough /\ CentralHasNoScripts /\ CentralLinksExist
  BY DEF Init, PageInHand, InHand, WorkedThrough, CentralHasNoScripts, CentralLinksExist, Pages
<1>3. KeptIsComing
  BY DEF Init, KeptIsComing
<1>4. QED
  BY <1>1, <1>2, <1>3 DEF IInv, LinkInv

\* The inductive invariant holds at any moment.
THEOREM Invariance == Spec => []IInv
<1>1. IInv /\ [Next]_vars => IInv'
  BY TypeStep, PageInHandStep, WorkedThroughStep, CentralHasNoScriptsStep, CentralLinksStep,
     KeptStep DEF IInv, LinkInv
<1>2. QED
  BY <1>1, AtStart, PTL DEF Spec

\* The state always has its types, whatever the number of regenerations.
THEOREM TypeCorrect == Spec => []TypeOK
<1>1. IInv => TypeOK
  BY DEF IInv, LinkInv
<1>2. QED
  BY <1>1, Invariance, PTL

\* menu.ipxe never chains to a menu that was never written, whatever regenerations
\* and deletions overlap.
THEOREM NoBrokenLink == Spec => []CentralLinksExist
<1>1. IInv => CentralLinksExist
  BY DEF IInv, LinkInv
<1>2. QED
  BY <1>1, Invariance, PTL

\* When all regenerations are over, a page is out of date only for a known reason.
THEOREM NoForgottenPage == Spec => []FreshUnlessExcused
<1>1. IInv => FreshUnlessExcused
  BY DEF IInv, LinkInv, TypeOK, KeptIsComing, FreshUnlessExcused, Settled, Brings
<1>2. QED
  BY <1>1, Invariance, PTL

-----------------------------------------------------------------------------
(***************************************************************************)
(* The safety part of MenuView.                                            *)
(***************************************************************************)
Shown == [p \in Pages |-> <<menu[p], autres[p]>>]
Asked == [p \in Pages |-> <<Wanted(p), WantedAutres(p)>>]
Kept == {p \in Pages \ failed : Live(p) /\ why[p] = "kept"}

\* What a client sees of a page is fresh when both its files are.
LEMMA FreshIsCurrent ==
  ASSUME NEW p \in Pages
  PROVE  /\ View!Fresh(p) <=> Current(p)
         /\ View!Fresh(p)' <=> Current(p)'
BY DEF View!Fresh, Current

\* A change, and a request that is lost, leave what clients see and keep no new page.
LEMMA ViewAside == ASSUME TypeOK, Aside PROVE View!Demand
<1>1. Shown' = Shown
  BY AsideFrame DEF Shown
<1>2. Kept' \subseteq Kept
  <2> SUFFICES ASSUME NEW p \in Pages, p \notin failed', Live(p)', why'[p] = "kept"
               PROVE  p \notin failed /\ Live(p) /\ why[p] = "kept"
    BY DEF Kept
  <2>1. p \notin failed
    BY AsideFrame
  <2>2. CASE \/ \E q \in Pages, scripts \in BOOLEAN : Change(q, scripts)
             \/ ChangeSite
             \/ Regenerate
             \/ Post
             \/ LoseRequest
    BY <2>2 DEF Change, Revise, ChangeSite, Regenerate, Post, LoseRequest, Drop, Live, dbVars,
                TypeOK
  <2>3. CASE \/ \E q \in Pages, scripts \in BOOLEAN : ChangeSilently(q, scripts)
             \/ \E o \in OsTypes : AddOsType(o) \/ DeleteOsType(o)
    BY <2>3, MenuPublicationAssumption
       DEF ChangeSilently, Revise, AddOsType, DeleteOsType, Live, TypeOK, Pages
  <2>4. QED
    BY <2>1, <2>2, <2>3 DEF Aside
<1>3. QED
  BY <1>1, <1>2 DEF View!Demand, Shown, Kept

\* The database does not change while files are written.
LEMMA AskedFrame == ASSUME UNCHANGED dbVars PROVE Asked' = Asked /\ \A p \in Pages : Live(p)' = Live(p)
BY SameDemand DEF dbVars, Asked, Live

\* An administrator's page takes the place of one page.
LEMMA ViewOverride ==
  ASSUME TypeOK, NEW p \in Pages, SaveOverride(p)
  PROVE  View!Override(p)
<1>1. Asked' = Asked /\ Kept' = Kept
  BY AskedFrame DEF SaveOverride, Kept
<1>2. Shown'[p] = <<Manual, autres[p]>> /\ Shown' = [Shown EXCEPT ![p] = Shown'[p]]
  BY DEF SaveOverride, Shown, TypeOK
<1>3. Shown'[p] \in {Manual} \X (Content \cup {NoFile})
  BY <1>2 DEF TypeOK
<1>4. QED
  BY <1>1, <1>2, <1>3 DEF View!Override, Shown, Asked, Kept

\* Writing a page publishes it.
LEMMA ViewWrite ==
  ASSUME TypeOK, NEW r \in Regens, WritePage(r)
  PROVE  \E p \in Pages : View!Publish(p)
<1> PICK q \in Pages : q = cur[r]
  BY DEF TypeOK
<1>1. Asked' = Asked /\ \A p \in Pages : Live(p)' = Live(p)
  BY AskedFrame DEF WritePage
<1>2. Shown' = [Shown EXCEPT ![q] = Shown'[q]]
  BY DEF WritePage, Shown, TypeOK
<1>3. Kept' \ {q} = Kept \ {q} /\ (q \in Kept' => q \in Kept)
  BY <1>1 DEF WritePage, Kept, TypeOK
<1>4. q \in Kept' => Current(q)' \/ ~Current(q)
  <2> SUFFICES ASSUME why'[q] = "kept", Current(q) PROVE Current(q)'
    BY DEF Kept
  <2>1. menu[q] = Wanted(q) /\ autres[q] = WantedAutres(q)
    BY DEF Current
  <2>2. menu'[q] = snap[r] /\ snap[r] = Wanted(q) /\ autres' = autres
    BY <2>1 DEF WritePage, TypeOK
  <2>3. Wanted(q)' = Wanted(q) /\ WantedAutres(q)' = WantedAutres(q)
    BY SameDemand DEF WritePage, dbVars
  <2>4. QED
    BY <2>1, <2>2, <2>3 DEF Current
<1>5. QED
  BY <1>1, <1>2, <1>3, <1>4, FreshIsCurrent DEF View!Publish, Shown, Asked, Kept

\* Finishing a page publishes it.
LEMMA ViewFinish ==
  ASSUME TypeOK, NEW r \in Regens, FinishPage(r)
  PROVE  \E p \in Pages : View!Publish(p)
<1> PICK q \in Pages : q = cur[r]
  BY DEF TypeOK
<1>1. Asked' = Asked /\ \A p \in Pages : Live(p)' = Live(p)
  BY AskedFrame DEF FinishPage
<1>2. Shown' = [Shown EXCEPT ![q] = Shown'[q]]
  BY DEF FinishPage, Shown, TypeOK
<1>3. Kept' \ {q} = Kept \ {q}
  BY <1>1 DEF FinishPage, Kept, TypeOK
<1>4. q \in Kept' => Current(q)' \/ (q \in Kept /\ ~Current(q))
  <2>1. Wanted(q)' = Wanted(q) /\ WantedAutres(q)' = WantedAutres(q) /\ menu' = menu
    BY SameDemand DEF FinishPage, dbVars
  <2>2. CASE menu[q] = Wanted(q) /\ autres'[q] = WantedAutres(q)
    BY <2>1, <2>2 DEF Current
  <2>3. CASE ~(menu[q] = Wanted(q) /\ autres'[q] = WantedAutres(q))
    <3>1. failed' = failed
      BY <2>3 DEF FinishPage
    <3>2. why'[q] = "kept" =>
            why[q] = "kept" /\ ~(autres[q] = WantedAutres(q) /\ autres'[q] # autres[q])
      BY <2>3 DEF FinishPage, TypeOK
    <3>3. QED
      BY <1>1, <2>3, <3>1, <3>2 DEF Kept, Current
  <2>4. QED
    BY <2>2, <2>3
<1>5. QED
  BY <1>1, <1>2, <1>3, <1>4, FreshIsCurrent DEF View!Publish, Shown, Asked, Kept

\* A generation that fails gives the promise up for its pages.
LEMMA ViewGiveUp ==
  ASSUME TypeOK, NEW r \in Regens, Abort(r) \/ PageFails(r)
  PROVE  View!GiveUp
<1>1. Asked' = Asked /\ \A p \in Pages : Live(p)' = Live(p)
  BY AskedFrame DEF Abort, PageFails
<1>2. Shown' = Shown
  BY DEF Abort, PageFails, fileVars, Shown
<1>3. Kept' \subseteq Kept
  BY <1>1 DEF Abort, Drop, PageFails, Kept
<1>4. QED
  BY <1>1, <1>2, <1>3 DEF View!GiveUp, Shown, Asked, Kept

\* The steps a client does not see.
LEMMA ViewStutter ==
  ASSUME \/ \E r \in Regens : Begin(r) \/ \E p \in Pages : Read(r, p)
         \/ UNCHANGED vars
  PROVE  UNCHANGED View!vars
<1>1. UNCHANGED <<dbVars, fileVars, why, failed>>
  BY DEF Begin, Read, vars, dbVars, fileVars
<1>2. Asked' = Asked /\ Shown' = Shown /\ Kept' = Kept
  BY <1>1, AskedFrame DEF fileVars, Shown, Kept
<1>3. QED
  BY <1>2 DEF View!vars, Shown, Asked, Kept

\* Whatever handlers and regenerations do, a client sees what MenuView allows: a page
\* that is kept never goes back to an old state of the database.
THEOREM ServesViewSafely == Spec => View!Init /\ [][View!Next]_View!vars
<1>1. Init => View!Init
  BY DEF Init, View!Init
<1>2. TypeOK /\ [Next]_vars => [View!Next]_View!vars
  BY NextCases, ViewAside, ViewOverride, ViewWrite, ViewFinish, ViewGiveUp, ViewStutter
     DEF View!Next
<1>3. QED
  BY <1>1, <1>2, TypeCorrect, PTL DEF Spec

=============================================================================
