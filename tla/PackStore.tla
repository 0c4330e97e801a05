----------------------------- MODULE PackStore -----------------------------
(***************************************************************************)
(* Language packs: boot/language-packs/<locale>/*.cab and                  *)
(* language-packs.json, the list of the locales that have a pack.  An      *)
(* upload files each .cab under the locale its name tells, then rebuilds   *)
(* the list; the regeneration of the WinPE scripts rebuilds it too, and so *)
(* does whoever finds no list, or no JSON in it.                           *)
(***************************************************************************)
EXTENDS CabNames, FiniteSets

CONSTANTS
  Names,         \* names of .cab files
  PackUploads,   \* bound: the uploads, positive numbers
  Rebuilders,    \* bound: regenerations of scripts and readers, other numbers
  MaxFiles,      \* bound: files of an upload
  NoList

ASSUME PackAssumption == Names \subseteq Seq(STRING)

VARIABLES
  cab,      \* name -> 0 no file, u what upload u sent, -u what it has written so far,
            \* Mixed the writes of two, Hollow an empty file
  list,     \* language-packs.json; NoList: no file, or no JSON
  pop,      \* uploads and rebuilders
  praced,   \* history: two rebuilds overlapped, or one failed
  crossing, \* history: names two uploads wrote at once
  unlisted  \* history: an upload failed and left files without a rebuild

pvars == <<cab, list, pop, praced, crossing, unlisted>>

PackActors == PackUploads \cup Rebuilders
Mixed  == -1 - Cardinality(PackUploads)
Hollow == -2 - Cardinality(PackUploads)
FolderOf == [n \in Names |-> LocaleOf(n)]   \* folder_for_locale_id
Locales == {FolderOf[n] : n \in Names} \ {NoLocale}
IdlePack == [pc |-> "idle", todo |-> <<>>, saved |-> FALSE, seen |-> {}]

PackInit ==
  /\ cab = [n \in Names |-> 0]
  /\ list \in {NoList, {}}
  /\ pop = [a \in PackActors |-> IdlePack]
  /\ praced = FALSE /\ crossing = {} /\ unlisted = FALSE

PAt(a, p) == pop[a].pc = p
OnDiskPacks == {l \in Locales : \E n \in Names : cab[n] # 0 /\ FolderOf[n] = l}
WritersOf(n) == {u \in PackUploads : pop[u].pc = "writing cab" /\ Head(pop[u].todo) = n}
-----------------------------------------------------------------------------
(***************************************************************************)
(* upload_winpe_language_packs                                             *)
(***************************************************************************)
\* Names without a locale are left out; without any other the request is refused.
BeginPacks(u, files) ==
  LET known == SelectSeq(files, LAMBDA n : FolderOf[n] # NoLocale)
  IN /\ PAt(u, "idle") /\ known # <<>>
     /\ pop' = [pop EXCEPT ![u] = [IdlePack EXCEPT !.pc = "next cab", !.todo = known]]
     /\ UNCHANGED <<cab, list, praced, crossing, unlisted>>

\* _write_one_cab truncates a file of that name, which another may still be writing.
OpenCab(u) ==
  LET n == Head(pop[u].todo)
      others == WritersOf(n)
  IN /\ PAt(u, "next cab") /\ pop[u].todo # <<>>
     /\ cab' = [cab EXCEPT ![n] = IF others = {} THEN -u ELSE Mixed]
     /\ crossing' = IF others = {} THEN crossing ELSE crossing \cup {n}
     /\ pop' = [pop EXCEPT ![u].pc = "writing cab"]
     /\ UNCHANGED <<list, praced, unlisted>>

SaveCab_FirstChunk(u) ==   \* faulty: the copy ends with the first chunk
  /\ PAt(u, "writing cab")
  /\ pop' = [pop EXCEPT ![u].pc = "next cab", ![u].todo = Tail(@), ![u].saved = TRUE]
  /\ UNCHANGED <<cab, list, praced, crossing, unlisted>>

\* The file ends with its last byte, or was empty and stays as an empty file.
SaveCab(u) ==
  LET n == Head(pop[u].todo)
  IN /\ PAt(u, "writing cab")
     /\ \E got \in BOOLEAN :
          /\ pop' = [pop EXCEPT ![u].pc = "next cab", ![u].todo = Tail(@), ![u].saved = @ \/ got]
          /\ cab' = [cab EXCEPT ![n] = IF @ # -u THEN @ ELSE IF got THEN u ELSE Hollow]
     /\ UNCHANGED <<list, praced, crossing, unlisted>>

\* A full disk: what was written stays, and the list is not rebuilt.
SaveCabFails(u) ==
  /\ PAt(u, "writing cab")
  /\ pop' = [pop EXCEPT ![u] = [IdlePack EXCEPT !.pc = "ended"]]
  /\ unlisted' = TRUE
  /\ UNCHANGED <<cab, list, praced, crossing>>

\* Nothing saved but empty files: an error, without a rebuild.
EndPacks(u) ==
  /\ PAt(u, "next cab") /\ pop[u].todo = <<>>
  /\ pop' = [pop EXCEPT ![u].pc = IF pop[u].saved THEN "rebuilding" ELSE "ended"]
  /\ unlisted' = (unlisted \/ ~pop[u].saved)
  /\ UNCHANGED <<cab, list, praced, crossing>>
-----------------------------------------------------------------------------
(***************************************************************************)
(* rebuild_catalog: the list follows the files, whatever it was            *)
(***************************************************************************)
BeginRebuild(r) ==
  /\ PAt(r, "idle")
  /\ pop' = [pop EXCEPT ![r].pc = "rebuilding"]
  /\ UNCHANGED <<cab, list, praced, crossing, unlisted>>

Rebuilding == {a \in PackActors : pop[a].pc \in {"truncating", "writing"}}

ScanPacks_Kept ==   \* faulty: locales of the list are not looked for on disk again
  IF list = NoList THEN OnDiskPacks ELSE list
ScanPacks == OnDiskPacks

Scan(a) ==
  /\ PAt(a, "rebuilding")
  /\ pop' = [pop EXCEPT ![a].pc = "truncating", ![a].seen = ScanPacks]
  /\ praced' = (praced \/ Rebuilding # {})
  /\ UNCHANGED <<cab, list, crossing, unlisted>>

TruncateList(a) ==
  /\ PAt(a, "truncating")
  /\ list' = NoList
  /\ pop' = [pop EXCEPT ![a].pc = "writing"]
  /\ UNCHANGED <<cab, praced, crossing, unlisted>>

WriteList(a) ==
  /\ PAt(a, "writing")
  /\ \/ list' = pop[a].seen /\ UNCHANGED praced
     \/ list' = NoList /\ praced' = TRUE
  /\ pop' = [pop EXCEPT ![a].pc = "ended", ![a].seen = {}]
  /\ UNCHANGED <<cab, crossing, unlisted>>

PackNext ==
  \/ \E u \in PackUploads :
       \/ \E k \in 1..MaxFiles : \E files \in [1..k -> Names] :
            (\A i, j \in 1..k : i < j => files[i] # files[j]) /\ BeginPacks(u, files)
       \/ OpenCab(u) \/ SaveCab(u) \/ SaveCabFails(u) \/ EndPacks(u)
  \/ \E r \in Rebuilders : BeginRebuild(r)
  \/ \E a \in PackActors : Scan(a) \/ TruncateList(a) \/ WriteList(a)
-----------------------------------------------------------------------------
(***************************************************************************)
(* Properties                                                              *)
(***************************************************************************)

\* When all is over, the list of languages is that of the folders that hold a pack, unless
\* rebuilds overlapped (or one failed) or an upload left files without a rebuild.
PacksListed ==
  (\A u \in PackActors : pop[u].pc \in {"idle", "ended"}) /\ ~praced /\ ~unlisted /\ list # NoList =>
    list = OnDiskPacks

\* A pack nobody is writing is the file of one upload, whole, unless the file was empty, its
\* upload failed, or two uploads wrote that name at once.
PacksWhole ==
  \A n \in Names : WritersOf(n) = {} /\ ~unlisted /\ n \notin crossing =>
    cab[n] \in PackUploads \cup {0, Hollow}

\* A pack on disk whose name tells one known language is in the folder of that language,
\* unless another short word stands before it; behind "LanguageFeatures-OCR" it may, if
\* these words stand in no other place (locale_id_from_cab_filename).
FiledUnderItsLanguage ==
  \A n \in Names : \A i \in 1..Len(n) - 1 :
    /\ cab[n] # 0
    /\ n[i] \in KnownLangs /\ n[i + 1] \notin Long \cup Ignored \cup {"~"}
    /\ \A j \in 1..Len(n) \ {i} : n[j] \notin KnownLangs
    /\ \/ OcrAt(n) = {i - 2}
       \/ OcrAt(n) = {} /\ (i = 1 \/ n[i - 1] \notin Short)
    => FolderOf[n] = <<n[i], n[i + 1]>>
=============================================================================
