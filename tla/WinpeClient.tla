---------------------------- MODULE WinpeClient ----------------------------
(***************************************************************************)
(* A machine that boots WinPE: startnet.cmd (winpe_scripts.py), then       *)
(* deploy.ps1 and inject-drivers.ps1 (winpe_ps_lib.py).                    *)
(*                                                                         *)
(* The scripts read the boot share while the server goes on changing it:   *)
(* what a file of the share holds is decided anew at each reading.  DISM,  *)
(* diskpart and bcdboot are external programs that succeed or fail.        *)
(***************************************************************************)
EXTENDS Unattend

CONSTANTS
  MaxTries,     \* attempts at mounting the share, 20 in the script
  Languages,    \* ids the wizard offers, and those of masters
  Users,        \* names an operator may ask for
  Stripped(_),  \* what is left of a name: blanks around it and characters outside [a-zA-Z0-9._-] go
  Refused,      \* stripped names that are refused: those Windows keeps for itself, the empty one
  Docs,         \* answer files a master may contain
  NoDoc

ASSUME WinpeClientAssumption ==
  /\ MaxTries \in Nat \ {0} /\ Languages # {} /\ NoDoc \notin Docs
  /\ \A u \in Users : Stripped(Stripped(u)) = Stripped(u) /\ None \notin {u, Stripped(u)}

VARIABLES
  pc,        \* where the scripts are
  tries,     \* _SMB_TRY
  pings,     \* _PING_OK
  disk,      \* disk 0: as it was, partitioned and empty, or with an image
  choice,    \* what the operator chose in the wizard
  original,  \* the answer file of the master that was found
  panther,   \* Windows\Panther\unattend.xml on W:
  language,  \* default interface language of the image on W:
  drivers,   \* the drivers of the chosen profile are in the image
  skipped    \* history: steps taken for done without having been carried out

boot == <<tries, pings>>
image == <<disk, original, panther, language, drivers, skipped>>
vars == <<pc, tries, pings, disk, choice, original, panther, language, drivers, skipped>>

NoChoice == [lang |-> None, host |-> None, user |-> None, profile |-> None]

Init ==
  /\ pc = "start" /\ tries = 0 /\ pings = 0
  /\ disk = "as before" /\ choice = NoChoice
  /\ original = NoDoc /\ panther = NoDoc /\ language = None /\ drivers = FALSE /\ skipped = {}

Stop(unchanged) == pc' = "stopped" /\ UNCHANGED unchanged
-----------------------------------------------------------------------------
(***************************************************************************)
(* startnet.cmd                                                            *)
(***************************************************************************)
\* diskpart cleans disk 0 before anything is asked or reached.
Partition ==
  /\ pc = "start"
  /\ \/ pc' = "waiting" /\ disk' = "empty"
     \/ pc' = "stopped" /\ disk' \in {"as before", "empty"}
  /\ UNCHANGED <<boot, choice, original, panther, language, drivers, skipped>>

\* :wait_host_ready wants three answers in a row and waits for ever.
PingAnswered ==
  /\ pc = "waiting" /\ pings < 3
  /\ pings' = pings + 1
  /\ UNCHANGED <<pc, tries, choice, image>>

PingLost ==
  /\ pc = "waiting" /\ pings < 3
  /\ pings' = 0
  /\ UNCHANGED <<pc, tries, choice, image>>

\* Called once before the loop (tries is 0), then before each net use.
HostReady ==
  /\ pc = "waiting" /\ pings = 3
  /\ pings' = 0
  /\ IF tries = 0 THEN pc' = pc /\ tries' = 1 ELSE pc' = "mounting" /\ UNCHANGED tries
  /\ UNCHANGED <<choice, image>>

Mount ==
  /\ pc = "mounting"
  /\ \/ pc' = "mounted" /\ UNCHANGED tries
     \/ tries < MaxTries /\ pc' = "waiting" /\ tries' = tries + 1
     \/ tries = MaxTries /\ pc' = "stopped" /\ UNCHANGED tries
  /\ UNCHANGED <<pings, choice, image>>
-----------------------------------------------------------------------------
(***************************************************************************)
(* deploy.ps1                                                              *)
(***************************************************************************)
\* The scripts, masters.json and the embedded languages are there, or it stops.
StartDeploy ==
  /\ pc = "mounted"
  /\ pc' \in {"wizard", "stopped"}
  /\ UNCHANGED <<boot, choice, image>>

\* Try-DetectDriverProfile: a profile whose name or slug occurs in the model, or none.
DetectedProfiles == {None, "profile"}

Chosen(l, h, u, d) ==
  /\ pc' = "chosen"
  /\ choice' = [lang |-> l, host |-> h, user |-> u, profile |-> d]

\* Both wizards want a password with a name.  The console takes a detected profile
\* without asking.
ConsoleWizard ==
  /\ pc = "wizard"
  /\ \E l \in Languages, h \in {None, "pc1"}, u \in Users \cup {None}, auto \in DetectedProfiles :
       \E d \in IF auto # None THEN {auto} ELSE {None, "profile"} : Chosen(l, h, u, d)
  /\ UNCHANGED <<boot, image>>

\* In the window any entry may be changed, or the whole cancelled; a name or a
\* password that is missing ends it too.
WindowWizard ==
  /\ pc = "wizard"
  /\ \/ \E l \in Languages, h \in {None, "pc1"}, u \in Users \cup {None}, d \in {None, "profile"} :
          Chosen(l, h, u, d)
     \/ pc' = "stopped" /\ UNCHANGED choice
  /\ UNCHANGED <<boot, image>>

\* Get-OrCreateOfflineUnattendDocument: Panther first, then where it finds one,
\* else a document with nothing in it.
FoundDoc(inPanther, elsewhere) ==
  IF inPanther # NoDoc THEN inPanther ELSE IF elsewhere # NoDoc THEN elsewhere ELSE <<>>

\* DISM /Apply-Image, when install.wim is still there.
ApplyImage ==
  /\ pc = "chosen"
  /\ \/ \E d \in Docs \cup {NoDoc}, s \in {NoDoc, CHOOSE x \in Docs : TRUE}, l \in Languages :
          /\ pc' = "applied" /\ disk' = "image" /\ language' = l
          /\ original' = FoundDoc(d, s) /\ panther' = d
          /\ UNCHANGED <<boot, choice, drivers, skipped>>
     \/ Stop(<<boot, choice, image>>)

\* Install-WinpeDrivers: without a readable catalogue nothing is installed, and the
\* deployment goes on.
InstallDrivers ==
  /\ pc = "applied"
  /\ \/ /\ pc' = "drivers"
        /\ drivers' = (choice.profile # None)
        /\ UNCHANGED skipped
     \/ /\ pc' = "drivers" /\ choice.profile # None
        /\ skipped' = skipped \cup {"drivers"}
        /\ UNCHANGED drivers
     \/ /\ pc' = "stopped" /\ choice.profile # None
        /\ UNCHANGED <<drivers, skipped>>
  /\ UNCHANGED <<boot, choice, disk, original, panther, language>>

\* Install-WinpeLanguagePacks: only a failure of DISM stops the deployment.
InstallLanguagePacks ==
  /\ pc = "drivers"
  /\ \/ pc' = "packs" /\ UNCHANGED skipped
     \/ pc' = "packs" /\ skipped' = skipped \cup {"packs"}
     \/ pc' = "stopped" /\ UNCHANGED skipped
  /\ UNCHANGED <<boot, choice, disk, original, panther, language, drivers>>

\* The account the library will write: nobody is told that its name is another than
\* the one asked for, or one that the master has.  (Names that differ by case are one.)
Accepted(c) ==
  IF c.user = None \/ Stripped(c.user) \in Refused THEN None ELSE Stripped(c.user)

\* Update-OfflineUnattend up to Save-UnattendDocument.
Personalise ==
  /\ pc = "packs"
  /\ LET d == Personalised(original, choice.lang, choice.host, Accepted(choice))
     IN IF StructureValid(d) THEN pc' = "saved" /\ panther' = d
        ELSE pc' = "invalid" /\ UNCHANGED panther
  /\ UNCHANGED <<boot, choice, disk, original, language, drivers, skipped>>

Verified_Never(now) == TRUE   \* faulty

\* Apply-OfflineUnattendIntlToImage: Apply-Unattend may fail, Set-SKUIntlDefaults
\* may not; then Get-Intl tells the language the image has, if it tells anything.
Verified(now) == now = choice.lang

SetLanguage ==
  /\ pc = "saved"
  /\ \/ \E l \in {choice.lang, language} :
          /\ language' = l
          /\ \/ Verified(l) /\ pc' = "customised" /\ UNCHANGED skipped
             \/ pc' = "customised" /\ skipped' = skipped \cup {"check"}
             \/ ~Verified(l) /\ pc' = "stopped" /\ UNCHANGED skipped
     \/ pc' = "stopped" /\ language' \in {choice.lang, language} /\ UNCHANGED skipped
  /\ UNCHANGED <<boot, choice, disk, original, panther, drivers>>

\* Ended with an account asked for and not written, or at bcdboot and the restart.
Finish ==
  /\ pc = "customised"
  /\ \/ pc' = "rebooted" /\ (choice.user # None => Accepted(choice) # None)
     \/ pc' = "stopped"
  /\ UNCHANGED <<boot, choice, image>>

Over == pc \in {"stopped", "rebooted", "invalid"} /\ UNCHANGED vars

Next ==
  \/ Partition \/ PingAnswered \/ PingLost \/ HostReady \/ Mount
  \/ StartDeploy \/ ConsoleWizard \/ WindowWizard \/ ApplyImage \/ InstallDrivers \/ InstallLanguagePacks
  \/ Personalise \/ SetLanguage \/ Finish \/ Over

Spec == Init /\ [][Next]_vars
-----------------------------------------------------------------------------
(***************************************************************************)
(* Properties                                                              *)
(***************************************************************************)
Saved == pc \in {"saved", "customised", "rebooted"}

\* A machine restarts into Windows only with the image applied, an account with its
\* logon if the operator asked for one, under what is left of the name once stripped,
\* the chosen language in the image and the chosen drivers; a step the scripts take for
\* done without doing it is the only excuse, which the account does not have
\* (Invoke-WinpeDeployment).
RebootsAsChosen ==
  pc = "rebooted" =>
    /\ disk = "image"
    /\ choice.user # None =>
         LET u == Stripped(choice.user)
         IN u \notin Refused /\ AccountConfigured(panther, u) /\ LogonConfigured(panther, u)
    /\ language = choice.lang \/ "check" \in skipped
    /\ choice.profile # None => drivers \/ "drivers" \in skipped

FirstIn(doc, p, n, x) ==
  \A y \in Found(doc, p, n) : x[1] < y[1] \/ (x[1] = y[1] /\ x[2] <= y[2])

\* The written answer file keeps every local account of the master, as the master wrote
\* it unless its name is what is left of the one asked for (the entry is then rewritten,
\* although the wizard says that the accounts of the master are not changed), a logon
\* when no account was asked for, and all that the library does not know of the first
\* Shell-Setup of oobeSystem, however they were spread over duplicated passes and
\* components.
MasterKept ==
  Saved =>
    /\ \A x \in Found(original, "oobeSystem", Shell) :
         \A u \in DOMAIN At(original, x).accounts :
           \E y \in Found(panther, "oobeSystem", Shell) :
             /\ u \in DOMAIN At(panther, y).accounts
             /\ u # Accepted(choice) => At(panther, y).accounts[u] = "master"
    /\ (choice.user = None /\ \E x \in Found(original, "oobeSystem", Shell) :
                                At(original, x).logon # None)
         => \E x \in Found(original, "oobeSystem", Shell) :
              At(original, x).logon # None /\ LogonConfigured(panther, At(original, x).logon)
    /\ \A x \in Found(original, "oobeSystem", Shell) : FirstIn(original, "oobeSystem", Shell, x) =>
         \A y \in Found(panther, "oobeSystem", Shell) :
           At(original, x).other \subseteq At(panther, y).other

\* What the library repairs is repaired, and the check it makes before saving never fails:
\* one <settings> per pass, one Shell-Setup and one language component in oobeSystem, one
\* language component in windowsPE, whatever the master and the order of the edits.
OneOfEach ==
  /\ pc # "invalid"
  /\ Saved =>
       /\ \A i, k \in DOMAIN panther : panther[i].pass = panther[k].pass => i = k
       /\ \A pn \in {<<"oobeSystem", Shell>>, <<"oobeSystem", Intl>>, <<"windowsPE", IntlPE>>} :
            \A x, y \in Found(panther, pn[1], pn[2]) : x = y

\* Setup and the first logon speak the chosen language: no component of windowsPE or
\* oobeSystem keeps the master's, and SetupUILanguage has its form unless the master
\* had several language components in windowsPE, one of them after the first with its own.
OneLanguage ==
  Saved =>
    /\ \A x \in Found(panther, "windowsPE", IntlPE) \cup Found(panther, "oobeSystem", Intl) :
         At(panther, x).lang = choice.lang
    /\ Found(panther, "windowsPE", IntlPE) # {} /\ Found(panther, "oobeSystem", Intl) # {}
    /\ Cardinality(Found(original, "windowsPE", IntlPE)) <= 1 =>
         \A x \in Found(panther, "windowsPE", IntlPE) : At(panther, x).setup = "nested"

=============================================================================
