------------------------------ MODULE Unattend ------------------------------
(***************************************************************************)
(* The answer file unattend.xml as the library inject-drivers.ps1 repairs  *)
(* and completes it on the deployed disk (winpe_ps_lib.py).                *)
(*                                                                         *)
(* A document is the sequence of its <settings>, each with a pass and the  *)
(* sequence of its components.  Of a component the model keeps what the    *)
(* library moves: the language, the local accounts (name -> who wrote the  *)
(* entry), the logon, the computer name, and as "other" everything it does *)
(* not know, such as FirstLogonCommands.                                   *)
(***************************************************************************)
EXTENDS Integers, Sequences, SequencesExt, FiniteSetsExt, TLC

None == "none"

Shell  == "Shell-Setup"
Intl   == "International-Core"
IntlPE == "International-Core-WinPE"
Pnp    == "Pnp-Sysprep"

Comp(n) == [name |-> n, lang |-> None, setup |-> "absent", accounts |-> <<>>, logon |-> None,
            host |-> None, oobe |-> FALSE, other |-> {}]

Settings(p, comps) == [pass |-> p, comps |-> comps]
-----------------------------------------------------------------------------
(***************************************************************************)
(* Lookup and creation of elements                                         *)
(***************************************************************************)
HasPass(doc, p)  == \E i \in DOMAIN doc : doc[i].pass = p
FirstOf(doc, p)  == Min({i \in DOMAIN doc : doc[i].pass = p})
HasComp(cs, n)   == \E j \in DOMAIN cs : cs[j].name = n
FirstComp(cs, n) == Min({j \in DOMAIN cs : cs[j].name = n})

\* The components of that name below any <settings> of the pass.
Found(doc, p, n) ==
  {<<i, j>> \in UNION {{i} \X DOMAIN doc[i].comps : i \in DOMAIN doc} :
     doc[i].pass = p /\ doc[i].comps[j].name = n}
At(doc, ij) == doc[ij[1]].comps[ij[2]]

EnsurePass(doc, p) == IF HasPass(doc, p) THEN doc ELSE Append(doc, Settings(p, <<>>))

EnsureComp(doc, p, n) ==
  LET d == EnsurePass(doc, p)
      i == FirstOf(d, p)
  IN IF HasComp(d[i].comps, n) THEN d ELSE [d EXCEPT ![i].comps = Append(@, Comp(n))]

Edit(doc, p, n, Change(_)) ==
  LET d == EnsureComp(doc, p, n)
      i == FirstOf(d, p)
  IN [d EXCEPT ![i].comps[FirstComp(d[i].comps, n)] = Change(@)]
-----------------------------------------------------------------------------
(***************************************************************************)
(* Repair-UnattendDocumentStructure                                        *)
(***************************************************************************)
MergePasses_None(doc) == doc   \* faulty

\* Merge-UnattendSettingsPasses: later <settings> of a pass move into the first.
MergePasses(doc) ==
  FoldLeft(LAMBDA ds, s : IF HasPass(ds, s.pass)
                          THEN [ds EXCEPT ![FirstOf(ds, s.pass)].comps = @ \o s.comps]
                          ELSE Append(ds, s),
           <<>>, doc)

\* The first component of that name takes what the later ones have, and they go.
Fused(cs, n, Join(_, _)) ==
  IF ~HasComp(cs, n) THEN cs
  ELSE LET j    == FirstComp(cs, n)
           rest == SubSeq(cs, j + 1, Len(cs))
           same == SelectSeq(rest, LAMBDA c : c.name = n)
       IN SubSeq(cs, 1, j - 1) \o <<FoldLeft(Join, cs[j], same)>>
            \o SelectSeq(rest, LAMBDA c : c.name # n)

Fuse(doc, p, n, Join(_, _)) ==
  IF HasPass(doc, p) THEN [doc EXCEPT ![FirstOf(doc, p)].comps = Fused(@, n, Join)] ELSE doc

\* Merge-InternationalCoreComponents: each child is copied as text, so that a
\* SetupUILanguage loses the element inside it.
JoinIntl(a, b) ==
  [a EXCEPT !.lang  = IF b.lang = None THEN @ ELSE b.lang,
            !.setup = IF b.setup = "absent" THEN @ ELSE "text"]

MergeAccounts_Replace(mine, extra) == extra   \* faulty

\* Merge-UserAccountsNodes: an account of the same name is not taken over.
MergeAccounts(mine, extra) == mine @@ extra

\* Merge-OobeShellSetupComponents: only the OOBE, UserAccounts and AutoLogon
\* elements of a later component are taken over.
JoinShell(a, b) ==
  [a EXCEPT !.oobe = @ \/ b.oobe, !.accounts = MergeAccounts(@, b.accounts),
            !.logon = IF b.logon = None THEN @ ELSE b.logon]

MergeShells(doc) == Fuse(doc, "oobeSystem", Shell, JoinShell)

Repair(doc) ==
  MergeShells(Fuse(Fuse(MergePasses(doc), "windowsPE", IntlPE, JoinIntl),
                   "oobeSystem", Intl, JoinIntl))

\* Test-UnattendOobeStructureValid
StructureValid(doc) ==
  \A n \in {Shell, Intl} : \A x, y \in Found(doc, "oobeSystem", n) : x = y
-----------------------------------------------------------------------------
(***************************************************************************)
(* What Update-OfflineUnattend writes                                      *)
(***************************************************************************)
\* Ensure-ShellSetupForPass
EnsureShell(doc, p) ==
  LET d == IF p = "oobeSystem" THEN Repair(doc) ELSE doc
  IN IF Found(d, p, Shell) # {} THEN d ELSE EnsureComp(d, p, Shell)

Renamed(cs, h) ==
  FoldLeft(LAMBDA acc, c : Append(acc, IF c.host = None THEN c ELSE [c EXCEPT !.host = h]), <<>>, cs)

\* Set-UnattendComputerName: every ComputerName there is, or a new one.
SetComputerName(doc, h) ==
  LET isSet(s) == /\ s.pass \in {"specialize", "generalize"}
                  /\ \E j \in DOMAIN s.comps : s.comps[j].host # None
  IN IF \E i \in DOMAIN doc : isSet(doc[i])
     THEN FoldLeft(LAMBDA ds, s : Append(ds, IF isSet(s) THEN Settings(s.pass, Renamed(s.comps, h)) ELSE s),
                   <<>>, doc)
     ELSE Edit(EnsureShell(doc, "specialize"), "specialize", Shell, LAMBDA c : [c EXCEPT !.host = h])

\* Sync-UnattendOobeLocalAccount with Ensure-OobeBypassForLocalAccount
SyncAccount(doc, u) ==
  Edit(EnsureShell(doc, "oobeSystem"), "oobeSystem", Shell,
       LAMBDA c : [c EXCEPT !.oobe = TRUE, !.accounts = (u :> "wizard") @@ @])

UpdateAutoLogon(doc, u) ==
  Edit(EnsureShell(doc, "oobeSystem"), "oobeSystem", Shell, LAMBDA c : [c EXCEPT !.logon = u])

AccountsOf(doc) == UNION {DOMAIN At(doc, x).accounts : x \in Found(doc, "oobeSystem", Shell)}

AccountConfigured(doc, u) ==
  \E x \in Found(doc, "oobeSystem", Shell) :
    u \in DOMAIN At(doc, x).accounts /\ At(doc, x).accounts[u] = "wizard"

LogonConfigured(doc, u) == \E x \in Found(doc, "oobeSystem", Shell) : At(doc, x).logon = u

\* Set-InternationalFieldsOnComponent: UILanguage is added inside SetupUILanguage.
SetIntl(c, l, inSetup) ==
  [c EXCEPT !.lang = l,
            !.setup = IF ~inSetup THEN @ ELSE IF @ \in {"text", "mixed"} THEN "mixed" ELSE "nested"]

SetLocale_NoOobe(doc, l) ==   \* faulty
  Edit(doc, "windowsPE", IntlPE, LAMBDA c : SetIntl(c, l, TRUE))

SetLocale(doc, l) ==
  LET pe   == Edit(doc, "windowsPE", IntlPE, LAMBDA c : SetIntl(c, l, TRUE))
      spec == Edit(pe, "specialize", Intl, LAMBDA c : SetIntl(c, l, FALSE))
  IN Edit(spec, "oobeSystem", Intl, LAMBDA c : SetIntl(c, l, FALSE))

EnsurePnp(doc) == EnsureComp(doc, "specialize", Pnp)

\* The edits of Update-OfflineUnattend in its order; None stands for what the
\* wizard left empty or the library refuses.
Personalised(doc, lang, host, user) ==
  LET d1 == Repair(doc)
      d2 == IF lang = None THEN d1 ELSE EnsurePnp(SetLocale(d1, lang))
      d3 == IF host = None THEN d2 ELSE SetComputerName(d2, host)
      d4 == IF user = None THEN d3 ELSE UpdateAutoLogon(SyncAccount(d3, user), user)
  IN Repair(d4)
=============================================================================
