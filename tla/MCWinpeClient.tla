---------------------------- MODULE MCWinpeClient ----------------------------
(***************************************************************************)
(* Answer files of up to three <settings>, with the components that the    *)
(* library merges: accounts in several of them, logons, languages.         *)
(***************************************************************************)
EXTENDS WinpeClient

ShellWith(us, logon, other) ==
  [Comp(Shell) EXCEPT !.accounts = [u \in us |-> "master"], !.logon = logon, !.other = other]
IntlWith(n, l, setup) == [Comp(n) EXCEPT !.lang = l, !.setup = setup]

Oobe1 == Settings("oobeSystem", <<ShellWith({"owner"}, "owner", {"commands"})>>)
Oobe2 == Settings("oobeSystem", <<ShellWith({"owner", "guest"}, None, {}), IntlWith(Intl, "en", "absent")>>)
Oobe3 == Settings("oobeSystem", <<ShellWith({}, "guest", {}), ShellWith({"guest"}, None, {"zone"})>>)
Pe1   == Settings("windowsPE", <<IntlWith(IntlPE, "en", "nested")>>)
Spec1 == Settings("specialize", <<[ShellWith({}, None, {}) EXCEPT !.host = "old"],
                                  IntlWith(Intl, "en", "absent")>>)

\* A name with a blank may become another, or that of an account of the master.
MCStripped(u) == CASE u = "own er" -> "owner" [] u = "Jean D" -> "JeanD" [] u = "?" -> "" [] OTHER -> u

Pieces == {Oobe1, Oobe2, Oobe3, Pe1, Spec1}
MCDocs == UNION {[1..n -> Pieces] : n \in 0..3}
=============================================================================
