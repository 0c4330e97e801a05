------------------------------ MODULE EsxiBoot ------------------------------
(***************************************************************************)
(* What iso_extractor.py makes of an ESXi image once it is extracted: one  *)
(* lower-case tree, a boot.cfg rewritten for HTTP, and the list of files   *)
(* iPXE loads in advance.                                                  *)
(*                                                                         *)
(* The text of a boot.cfg, CfgText of the file of an image that it is, is  *)
(* a sequence of lines [key, refs, bom]: refs are the paths the line names *)
(* (as in BootFinders), bom says that a byte order mark precedes the key   *)
(* (a first line only).                                                    *)
(***************************************************************************)
EXTENDS BootFinders

CONSTANT CfgText(_)   \* the lines of the boot.cfg that has that src

Lower(p)     == [p EXCEPT !.upper = FALSE]
Shallowest(fs) == {f \in fs : \A g \in fs : Len(f.dir) <= Len(g.dir)}

\* _esxi_materialize_lowercase_tree: of the files that differ in case only, the
\* first in the order of their names (capitals first) is kept.
Materialize(tree) ==
  {Lower(f) : f \in {g \in tree : ~\E h \in tree : PathOf(h) # PathOf(g)
                                     /\ Lower(PathOf(h)) = Lower(PathOf(g)) /\ InCapitals(h)}}

At(p, f)          == [dir |-> p.dir, stem |-> p.stem, ext |-> p.ext,
                      upper |-> f.upper, size |-> f.size, src |-> f.src]

\* Writing files into a tree replaces those of the same path.
Overlay(old, new) == {f \in old : PathOf(f) \notin {PathOf(g) : g \in new}} \cup new

\* _esxi_ensure_crypto64_lowercase_http_alias: a link at the root of the tree,
\* unless a file of that name is there already.
Crypto(tree) == {f \in tree : NameOf(f) = Name(<<"crypto64">>, ".efi")}

WithCryptoAlias(tree) ==
  IF \E f \in Crypto(tree) : f.dir = <<>> THEN {tree}
  ELSE IF Crypto(tree) = {} THEN {tree}
  ELSE {tree \cup {[f EXCEPT !.dir = <<>>]} : f \in Shallowest(Crypto(tree))}
-----------------------------------------------------------------------------
\* _parse_esxi_boot_cfg_text: a mark before the first key hides it.
Keyed(cfg, ks) == SelectSeq(cfg, LAMBDA line : line.key \in ks)
Parsed(cfg)    == SelectSeq(cfg, LAMBDA line : ~line.bom)
RefsOf(lines)  == FlattenSeq([i \in DOMAIN lines |-> lines[i].refs])

ModuleRefs(cfg) == RefsOf(Keyed(Parsed(cfg), {"module", "modules"}))
KernelRef(cfg)  ==   \* the last kernel= line wins
  LET lines == Keyed(Parsed(cfg), {"kernel"})
  IN IF lines = <<>> THEN {} ELSE ToSet(Last(lines).refs)
Prefix(cfg)     ==
  LET lines == Keyed(Parsed(cfg), {"prefix"})
  IN IF lines = <<>> \/ Last(lines).refs = <<>> THEN <<>> ELSE Last(lines).refs[1].dir

\* _esxi_resolve_file: the places where VMware's loader would look, and of the
\* files found there the shallowest one; else any file of that name in the index
\* made before the alias.
Resolve(tree, index, cfgDir, prefix, ref) ==
  LET inDir(d) == [ref EXCEPT !.dir = d]
      under(d) == [ref EXCEPT !.dir = d \o ref.dir]
      places   == {under(cfgDir), inDir(cfgDir), under(<<>>), inDir(<<>>)} \cup
                  (IF prefix = <<>> \/ IsPrefix(prefix, ref.dir) THEN {}
                   ELSE {under(prefix), inDir(prefix)})
      found    == {f \in tree : PathOf(f) \in places}
  IN Shallowest(IF found # {} THEN found ELSE {f \in index : NameOf(f) = NameOf(ref)})

\* _rewrite_esxi_boot_cfg_http goes through the lines again, this time without
\* the mark, and takes the resolved modules in turn.
RewriteFits(cfg, modules) ==
  Len(RefsOf(Keyed(cfg, {"module", "modules"}))) = Len(modules)

\* _normalize_esxi_network_kernelopt adds runweasel where there is a kernelopt.
HasRunweasel(cfg) == Keyed(cfg, {"kernelopt"}) # <<>>
-----------------------------------------------------------------------------
\* All sequences that pick one member of each set.
Picks(sets) == {s \in [DOMAIN sets -> UNION ToSet(sets)] : \A i \in DOMAIN sets : s[i] \in sets[i]}

\* The order of the preload list.
Preload_KernelLast(crypto, k, ms) == crypto \o ms \o <<k>>   \* faulty
Preload(crypto, k, ms) == crypto \o <<k>> \o ms

\* _esxi_boot_cfg_http_payload: kernel and modules resolved, in VMware's order,
\* behind crypto64.efi unless that is one of them.
Payloads(tree, index, cfgFile) ==
  LET cfg     == CfgText(cfgFile.src)
      refs    == ModuleRefs(cfg)
      at(ref) == Resolve(tree, index, cfgFile.dir, Prefix(cfg), ref)
      kernels == UNION {at(ref) : ref \in KernelRef(cfg)}
      lists   == Picks([i \in DOMAIN refs |-> at(refs[i])])
      crypto  == Shallowest(Crypto(index))
      ahead(k, ms) == {c \in crypto : c.src \notin {f.src : f \in {k} \cup ToSet(ms)}}
  IN IF refs = <<>> \/ ~RewriteFits(cfg, refs) THEN {}
     ELSE UNION {{Preload(SetToSeq(ahead(k, ms)), k, ms) : ms \in lists} : k \in kernels}

\* _pick_esxi_boot_cfg_any: of the boot.cfg on disk a shallowest one, the image's or
\* one that an earlier image left.
IsBootCfg(f)  == NameOf(f) = Name(<<"boot">>, ".cfg")
BootCfgs(fs)  == Shallowest({f \in fs : IsBootCfg(f)})
RefsIn(f)     == ModuleRefs(CfgText(f.src))

EsxiPayloads(tree, index) == UNION {Payloads(tree, index, c) : c \in BootCfgs(index)}

IpxeBootCfg  == [dir |-> <<>>, stem |-> <<"ipxe", "boot">>, ext |-> ".cfg", upper |-> FALSE]
IpxeManual   == [dir |-> <<>>, stem |-> <<"ipxe", "boot", "manual">>, ext |-> ".cfg", upper |-> FALSE]
MbootEfi     == [dir |-> <<>>, stem |-> <<"mboot">>, ext |-> ".efi", upper |-> FALSE]
Written(p)   == [dir |-> p.dir, stem |-> p.stem, ext |-> p.ext, upper |-> p.upper,
                 size |-> 1, src |-> <<"generated", "cfg">>]

Loaders(index)      == Shallowest({f \in index : NameOf(f) = Name(<<"bootx64">>, ".efi")})
WithCfgs(tree)      == Overlay(tree, {Written(IpxeBootCfg), Written(IpxeManual)})
WithLoader(tree, f) == Overlay(WithCfgs(tree), {At(MbootEfi, f)})
EsxiEntry(p)        == [kernel |-> MbootEfi, boot_cfg |-> IpxeBootCfg,
                        modules |-> [i \in DOMAIN p |-> PathOf(p[i])]]

\* _extract_esxi_from_full_dest: outcomes [dest, entry], the tree that is left on
\* disk and the fields found.
EsxiOutcomesIn(tree, index) ==
  LET payloads == EsxiPayloads(tree, index)
  IN IF payloads = {} THEN {[dest |-> tree, entry |-> Failed]}
     ELSE IF Loaders(index) = {} THEN {[dest |-> WithCfgs(tree), entry |-> Failed]}
     ELSE {[dest |-> WithLoader(tree, f), entry |-> EsxiEntry(p)] : f \in Loaders(index), p \in payloads}

EsxiOutcomes(extracted) ==
  LET index == Materialize(extracted)
  IN UNION {EsxiOutcomesIn(tree, index) : tree \in WithCryptoAlias(index)}
=============================================================================
