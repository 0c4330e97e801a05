---------------------------- MODULE MCExtraction ----------------------------
(***************************************************************************)
(* Instances of Extraction: OS types with and without a plan, and for each *)
(* the images made of the files that its searches can confuse.             *)
(***************************************************************************)
EXTENDS Extraction

F(img, id, dir, stem, ext, upper, size) ==
  [dir |-> dir, stem |-> stem, ext |-> ext, upper |-> upper, size |-> size, src |-> <<img, id>>]

Os(slug, boot, full, specs) == [slug |-> slug, boot |-> boot, full |-> full, specs |-> specs]
NameSpec(stem, ext, max)    == [kind |-> "name", name |-> Name(stem, ext), max |-> max]
GlobSpec(stem)              == [kind |-> "glob", name |-> Name(stem, ""), max |-> 2]
VoidSpec                    == [kind |-> "void", name |-> Plain(""), max |-> 1]

Spec1 == <<NameSpec(<<"linux26">>, "", 1), NameSpec(<<"vmlinuz">>, "", 1), NameSpec(<<"initrd">>, ".img", 2)>>
Spec2 == <<VoidSpec, NameSpec(<<"vmlinuz">>, "", 2), NameSpec(<<"initrd">>, ".img", 1)>>
Spec3 == <<GlobSpec(<<"vmlinuz">>), NameSpec(<<"initramfs", "lts">>, "", 1),
           NameSpec(<<"modloop", "lts">>, "", 1)>>

LinuxOsTypes ==
  {Os("ubuntu", "linux", FALSE, <<>>), Os("debian", "linux", TRUE, <<>>),
   Os("rocky", "linux", FALSE, <<>>), Os("nixos", "linux", FALSE, <<>>),
   Os("proxmox", "linux", FALSE, <<>>), Os("proxmox", "linux", FALSE, Spec1),
   Os("nixos", "linux", TRUE, Spec2), Os("memtest", "tools", TRUE, Spec2)}

AlpineOsTypes == {Os("alpine", "linux", FALSE, <<>>), Os("alpine", "linux", FALSE, Spec3)}

WindowsOsTypes ==
  {Os("windows", "windows", FALSE, <<>>),
   Os("windows", "windows", FALSE, <<NameSpec(<<"boot">>, ".wim", 1)>>)}

EsxiOsTypes == {Os("esxi", "esxi", FALSE, <<>>), Os("esxi", "esxi", TRUE, <<>>)}

MCOsTypes == LinuxOsTypes \cup AlpineOsTypes \cup WindowsOsTypes \cup EsxiOsTypes

LinuxFiles(i) ==
  {F(i, "k1", <<"casper">>, <<"vmlinuz">>, "", FALSE, 1),
   F(i, "k2", <<"boot">>, <<"vmlinuz", "6">>, "other", FALSE, 2),
   F(i, "k3", <<"boot">>, <<"linux26">>, "", FALSE, 1),
   F(i, "i1", <<"casper">>, <<"initrd">>, ".img", FALSE, 1),
   F(i, "i2", <<"live">>, <<"initrd">>, ".img", FALSE, 2)}

AlpineFiles(i) ==
  {F(i, "k1", <<"boot">>, <<"vmlinuz", "lts">>, "", FALSE, 1),
   F(i, "i1", <<"boot">>, <<"initramfs", "lts">>, "", FALSE, 1),
   F(i, "m1", <<"boot">>, <<"modloop", "lts">>, "", FALSE, 2)}

WindowsFiles(i) ==
  {F(i, "w1", <<"sources">>, <<"boot">>, ".wim", TRUE, 1),
   F(i, "w2", <<"x", "sources">>, <<"boot">>, ".wim", FALSE, 2),
   F(i, "b1", <<"boot">>, <<"bcd">>, "", FALSE, 1),
   F(i, "b2", <<"efi", "microsoft", "boot">>, <<"bcd">>, "", FALSE, 1),
   F(i, "s1", <<"boot">>, <<"boot">>, ".sdi", FALSE, 1)}

EsxiFiles(i, c) ==
  {F(i, "e1", <<"efi">>, <<"bootx64">>, ".efi", TRUE, 1),
   F(i, c, <<>>, <<"boot">>, ".cfg", TRUE, 1),
   F(i, "k1", <<>>, <<"b">>, ".b00", TRUE, 1),
   F(i, "x1", <<"efi">>, <<"crypto64">>, ".efi", TRUE, 1),
   F(i, "m1", <<>>, <<"s">>, ".v00", TRUE, 1),
   F(i, "m2", <<"addon">>, <<"s">>, ".v00", FALSE, 1),
   F(i, "m3", <<>>, <<"s">>, ".v00", FALSE, 2)}

Ref(dir, stem, ext, upper) == [dir |-> dir, stem |-> stem, ext |-> ext, upper |-> upper]
Line(key, refs)            == [key |-> key, refs |-> refs, bom |-> FALSE]
KernelLine                 == Line("kernel", <<Ref(<<>>, <<"b">>, ".b00", TRUE)>>)
ModA                       == Ref(<<>>, <<"s">>, ".v00", TRUE)
ModB                       == Ref(<<"addon">>, <<"s">>, ".v00", FALSE)
CryptoRef                  == Ref(<<>>, <<"crypto64">>, ".efi", FALSE)

MCBootCfgs ==
  [c1 |-> <<Line("prefix", <<>>), KernelLine, Line("modules", <<ModA, CryptoRef>>)>>,
   c2 |-> <<KernelLine, Line("module", <<ModB>>), Line("module", <<ModA>>), Line("kernelopt", <<>>)>>,
   c3 |-> <<[Line("modules", <<ModA>>) EXCEPT !.bom = TRUE], KernelLine, Line("module", <<ModB>>)>>]

MCCfgText(src) == IF src[2] \in DOMAIN MCBootCfgs THEN MCBootCfgs[src[2]] ELSE <<>>

Image(name, files) == [name |-> name, files |-> files]

\* Images that lack at most n of the files.
Lacking(files, n) == {fs \in SUBSET files : Cardinality(fs) >= Cardinality(files) - n}

ImagesOf(name, files, n) == {Image(name, fs) : fs \in Lacking(files, n)}

MCImages(o) ==
  CASE o.boot = "esxi" ->
         UNION {ImagesOf("i1", EsxiFiles("i1", c), 2) : c \in {"c1", "c2", "c3"}}
           \cup ImagesOf("i2", EsxiFiles("i2", "c2"), 2)
    [] o.boot = "windows" -> UNION {ImagesOf(i, WindowsFiles(i), 2) : i \in {"i1", "i2"}}
    [] o.slug = "alpine"  -> UNION {ImagesOf(i, AlpineFiles(i), 3) : i \in {"i1", "i2"}}
    [] OTHER              -> UNION {ImagesOf(i, LinuxFiles(i), 3) : i \in {"i1", "i2"}}
=============================================================================
