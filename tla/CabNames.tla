------------------------------ MODULE CabNames ------------------------------
(***************************************************************************)
(* The language of a .cab file, read in its name.  A name is the sequence  *)
(* of its segments, joined by "-" or "_"; the segment "~" stands for any   *)
(* other separator.  A segment is one of: a word of two or three letters   *)
(* (Short), a word of at most eight characters, or a longer one (Long).    *)
(***************************************************************************)
EXTENDS Integers, Sequences, FiniteSetsExt

CONSTANTS
  Short, Long,    \* segments by length
  KnownLangs,     \* languages of the presets, all Short
  Ignored,        \* _IGNORE_LOCALE_PART
  NoLocale

ASSUME CabNamesAssumption == KnownLangs \subseteq Short \ Ignored

\* _LOCALE_TOKEN_RE: a short word and a word of at most eight characters, side by side.
Token(n, i) ==
  /\ i \in 1..Len(n) - 1 /\ n[i] \in Short
  /\ n[i + 1] \notin Long \cup {"~"}

LocaleAt(n, i) == <<n[i], n[i + 1]>>
IsLocale(n, i) == n[i] \notin Ignored /\ n[i + 1] \notin Ignored   \* _locale_from_match

\* finditer: from left to right, a token hides the one that it overlaps; of the tokens
\* that overlap in a row, the first and every other one are found.
Found(n) ==
  {i \in 1..Len(n) - 1 :
     \E k \in 0..i - 1 : /\ k % 2 = 0 /\ ~Token(n, i - k - 1)
                         /\ \A j \in i - k..i : Token(n, j)}

\* A locale counts where it is found first.
Candidates(n) ==
  {i \in Found(n) : IsLocale(n, i) /\ \A j \in Found(n) : j < i => LocaleAt(n, j) # LocaleAt(n, i)}

LastLocale(n, found) == IF found = {} THEN NoLocale ELSE LocaleAt(n, Max(found))

PickBest_Last(n, found) == LastLocale(n, found)   \* faulty: unknown languages count as much
\* The markers only ever keep an end of the list, so they never change its last element.
PickBest(n, found) ==
  LET known == {i \in found : n[i] \in KnownLangs}
  IN LastLocale(n, IF known # {} THEN known ELSE found)

\* _OCR_FOD_LOCALE_RE: "LanguageFeatures-OCR", a short word and any other, which stands
\* for its first eight characters; the first match counts.
OcrAt(n) == {i \in 1..Len(n) - 3 : /\ n[i] = "LanguageFeatures" /\ n[i + 1] = "OCR"
                                   /\ n[i + 2] \in Short /\ n[i + 3] # "~"}

LocaleOf(n) ==
  IF OcrAt(n) # {} /\ IsLocale(n, Min(OcrAt(n)) + 2) THEN LocaleAt(n, Min(OcrAt(n)) + 2)
  ELSE PickBest(n, Candidates(n))
=============================================================================
