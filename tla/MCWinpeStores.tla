--------------------------- MODULE MCWinpeStores ---------------------------
(* TLC instance of WinpeStores.                                            *)
EXTENDS WinpeStores

MCDefaultLabel == <<"A", "B", "A">>
MCMachines == {[label |-> "A", slug |-> 1], [label |-> "C", slug |-> 1], [label |-> "B", slug |-> 2]}

MCNames == {
  <<"LanguageFeatures", "OCR", "fr", "FR", "Package", "~", "amd64">>,
  <<"lp", "fr", "FR">>,
  <<"Client", "en", "US", "~", "lp", "v2">>,
  <<"Language", "amd64">> }
=============================================================================
