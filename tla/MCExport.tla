------------------------------ MODULE MCExport ------------------------------
(* Export for TLC: a file and a file in a directory of the same name, and   *)
(* names that begin with dots.                                              *)
EXTENDS Export

CONSTANTS x, y

MCExPaths ==
  {<<"a">>, <<"a", "/", "b">>, <<".", ".", ".", ".">>, <<".", ".", ".", ".", "/", "a">>}
=============================================================================
