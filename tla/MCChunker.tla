----------------------------- MODULE MCChunker ------------------------------
(* Chunker for TLC.  Sizes in bytes.  The requests: a valid one whose       *)
(* window fits a word, one whose window does not, one that is upside down,  *)
(* and one left to default.                                                 *)
EXTENDS Chunker

MCCkDefaults == [min |-> 2, avg |-> 4, max |-> 5, window |-> 5]
MCCkRequests ==
  {[min |-> 2, avg |-> 4, max |-> 6, window |-> 4],
   [min |-> 1, avg |-> 2, max |-> 3, window |-> 6],
   [min |-> 3, avg |-> 2, max |-> 1, window |-> 2],
   [min |-> 0, avg |-> 0, max |-> 0, window |-> 0]}
=============================================================================
