---------------------------- MODULE MCDictionary ----------------------------
(* Two clients that race for the same keys, and a reader, the purge, that  *)
(* iterates while they do.  The data, which the dictionary only passes on, *)
(* is the empty string, the one a caller might take for no answer.         *)
EXTENDS Dictionary

CONSTANTS c1, c2, purge
MCReader == {purge}
=============================================================================
