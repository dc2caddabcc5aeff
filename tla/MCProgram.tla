----------------------------- MODULE MCProgram -----------------------------
(* Two workers at most and two requests; one pin for each of the matrix's  *)
(* roles that matter, and one chip that may be passed over.                *)
EXTENDS Program

MCBuilds == {[mapped |-> TRUE, spi |-> TRUE], [mapped |-> FALSE, spi |-> FALSE]}
MCRequests == {<<"head", "/stop">>, <<"post", "/stop">>}
MCMatrixPins == <<8, 11>>
MCStripPins == <<24>>

\* The delimiters, the escape character and a letter; escapes that are cut off
\* or wrong.
Words(S, n) == UNION {[1 .. l -> S] : l \in 0 .. n}
MCFields(n) == Words({65, Space, Equals, Ampersand, Percent}, 1) \X Words({65, Space, Equals, Ampersand, Percent}, n)
MCSentForms == [1 .. 1 -> MCFields(2)] \cup [1 .. 2 -> MCFields(1)]
MCBodies == Words({Equals, Ampersand, Percent, 48, 103}, 4)

\* Integers of 16 bits: 655.35 is the greatest that fits, 654 the greatest whole.
MCLoadTokens == Words({48, 53, 54, Dot, 120}, 6)
MCLoadLines == Words({Refused, 1, 2}, 3)
MCMemFiles == Words({"MemTotal", "MemFree", "MemAvailable", "MemFreeMore"} \X {Refused, 1, 2}, 2)
                  \cup {<< <<"MemFree", Refused>>, <<"MemTotal", 1>>, <<"MemFree", 2>>, <<"MemFree", 1>> >>}
MCTexts == Words({0, 8, 10, 13, 31, 65, 117, 200, Quote, Backslash}, 3)
=============================================================================
