----------------------------- MODULE MCDisplay -----------------------------
(* Three-bit integers, and posts at the edges: no, one, two and unlimited  *)
(* seconds, no, one and unlimited repeats, and the least int of them.      *)
EXTENDS Display

Message(t, r, x, s, b) ==
    [kind |-> "message", timeout |-> t, repeats |-> r, x |-> x, scroll |-> s, blink |-> b]
MCPost ==
    { Message(2, Forever, 0, "no", "yes"), Message(1, 0, 0, "yes", "no"),
      Message(Forever, 1, 0, "yes", "yes"), Message(0, Forever, 0, "yes", "no"),
      Message(2, 4, 2, "yes", "no"), [kind |-> "background"] }

\* A post that ends by itself.
MCOnePost == { Message(1, 0, 0, "yes", "no") }

\* Entries of the background on one board and on both, for every call and for
\* every other one.
MCBackground ==
    [enabled : BOOLEAN, color : {"red", "yellow"}, step : {"1sec"}, phase : {0, 2}, value : {1}]
MCNoBackground == {[enabled |-> TRUE, color |-> "green", step |-> "none", phase |-> 0, value |-> 0]}
=============================================================================
