----------------------------- MODULE MCLedStrip -----------------------------
(* Three pixels and a counter of as many bits as it can show, with posts   *)
(* that time out at once, later, never or are no number, fill parts of the *)
(* strip, start the counter before its wrap and scan on two ticks.         *)
EXTENDS LedStrip

Base == [NoParams("manual", "no", "none", 0) EXCEPT !.color = "given"]
MCPost ==
    { [Base EXCEPT !.mode = "scan", !.color = "random"],
      [Base EXCEPT !.mode = "scan", !.extra = "1sec", !.timeout = "number", !.secs = 1],
      [Base EXCEPT !.mode = "fill", !.from = 2, !.to = 3, !.timeout = "number", !.secs = 0],
      [Base EXCEPT !.mode = "fill", !.to = 1, !.timeout = "number", !.secs = -1],
      [Base EXCEPT !.mode = "binCnt", !.extra = "number", !.start = CounterSize - 2],
      [Base EXCEPT !.mode = "binCnt", !.clear = "yes", !.color = "random", !.extra = "fast",
                   !.timeout = "bad"],
      [Base EXCEPT !.mode = "binCnt", !.extra = "1sec"],
      [Base EXCEPT !.mode = "pastel", !.extra = "10sec"],
      [Base EXCEPT !.mode = "invalid"] }
=============================================================================
