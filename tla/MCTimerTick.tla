---------------------------- MODULE MCTimerTick ----------------------------
(* Three services, one of each kind, with the countdowns the code produces *)
(* at the edges of a 12 ms tick: a fast cv tick of exactly one tick, a     *)
(* one-shot bool just under a tick, and a conditional message service.     *)
EXTENDS TimerTick

CONSTANTS fast, oneShot, mail
MCService == {fast, oneShot, mail}
MCInterval == [s \in MCService |->
    CASE s = fast -> 12 [] s = oneShot -> 11 [] s = mail -> -5]
MCPeriodic == [s \in MCService |-> s # oneShot]
MCKind == [s \in MCService |->
    CASE s = fast -> "cv" [] s = oneShot -> "bool" [] s = mail -> "message"]
MCHasCond == {mail}
=============================================================================
