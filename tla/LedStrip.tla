------------------------------ MODULE LedStrip ------------------------------
(***************************************************************************)
(* The LED strip: the thread of src/src/ledStrip.cpp, the six modes of     *)
(* src/src/ledStripInternal.cpp and the pixel buffer of the driver         *)
(* src/lpd8806/LPD8806.cpp, with the queue of posts the web workers fill.  *)
(*                                                                         *)
(* Woken by its fast tick, the thread takes its lock, handles one post and *)
(* runs the handlers of the ticks that are due.  The buffer and what the   *)
(* strip shows differ until show() is called.  Of a color only whether it  *)
(* is lit matters: the colors of pastel and rainbow always are, a random   *)
(* one need not be, since the driver keeps 7 bits of each component.  The  *)
(* positions pastel and rainbow start from only choose colors, and are     *)
(* left out.  A frame of the scan is one step per pixel visited.           *)
(***************************************************************************)
EXTENDS Integers, Sequences

CONSTANTS
    NumPixels,            \* 240 in the code
    LedsVisitedPerFrame,  \* 11 in the code
    CounterSize,          \* 2^64 in the code
    BootTimeout,          \* seconds the strip is tried out for, 3 in the code
    Post,                 \* the posts a web worker may make
    MaxTodo               \* bound: posts waiting

Pixel == 0 .. NumPixels - 1
LastPixel == NumPixels - 1
Mode == {"manual", "pastel", "fill", "rainbow", "scan", "binCnt"}
Tick == {"1sec", "10sec", "1min"}

\* The parameters of a post, by what the code makes of them: the timeout is
\* absent, no number, or a number; the extra parameter may be the start of
\* the counter; 0 stands for a limit of the fill that is not given.
ModePost ==
    [mode : Mode \cup {"invalid"}, clear : {"yes", "no"},
     timeout : {"none", "bad", "number"}, secs : Int,
     extra : Tick \cup {"none", "empty", "fast", "randomColor", "number"},
     start : 0 .. CounterSize - 1, color : {"given", "random"},
     from : Nat, to : Nat]

ASSUME LedStripAssumption ==
    /\ NumPixels \in Nat \ {0, 1}
    /\ LedsVisitedPerFrame \in Nat
    /\ CounterSize \in Nat \ {0}
    /\ BootTimeout \in Nat
    /\ Post \subseteq ModePost
    /\ MaxTodo \in Nat

VARIABLES
    pc,             \* the thread: "asleep", or the next step of its round
    ledStripTodos,
    due,            \* the ticks that expired since they were last looked at
    mode, secsUntilGoingToManualMode, params,  \* LedStripInternalInfo
    pixels,         \* the lit pixels in the buffer of the driver
    strip,          \* the lit pixels of the strip
    scanAt, scanStep, scanColor,  \* the static variables of the scan
    ledsVisited,    \* pixels visited in this frame
    then,           \* where the round goes on after this frame
    counter,        \* the static currentCounterValue
    elapsed,        \* history: one-second ticks of a mode that is timed
    ended,          \* history: the last change of mode was a timeout
    painted,        \* history: pixels filled since the strip was cleared
    wrapped,        \* history: the counter has passed zero
    tint            \* history: the color the counter was last drawn in

modeVars == <<mode, secsUntilGoingToManualMode, params, elapsed, ended, painted>>
picture == <<pixels, strip>>
scanVars == <<scanAt, scanStep, scanColor, ledsVisited, then>>
counterVars == <<counter, wrapped, tint>>
vars == <<pc, ledStripTodos, due, modeVars, picture, scanVars, counterVars>>

\* The parameters LedStripInternal is constructed with, and those of a timeout.
NoParams(m, clear, timeout, secs) ==
    [mode |-> m, clear |-> clear, timeout |-> timeout, secs |-> secs, extra |-> "none",
     start |-> 0, color |-> "random", from |-> 0, to |-> 0]
BootParams == NoParams("rainbow", "no", "number", BootTimeout)
TimeoutParams == NoParams("manual", "yes", "none", 0)

\* wheel: two neighboring components of the color share 127.
Wheel(pos) ==
    LET up == pos % 128
        down == 127 - (pos % 128)
    IN  CASE pos \div 128 = 0 -> [r |-> down, g |-> up, b |-> 0]
          [] pos \div 128 = 1 -> [r |-> 0, g |-> down, b |-> up]
          [] pos \div 128 = 2 -> [r |-> up, g |-> 0, b |-> down]
IsLit(color) == color.r # 0 \/ color.g # 0 \/ color.b # 0

\* The pixels of the rainbow that are lit from whichever position j on the
\* wheel the strip starts, and the pixels pastel and rainbow light: pastel
\* never goes below 63 in red.
RainbowPixels ==
    {i \in Pixel : \A j \in 0 .. 383 :
        IsLit(Wheel((((i * 384) \div NumPixels) + j) % 384))}
AllLit(m) == IF m = "rainbow" THEN RainbowPixels ELSE Pixel

Init ==
    /\ pc = "asleep" /\ ledStripTodos = <<>> /\ due = {}
    /\ mode = "rainbow" /\ secsUntilGoingToManualMode = BootTimeout /\ params = BootParams
    /\ pixels = AllLit("rainbow") /\ strip = pixels
    /\ scanAt = 0 /\ scanStep = 1 /\ scanColor = "dark" /\ ledsVisited = 0 /\ then = "asleep"
    /\ counter = 0
    /\ elapsed = 0 /\ ended = "no" /\ painted = {} /\ wrapped = "no" /\ tint = "dark"

-----------------------------------------------------------------------------
(* Web workers, the tick thread, and the end of the process.               *)

EnqueueMsgModePost(p) ==
    /\ pc \in {"asleep", "stopped"}
    /\ Len(ledStripTodos) < MaxTodo
    /\ ledStripTodos' = Append(ledStripTodos, p)
    /\ UNCHANGED <<pc, due, modeVars, picture, scanVars, counterVars>>

TickExpires(t) ==
    /\ t \notin due
    /\ due' = due \cup {t}
    /\ UNCHANGED <<pc, ledStripTodos, modeVars, picture, scanVars, counterVars>>

\* Terminate was received: deleting `internal' clears the strip.
Terminate ==
    /\ pc = "asleep"
    /\ pc' = "stopped"
    /\ pixels' = {} /\ strip' = {}
    /\ UNCHANGED <<ledStripTodos, due, modeVars, scanVars, counterVars>>

-----------------------------------------------------------------------------
(* Changes of mode.                                                        *)

Lit(S, color) == IF color = "lit" THEN S ELSE {}

\* getPixelColorParam, or a random color for the null color.
Colors(p) == IF p.color = "given" THEN {"lit"} ELSE {"lit", "dark"}

\* The pixels a fill writes to, and the ones it may light.
Mask(p) == {i \in Pixel : (p.from # 0 => i + 1 >= p.from) /\ (p.to # 0 => i + 1 <= p.to)}
Fills(p) ==
    IF p.extra = "randomColor"
    THEN {S \in SUBSET Mask(p) : p.color = "given" =>
             \A i \in Mask(p) : (\A j \in Mask(p) : i <= j) => i \in S}
    ELSE {Lit(Mask(p), c) : c \in Colors(p)}

TimeoutSecs(p) ==
    CASE p.timeout = "number" -> p.secs
      [] p.timeout = "bad"    -> 0
      [] p.timeout = "none"   -> -1

\* The handlerInit of mode m; `kept' is what is left in the buffer.
HandlerInit(m, p, cleared, kept) ==
    \/ /\ m \in {"pastel", "rainbow"}
       /\ pixels' = AllLit(m) /\ strip' = pixels'
       /\ painted' = {}
    \/ /\ m = "fill"
       /\ \E S \in Fills(p) : pixels' = (kept \ Mask(p)) \cup S
       /\ strip' = pixels'
       /\ painted' = (IF cleared THEN {} ELSE painted) \cup Mask(p)
    \/ /\ m \in {"manual", "scan", "binCnt"}
       /\ pixels' = kept
       /\ strip' = IF cleared THEN {} ELSE strip
       /\ painted' = {}

\* Fault: a fill adds to whatever is there.
ClearsStrip_notForFill(m, p) == (m # mode /\ m # "fill") \/ p.clear = "yes"
ClearsStrip(m, p) == m # mode \/ p.clear = "yes"

ChangeLedStripMode(m, p) ==
    /\ mode' = m
    /\ params' = p
    /\ secsUntilGoingToManualMode' = TimeoutSecs(p)
    /\ elapsed' = 0
    /\ LET cleared == ClearsStrip(m, p)
       IN  HandlerInit(m, p, cleared, IF cleared THEN {} ELSE pixels)

-----------------------------------------------------------------------------
(* A round of the thread.                                                  *)

\* At most one post; one without a valid mode is ignored.
CheckTodoList ==
    /\ pc = "asleep"
    /\ pc' = "fast"
    /\ IF ledStripTodos = <<>>
       THEN UNCHANGED <<ledStripTodos, modeVars, picture>>
       ELSE /\ ledStripTodos' = Tail(ledStripTodos)
            /\ LET p == Head(ledStripTodos)
               IN  IF p.mode = "invalid" THEN UNCHANGED <<modeVars, picture>>
                   ELSE ChangeLedStripMode(p.mode, p) /\ ended' = "no"
    /\ UNCHANGED <<due, scanVars, counterVars>>

\* The ticks on which the handlers of the current mode draw.
DrawsOn(t) ==
    CASE mode \in {"manual", "fill"} -> FALSE
      [] mode = "pastel"  -> params.extra = t
      [] mode = "rainbow" -> params.extra = t \/ t = "1min"
      [] mode = "scan"    -> IF t = "fast" THEN params.extra \in {"none", "empty"}
                                           ELSE params.extra = t
      [] mode = "binCnt"  -> t = "1sec" \/ (t = "fast" /\ params.extra = "fast")

\* The pixels of the counter that are visited for value v, and those lit.
Bits(v) == {i \in 0 .. LastPixel - 1 : v \div 2^i # 0}
Ones(v) == {i \in 0 .. LastPixel - 1 : (v \div 2^i) % 2 = 1}

\* Fault: bits that became zero are not cleared.
CounterPixels_onlyLights(base, v, color) == base \cup Lit(Ones(v), color)
CounterPixels(base, v, color) == (base \ Bits(v)) \cup Lit(Ones(v), color)

\* The number the extra parameter begins with, if it begins with one.
StartValue(p) ==
    CASE p.extra = "number" -> p.start
      [] p.extra \in {"1sec", "1min"} -> 1
      [] p.extra = "10sec" -> 10
      [] OTHER -> 0

\* modeBinaryCounterMain: a dark last pixel starts the counter over.
CountUp ==
    LET fresh == LastPixel \notin pixels
        value == IF ~fresh THEN (counter + 1) % CounterSize
                 ELSE StartValue(params) % CounterSize
    IN  /\ counter' = value
        /\ wrapped' = IF fresh THEN "no" ELSE IF value = 0 THEN "yes" ELSE wrapped
        /\ \E color \in Colors(params) :
              /\ tint' = color
              /\ pixels' = CounterPixels(IF fresh THEN {LastPixel} ELSE pixels, value, color)
        /\ strip' = pixels'

\* modeScanMain: a new color for every sweep, then the pixels of this frame.
ScanBegins(next) ==
    /\ pc' = "scan"
    /\ then' = next
    /\ ledsVisited' = 0
    /\ scanColor' \in IF scanAt = 0 THEN Colors(params) ELSE {scanColor}
    /\ UNCHANGED <<scanAt, scanStep>>

Draw(t, next) ==
    \/ /\ ~DrawsOn(t)
       /\ pc' = next
       /\ UNCHANGED <<picture, scanVars, counterVars>>
    \/ /\ DrawsOn(t) /\ mode \in {"pastel", "rainbow"}
       /\ pc' = next
       /\ pixels' = AllLit(mode) /\ strip' = pixels'
       /\ UNCHANGED <<scanVars, counterVars>>
    \/ /\ DrawsOn(t) /\ mode = "binCnt"
       /\ pc' = next
       /\ CountUp
       /\ UNCHANGED scanVars
    \/ /\ DrawsOn(t) /\ mode = "scan"
       /\ ScanBegins(next)
       /\ UNCHANGED <<picture, counterVars>>

FastTick ==
    /\ pc = "fast"
    /\ Draw("fast", "1sec")
    /\ UNCHANGED <<ledStripTodos, due, modeVars>>

\* Fault: a mode that has nothing to draw is done with the tick.
SlowTick_earlyReturn(t, next, skip) ==
    /\ pc = t
    /\ due' = due \ {t}
    /\ IF t \in due /\ DrawsOn(t)
       THEN Draw(t, next)
       ELSE pc' = skip /\ UNCHANGED <<picture, scanVars, counterVars>>
    /\ UNCHANGED <<ledStripTodos, modeVars>>

\* A handler that runs when its tick is due.
SlowTick(t, next, skip) ==
    /\ pc = t
    /\ due' = due \ {t}
    /\ IF t \in due
       THEN Draw(t, next)
       ELSE pc' = skip /\ UNCHANGED <<picture, scanVars, counterVars>>
    /\ UNCHANGED <<ledStripTodos, modeVars>>

\* Fault: the direction is kept at the far end.
FarEnd_keepsStep == [at |-> NumPixels - 2, step |-> 1]
FarEnd == [at |-> NumPixels - 2, step |-> -1]

Erased(i) == pixels \ {i}

\* One pixel of a frame is shown and erased; at the near end, the last pixel
\* is cleared from the strip at once and the frame is over.
ScanPixel ==
    /\ pc = "scan"
    /\ LET next == scanAt + scanStep
           over == next = -1 \/ ledsVisited + 1 > LedsVisitedPerFrame
           left == Erased(scanAt)
       IN  /\ scanAt' = IF next = -1 THEN 0 ELSE IF next = NumPixels THEN FarEnd.at ELSE next
           /\ scanStep' = IF next = -1 THEN 1
                          ELSE IF next = NumPixels THEN FarEnd.step ELSE scanStep
           /\ pixels' = IF next = -1 THEN {} ELSE left
           /\ strip' = IF next = -1 THEN {} ELSE left \cup Lit({scanAt}, scanColor)
           /\ pc' = IF over THEN then ELSE "scan"
           /\ ledsVisited' = IF over THEN 0 ELSE ledsVisited + 1
    /\ UNCHANGED <<ledStripTodos, due, modeVars, scanColor, then, counterVars>>

TimesOut == secsUntilGoingToManualMode - 1 < 0

\* Fault: the mode is set without the change that clears the strip.
CheckIfModeTimedOut_modeOnly ==
    /\ pc = "timeout"
    /\ pc' = "10sec"
    /\ IF secsUntilGoingToManualMode >= 0 /\ TimesOut
       THEN /\ mode' = "manual"
            /\ params' = TimeoutParams
            /\ secsUntilGoingToManualMode' = -1
            /\ elapsed' = 0 /\ ended' = "yes" /\ painted' = {}
       ELSE UNCHANGED modeVars
    /\ UNCHANGED <<ledStripTodos, due, picture, scanVars, counterVars>>

\* checkIfModeTimedOut, after the one-second handler.
CheckIfModeTimedOut ==
    /\ pc = "timeout"
    /\ pc' = "10sec"
    /\ \/ /\ secsUntilGoingToManualMode < 0
          /\ UNCHANGED <<modeVars, picture>>
       \/ /\ secsUntilGoingToManualMode >= 0 /\ TimesOut
          /\ ChangeLedStripMode("manual", TimeoutParams)
          /\ ended' = "yes"
       \/ /\ secsUntilGoingToManualMode >= 0 /\ ~TimesOut
          /\ secsUntilGoingToManualMode' = secsUntilGoingToManualMode - 1
          /\ elapsed' = elapsed + 1
          /\ UNCHANGED <<mode, params, ended, painted, picture>>
    /\ UNCHANGED <<ledStripTodos, due, scanVars, counterVars>>

Round ==
    \/ CheckTodoList \/ FastTick \/ ScanPixel \/ CheckIfModeTimedOut
    \/ SlowTick("1sec", "timeout", "10sec")
    \/ SlowTick("10sec", "1min", "1min")
    \/ SlowTick("1min", "asleep", "asleep")

Stopped == pc = "stopped" /\ UNCHANGED vars

Next ==
    \/ Round \/ Terminate \/ Stopped
    \/ \E p \in Post : EnqueueMsgModePost(p)
    \/ \E t \in Tick : TickExpires(t)

Spec == Init /\ [][Next]_vars

\* The thread is woken every 12 ms until it is told to stop, and its ticks
\* expire.
Fairness == WF_vars(Round) /\ \A t \in Tick : WF_vars(TickExpires(t))

FairSpec == Spec /\ Fairness

-----------------------------------------------------------------------------
(* Properties.                                                             *)

\* The types of the state: the scan stays on the strip.
TypeOK ==
    /\ pc \in Tick \cup {"asleep", "fast", "timeout", "scan", "stopped"}
    /\ ledStripTodos \in Seq(Post)
    /\ due \subseteq Tick
    /\ mode \in Mode
    /\ secsUntilGoingToManualMode \in Int
    /\ params \in ModePost
    /\ pixels \subseteq Pixel /\ strip \subseteq Pixel
    /\ scanAt \in Pixel /\ scanStep \in {1, -1} /\ scanColor \in {"lit", "dark"}
    /\ ledsVisited \in 0 .. LedsVisitedPerFrame
    /\ then \in Tick \cup {"asleep", "timeout"}
    /\ counter \in 0 .. CounterSize - 1
    /\ elapsed \in Nat
    /\ ended \in {"yes", "no"} /\ wrapped \in {"yes", "no"} /\ tint \in {"lit", "dark"}
    /\ painted \subseteq Pixel

\* A mode with a timeout of n seconds has not lived through more than n
\* one-second ticks, and one whose timeout is no number through none.
ModeEndsInTime ==
    TimeoutSecs(params) >= 0 => elapsed <= TimeoutSecs(params)

\* After a timeout the strip is dark until the next post, in the buffer and
\* to the eye: no handler later in the round, and no static state of the mode
\* that ended, lights a pixel again.  Nor does the end of the thread.
TimedOutStripIsDark ==
    ended = "yes" \/ pc = "stopped" => pixels = {} /\ strip = {}

\* A scan shows one pixel at a time and nothing of the mode before it, even if
\* it continues from where an earlier scan was interrupted.
ScanIsOnePixel == mode = "scan" => pixels = {} /\ \E i \in Pixel : strip \subseteq {i}

\* A fill shows only pixels that some fill since the mode was entered covers.
FillShowsWhatWasAsked == mode = "fill" => pixels \subseteq painted

\* Until it wraps, the counter shows its value in binary, in all of its bits
\* when the color is a lit one.  (After a wrap the bits above the value are
\* not visited, and keep what they showed.)
CounterShowsItsValue ==
    mode = "binCnt" /\ LastPixel \in pixels /\ wrapped = "no" =>
        /\ pixels \ {LastPixel} = Lit(Ones(counter), tint)
        /\ strip = pixels

\* Without further posts the strip returns to the manual mode, unless it was
\* asked for a mode that never ends.
StripReturnsToManual ==
    <>[](ledStripTodos = <<>>) =>
        <>[](mode = "manual" \/ TimeoutSecs(params) < 0 \/ pc = "stopped")

\* A scan that goes on sweeps the whole strip: it comes back to the near end,
\* where it takes a new color, and is at the far end, again and again.
ScanSweeps ==
    <>[](mode = "scan" /\ params.extra \in {"none", "empty"} /\ pc # "stopped") =>
        []<>(scanAt = 0) /\ []<>(scanAt = LastPixel)

\* A mode with a timeout is over in time, whichever tick is due in the round in
\* which it ends, and leaves the strip dark.
TimeoutIsKept == ModeEndsInTime /\ TimedOutStripIsDark

\* No mode shows what another one left, in the buffer or in static variables.
ModesDoNotMix == ScanIsOnePixel /\ FillShowsWhatWasAsked
=============================================================================
