--------------------------- MODULE LedStripProofs ---------------------------
(***************************************************************************)
(* Safety of the LED strip for every length of the strip, every set of     *)
(* posts, every size of a frame and of the counter.  Liveness is left to   *)
(* TLC.                                                                    *)
(***************************************************************************)
EXTENDS LedStrip, FiniteSetTheorems, TLAPS

\* The count of a timed mode says what is left of its time.
TimeLeft ==
    TimeoutSecs(params) >= 0 =>
        /\ secsUntilGoingToManualMode = TimeoutSecs(params) - elapsed
        /\ secsUntilGoingToManualMode >= 0

\* A mode that was left by a timeout is the manual one, and only the scan is
\* ever in the middle of a frame.
Sequencing ==
    /\ ended = "yes" => mode = "manual"
    /\ pc = "scan" => mode = "scan"

IInv ==
    /\ TypeOK /\ TimeLeft /\ Sequencing
    /\ TimedOutStripIsDark /\ ScanIsOnePixel /\ FillShowsWhatWasAsked

-----------------------------------------------------------------------------
(* Facts about the operators.                                              *)

LEMMA SecsAreInt == \A p \in ModePost : TimeoutSecs(p) \in Int
<1> SUFFICES ASSUME NEW p \in ModePost PROVE TimeoutSecs(p) \in Int
  OBVIOUS
<1>1. p.timeout \in {"none", "bad", "number"} /\ p.secs \in Int
  BY DEF ModePost
<1>2. CASE p.timeout = "number"
  BY <1>1, <1>2 DEF TimeoutSecs
<1>3. CASE p.timeout = "bad"
  BY <1>3 DEF TimeoutSecs
<1>4. CASE p.timeout = "none"
  BY <1>4 DEF TimeoutSecs
<1>. QED BY <1>1, <1>2, <1>3, <1>4

LEMMA ParamsTyped == BootParams \in ModePost /\ TimeoutParams \in ModePost
<1>1. BootParams \in ModePost
  BY LedStripAssumption DEF BootParams, NoParams, ModePost, Mode
<1>2. TimeoutParams \in ModePost
  BY LedStripAssumption DEF TimeoutParams, NoParams, ModePost, Mode
<1>. QED BY <1>1, <1>2

LEMMA OnesArePixels == \A v : Ones(v) \subseteq Pixel
BY LedStripAssumption DEF Ones, Pixel, LastPixel

LEMMA AllLitArePixels == \A m : AllLit(m) \subseteq Pixel
BY DEF AllLit, RainbowPixels

LEMMA FillsAreMasked == \A p \in ModePost : \A S \in Fills(p) : S \subseteq Mask(p)
BY DEF Fills, Lit

LEMMA MasksArePixels == \A p : Mask(p) \subseteq Pixel
BY DEF Mask

\* The components that share 127 are not both zero.
LEMMA WheelIsLit == \A pos \in 0 .. 383 : IsLit(Wheel(pos))
<1> SUFFICES ASSUME NEW pos \in 0 .. 383 PROVE IsLit(Wheel(pos))
  OBVIOUS
<1> DEFINE up == pos % 128
           down == 127 - (pos % 128)
<1>1. up \in 0 .. 127 /\ (up # 0 \/ down # 0)
  OBVIOUS
<1>2. pos \div 128 \in {0, 1, 2}
  OBVIOUS
<1>3. CASE pos \div 128 = 0
  <2>1. Wheel(pos) = [r |-> down, g |-> up, b |-> 0]
    BY <1>3 DEF Wheel
  <2> HIDE DEF up, down
  <2>. QED BY <2>1, <1>1 DEF IsLit
<1>4. CASE pos \div 128 = 1
  <2>1. Wheel(pos) = [r |-> 0, g |-> down, b |-> up]
    BY <1>4 DEF Wheel
  <2> HIDE DEF up, down
  <2>. QED BY <2>1, <1>1 DEF IsLit
<1>5. CASE pos \div 128 = 2
  <2>1. Wheel(pos) = [r |-> up, g |-> 0, b |-> down]
    BY <1>5 DEF Wheel
  <2> HIDE DEF up, down
  <2>. QED BY <2>1, <1>1 DEF IsLit
<1>. QED BY <1>2, <1>3, <1>4, <1>5

\* modeRainbowMain lights every pixel of a strip of any length, wherever on the
\* wheel it starts: no color of `wheel' is dark, and no index is off the wheel.
THEOREM RainbowLightsAll == AllLit("rainbow") = Pixel
<1> SUFFICES ASSUME NEW i \in Pixel, NEW j \in 0 .. 383
             PROVE  IsLit(Wheel((((i * 384) \div NumPixels) + j) % 384))
  BY DEF AllLit, RainbowPixels
<1> DEFINE first == (i * 384) \div NumPixels
           pos == (first + j) % 384
<1>1. first \in Int
  BY LedStripAssumption DEF Pixel
<1>2. pos \in 0 .. 383
  <2> HIDE DEF first
  <2>. QED BY <1>1
<1>3. IsLit(Wheel(pos))
  <2> HIDE DEF pos
  <2>. QED BY <1>2, WheelIsLit
<1>. QED BY <1>3

\* The powers of two are the sizes of sets of sets.
LEMMA PowerIsPositive ==
    ASSUME NEW n \in Nat
    PROVE  2^n \in Nat \ {0}
<1>1. IsFiniteSet(1 .. n) /\ Cardinality(1 .. n) = n
  BY FS_Interval
<1>2. IsFiniteSet(SUBSET (1 .. n)) /\ Cardinality(SUBSET (1 .. n)) = 2^n
  BY <1>1, FS_SUBSET
<1>3. SUBSET (1 .. n) # {}
  OBVIOUS
<1>4. Cardinality(SUBSET (1 .. n)) \in Nat /\ Cardinality(SUBSET (1 .. n)) # 0
  BY <1>2, <1>3, FS_CardinalityType, FS_EmptySet
<1>. QED BY <1>2, <1>4

LEMMA QuotientsGrow ==
    ASSUME NEW p \in Nat \ {0}, NEW v \in Nat, (v \div p) % 2 = 1
    PROVE  (v + 1) \div p # 0
<1>1. v \div p # 0
  OBVIOUS
<1>. QED BY <1>1

\* modeBinaryCounterMain visits every pixel the value before has lit.
LEMMA OnesAreVisited == \A v \in Nat : Ones(v) \subseteq Bits(v + 1)
<1> SUFFICES ASSUME NEW v \in Nat, NEW n \in 0 .. LastPixel - 1, (v \div 2^n) % 2 = 1
             PROVE  (v + 1) \div 2^n # 0
  BY DEF Ones, Bits
<1>1. n \in Nat
  BY LedStripAssumption DEF LastPixel
<1>2. 2^n \in Nat \ {0}
  BY <1>1, PowerIsPositive
<1>. QED BY <1>2, QuotientsGrow

LEMMA LastPixelIsNoBit == \A v : LastPixel \notin Ones(v) /\ LastPixel \notin Bits(v)
BY LedStripAssumption DEF Ones, Bits, LastPixel

-----------------------------------------------------------------------------
LEMMA InitIInv == Init => IInv
<1> SUFFICES ASSUME Init PROVE IInv
  OBVIOUS
<1> USE LedStripAssumption DEF Init
<1>1. TypeOK
  BY ParamsTyped, AllLitArePixels DEF TypeOK, Pixel, Mode
<1>2. TimeLeft
  BY DEF TimeLeft, TimeoutSecs, BootParams, NoParams
<1>3. Sequencing /\ TimedOutStripIsDark /\ ScanIsOnePixel /\ FillShowsWhatWasAsked
  BY DEF Sequencing, TimedOutStripIsDark, ScanIsOnePixel, FillShowsWhatWasAsked
<1>. QED BY <1>1, <1>2, <1>3 DEF IInv

\* A change of mode starts from a strip that shows nothing of another mode.
LEMMA ModeChanges ==
    ASSUME IInv, NEW m \in Mode, NEW p \in ModePost, ChangeLedStripMode(m, p)
    PROVE  /\ mode' = m /\ params' = p /\ elapsed' = 0
           /\ secsUntilGoingToManualMode' = TimeoutSecs(p)
           /\ pixels' \subseteq Pixel /\ strip' \subseteq Pixel /\ painted' \subseteq Pixel
           /\ TimeLeft' /\ ScanIsOnePixel' /\ FillShowsWhatWasAsked'
           /\ m = "manual" /\ p.clear = "yes" => pixels' = {} /\ strip' = {}
<1> USE DEF IInv
<1> DEFINE cleared == ClearsStrip(m, p)
           kept == IF cleared THEN {} ELSE pixels
<1>1. mode' = m /\ params' = p /\ elapsed' = 0 /\ secsUntilGoingToManualMode' = TimeoutSecs(p)
  BY DEF ChangeLedStripMode
<1>2. HandlerInit(m, p, cleared, kept)
  BY DEF ChangeLedStripMode
<1>3. ~cleared => m = mode
  BY DEF ClearsStrip
<1>4. kept \subseteq Pixel /\ painted \subseteq Pixel /\ strip \subseteq Pixel
  BY DEF TypeOK
<1>5. TimeLeft'
  <2>1. TimeoutSecs(p) \in Int
    BY SecsAreInt
  <2>2. TimeoutSecs(params)' = TimeoutSecs(p)
    BY <1>1 DEF TimeoutSecs
  <2>. QED BY <1>1, <2>1, <2>2 DEF TimeLeft
<1>6. CASE m \in {"pastel", "rainbow"}
  BY <1>1, <1>2, <1>5, <1>6, AllLitArePixels
     DEF HandlerInit, ScanIsOnePixel, FillShowsWhatWasAsked
<1>7. CASE m = "fill"
  <2>1. PICK S \in Fills(p) : pixels' = (kept \ Mask(p)) \cup S
    BY <1>2, <1>7 DEF HandlerInit
  <2>2. strip' = pixels' /\ painted' = (IF cleared THEN {} ELSE painted) \cup Mask(p)
    BY <1>2, <1>7 DEF HandlerInit
  <2>3. kept \subseteq (IF cleared THEN {} ELSE painted)
    BY <1>3, <1>7 DEF FillShowsWhatWasAsked
  <2>4. S \subseteq Mask(p) /\ Mask(p) \subseteq Pixel
    BY FillsAreMasked, MasksArePixels
  <2>5. pixels' \subseteq painted' /\ painted' \subseteq Pixel /\ pixels' \subseteq Pixel
    BY <2>1, <2>2, <2>3, <2>4, <1>4
  <2>. QED BY <1>1, <1>5, <1>7, <2>2, <2>5 DEF ScanIsOnePixel, FillShowsWhatWasAsked
<1>8. CASE m \in {"manual", "scan", "binCnt"}
  <2>1. pixels' = kept /\ strip' = (IF cleared THEN {} ELSE strip) /\ painted' = {}
    BY <1>2, <1>8 DEF HandlerInit
  <2>2. pixels' \subseteq Pixel /\ strip' \subseteq Pixel /\ painted' \subseteq Pixel
    BY <2>1, <1>4
  <2>3. ScanIsOnePixel'
    <3> SUFFICES ASSUME m = "scan"
                 PROVE  pixels' = {} /\ \E i \in Pixel : strip' \subseteq {i}
      BY <1>1 DEF ScanIsOnePixel, Pixel
    <3>1. CASE cleared
      <4>1. 0 \in Pixel
        BY LedStripAssumption DEF Pixel
      <4>. QED BY <3>1, <2>1, <4>1
    <3>2. CASE ~cleared
      BY <3>2, <2>1, <1>3 DEF ScanIsOnePixel
    <3>. QED BY <3>1, <3>2
  <2>4. FillShowsWhatWasAsked'
    BY <1>1, <1>8 DEF FillShowsWhatWasAsked
  <2>5. m = "manual" /\ p.clear = "yes" => pixels' = {} /\ strip' = {}
    BY <2>1 DEF ClearsStrip
  <2>. QED BY <1>1, <1>5, <2>2, <2>3, <2>4, <2>5
<1>. QED BY <1>6, <1>7, <1>8 DEF Mode

LEMMA CountsInPixels ==
    ASSUME TypeOK, CountUp
    PROVE  /\ pixels' \subseteq Pixel /\ strip' \subseteq Pixel
           /\ counter' \in 0 .. CounterSize - 1
           /\ wrapped' \in {"yes", "no"} /\ tint' \in {"lit", "dark"}
<1> DEFINE fresh == LastPixel \notin pixels
           value == IF ~fresh THEN (counter + 1) % CounterSize
                    ELSE StartValue(params) % CounterSize
<1>1. value \in 0 .. CounterSize - 1
  <2>1. (counter + 1) % CounterSize \in 0 .. CounterSize - 1
    BY LedStripAssumption DEF TypeOK
  <2>2. StartValue(params) \in Int
    BY LedStripAssumption DEF TypeOK, ModePost, StartValue
  <2>3. StartValue(params) % CounterSize \in 0 .. CounterSize - 1
    BY <2>2, LedStripAssumption
  <2>. QED BY <2>1, <2>3
<1>2. counter' = value /\ wrapped' \in {"yes", "no"}
  BY DEF CountUp, TypeOK
<1>3. PICK color \in Colors(params) :
         /\ tint' = color
         /\ pixels' = CounterPixels(IF fresh THEN {LastPixel} ELSE pixels, value, color)
  BY DEF CountUp
<1>4. strip' = pixels' /\ tint' \in {"lit", "dark"}
  BY <1>3 DEF CountUp, Colors
<1>5. LastPixel \in Pixel
  BY LedStripAssumption DEF LastPixel, Pixel
<1>6. pixels' \subseteq Pixel
  BY <1>3, <1>5, OnesArePixels DEF CounterPixels, Lit, TypeOK
<1>. QED BY <1>1, <1>2, <1>4, <1>6

\* A handler draws only for its own mode.
LEMMA DrawKeeps ==
    ASSUME IInv, NEW t, NEW next \in Tick \cup {"asleep", "timeout"},
           Draw(t, next), UNCHANGED <<ledStripTodos, modeVars>>, due' \subseteq Tick,
           pc \notin {"scan", "stopped"}
    PROVE  IInv'
<1> USE DEF IInv
<1>1. UNCHANGED <<mode, secsUntilGoingToManualMode, params, elapsed, ended, painted,
                  ledStripTodos>>
  BY DEF modeVars
<1>2. TimeLeft'
  BY <1>1 DEF TimeLeft, TimeoutSecs
<1>3. CASE ~DrawsOn(t)
  <2>1. pc' = next /\ UNCHANGED <<picture, scanVars, counterVars>>
    BY <1>3 DEF Draw
  <2>2. TypeOK'
    BY <1>1, <2>1 DEF TypeOK, picture, scanVars, counterVars
  <2>3. Sequencing' /\ TimedOutStripIsDark' /\ ScanIsOnePixel' /\ FillShowsWhatWasAsked'
    BY <1>1, <2>1 DEF Sequencing, TimedOutStripIsDark, ScanIsOnePixel,
                      FillShowsWhatWasAsked, picture, Tick
  <2>. QED BY <1>2, <2>2, <2>3
<1>4. CASE DrawsOn(t) /\ mode \in {"pastel", "rainbow"}
  <2>1. /\ pc' = next /\ pixels' \subseteq Pixel /\ strip' \subseteq Pixel
        /\ UNCHANGED <<scanVars, counterVars>>
    BY <1>4, AllLitArePixels DEF Draw
  <2>2. TypeOK'
    BY <1>1, <2>1 DEF TypeOK, scanVars, counterVars
  <2>3. Sequencing' /\ TimedOutStripIsDark' /\ ScanIsOnePixel' /\ FillShowsWhatWasAsked'
    BY <1>1, <1>4, <2>1 DEF Sequencing, TimedOutStripIsDark, ScanIsOnePixel,
                            FillShowsWhatWasAsked, Tick
  <2>. QED BY <1>2, <2>2, <2>3
<1>5. CASE DrawsOn(t) /\ mode = "binCnt"
  <2>1. pc' = next /\ CountUp /\ UNCHANGED scanVars
    BY <1>5 DEF Draw
  <2>2. TypeOK'
    BY <1>1, <2>1, CountsInPixels DEF TypeOK, scanVars
  <2>3. Sequencing' /\ TimedOutStripIsDark' /\ ScanIsOnePixel' /\ FillShowsWhatWasAsked'
    BY <1>1, <1>5, <2>1 DEF Sequencing, TimedOutStripIsDark, ScanIsOnePixel,
                            FillShowsWhatWasAsked, Tick
  <2>. QED BY <1>2, <2>2, <2>3
<1>6. CASE DrawsOn(t) /\ mode = "scan"
  <2>1. ScanBegins(next) /\ UNCHANGED <<picture, counterVars>>
    BY <1>6 DEF Draw
  <2>2. scanColor' \in {"lit", "dark"}
    BY <2>1 DEF ScanBegins, Colors, TypeOK
  <2>3. TypeOK'
    BY <1>1, <2>1, <2>2, LedStripAssumption DEF TypeOK, ScanBegins, picture, counterVars
  <2>4. Sequencing' /\ TimedOutStripIsDark' /\ ScanIsOnePixel' /\ FillShowsWhatWasAsked'
    BY <1>1, <1>6, <2>1 DEF Sequencing, TimedOutStripIsDark, ScanIsOnePixel,
                            FillShowsWhatWasAsked, ScanBegins, picture
  <2>. QED BY <1>2, <2>3, <2>4
<1>7. DrawsOn(t) => mode \in {"pastel", "rainbow", "binCnt", "scan"}
  BY DEF TypeOK, Mode, DrawsOn
<1>. QED BY <1>3, <1>4, <1>5, <1>6, <1>7

LEMMA ScanPixelKeeps ==
    ASSUME IInv, ScanPixel
    PROVE  IInv'
<1> USE DEF IInv
<1> DEFINE next == scanAt + scanStep
<1>1. mode = "scan" /\ ended = "no" /\ pixels = {} /\ pc = "scan"
  BY DEF ScanPixel, Sequencing, ScanIsOnePixel, TypeOK
<1>2. UNCHANGED <<mode, secsUntilGoingToManualMode, params, elapsed, ended, painted,
                  ledStripTodos, due, scanColor, then, counter, wrapped, tint>>
  BY DEF ScanPixel, modeVars, counterVars
<1>3. scanAt' \in Pixel /\ scanStep' \in {1, -1}
  BY LedStripAssumption DEF ScanPixel, FarEnd, TypeOK, Pixel
<1>4. pixels' = {} /\ strip' \subseteq {scanAt}
  BY <1>1 DEF ScanPixel, Erased, Lit
<1>5. pc' \in {then, "scan"} /\ ledsVisited' \in 0 .. LedsVisitedPerFrame
  BY LedStripAssumption DEF ScanPixel, TypeOK
<1>6. TypeOK'
  BY <1>2, <1>3, <1>4, <1>5 DEF TypeOK
<1>7. TimeLeft'
  BY <1>2 DEF TimeLeft, TimeoutSecs
<1>8. Sequencing' /\ TimedOutStripIsDark' /\ ScanIsOnePixel' /\ FillShowsWhatWasAsked'
  <2>1. scanAt \in Pixel /\ then # "stopped" /\ then # "scan"
    BY DEF TypeOK, Tick
  <2>. QED BY <1>1, <1>2, <1>4, <1>5, <2>1 DEF Sequencing, TimedOutStripIsDark,
              ScanIsOnePixel, FillShowsWhatWasAsked
<1>. QED BY <1>6, <1>7, <1>8

LEMMA CheckTodoListKeeps ==
    ASSUME IInv, CheckTodoList
    PROVE  IInv'
<1> USE DEF IInv
<1>1. pc = "asleep" /\ pc' = "fast" /\ UNCHANGED <<due, scanVars, counterVars>>
  BY DEF CheckTodoList
<1>2. CASE UNCHANGED <<modeVars, picture>> /\ ledStripTodos' \in Seq(Post)
  <2>1. TypeOK'
    BY <1>1, <1>2 DEF TypeOK, modeVars, picture, scanVars, counterVars
  <2>2. TimeLeft'
    BY <1>2 DEF TimeLeft, TimeoutSecs, modeVars
  <2>3. Sequencing' /\ TimedOutStripIsDark' /\ ScanIsOnePixel' /\ FillShowsWhatWasAsked'
    BY <1>1, <1>2 DEF Sequencing, TimedOutStripIsDark, ScanIsOnePixel,
                      FillShowsWhatWasAsked, modeVars, picture
  <2>. QED BY <2>1, <2>2, <2>3
<1>3. CASE ledStripTodos # <<>> /\ Head(ledStripTodos).mode # "invalid"
  <2> DEFINE p == Head(ledStripTodos)
  <2>1. p \in Post /\ ledStripTodos' \in Seq(Post)
    BY <1>3 DEF CheckTodoList, TypeOK
  <2>2. p \in ModePost
    BY <2>1, LedStripAssumption
  <2>3. p.mode \in Mode
    BY <2>2, <1>3 DEF ModePost
  <2>4. ChangeLedStripMode(p.mode, p) /\ ended' = "no"
    BY <1>3 DEF CheckTodoList
  <2>5. /\ mode' = p.mode /\ params' = p /\ elapsed' = 0
        /\ secsUntilGoingToManualMode' = TimeoutSecs(p)
        /\ pixels' \subseteq Pixel /\ strip' \subseteq Pixel /\ painted' \subseteq Pixel
        /\ TimeLeft' /\ ScanIsOnePixel' /\ FillShowsWhatWasAsked'
    BY <2>2, <2>3, <2>4, ModeChanges
  <2>6. TimeoutSecs(p) \in Int
    BY <2>2, SecsAreInt
  <2>7. TypeOK'
    BY <1>1, <2>1, <2>2, <2>3, <2>4, <2>5, <2>6 DEF TypeOK, scanVars, counterVars
  <2>8. Sequencing' /\ TimedOutStripIsDark'
    BY <1>1, <2>4 DEF Sequencing, TimedOutStripIsDark
  <2>. QED BY <2>5, <2>7, <2>8
<1>4. ledStripTodos = <<>> => UNCHANGED <<ledStripTodos, modeVars, picture>>
  BY DEF CheckTodoList
<1>5. ledStripTodos # <<>> => ledStripTodos' = Tail(ledStripTodos)
  BY DEF CheckTodoList
<1>6. ledStripTodos # <<>> /\ Head(ledStripTodos).mode = "invalid" => UNCHANGED <<modeVars, picture>>
  BY DEF CheckTodoList
<1>7. ledStripTodos' \in Seq(Post)
  BY <1>4, <1>5 DEF TypeOK
<1>. QED BY <1>2, <1>3, <1>4, <1>6, <1>7

LEMMA TimeoutKeeps ==
    ASSUME IInv, CheckIfModeTimedOut
    PROVE  IInv'
<1> USE DEF IInv
<1>1. pc' = "10sec" /\ UNCHANGED <<ledStripTodos, due, scanVars, counterVars>>
  BY DEF CheckIfModeTimedOut
<1>2. CASE UNCHANGED <<modeVars, picture>>
  <2>1. TypeOK'
    BY <1>1, <1>2 DEF TypeOK, modeVars, picture, scanVars, counterVars, Tick
  <2>2. TimeLeft'
    BY <1>2 DEF TimeLeft, TimeoutSecs, modeVars
  <2>3. Sequencing' /\ TimedOutStripIsDark' /\ ScanIsOnePixel' /\ FillShowsWhatWasAsked'
    BY <1>1, <1>2 DEF Sequencing, TimedOutStripIsDark, ScanIsOnePixel,
                      FillShowsWhatWasAsked, modeVars, picture
  <2>. QED BY <2>1, <2>2, <2>3
<1>3. CASE ChangeLedStripMode("manual", TimeoutParams) /\ ended' = "yes"
  <2>1. TimeoutParams \in ModePost /\ "manual" \in Mode /\ TimeoutParams.clear = "yes"
    BY ParamsTyped DEF Mode, TimeoutParams, NoParams
  <2>2. /\ mode' = "manual" /\ params' = TimeoutParams /\ elapsed' = 0
        /\ secsUntilGoingToManualMode' = TimeoutSecs(TimeoutParams)
        /\ painted' \subseteq Pixel
        /\ pixels' = {} /\ strip' = {}
        /\ TimeLeft' /\ ScanIsOnePixel' /\ FillShowsWhatWasAsked'
    BY <1>3, <2>1, ModeChanges
  <2>3. TimeoutSecs(TimeoutParams) \in Int
    BY <2>1, SecsAreInt
  <2>4. TypeOK'
    BY <1>1, <1>3, <2>1, <2>2, <2>3 DEF TypeOK, scanVars, counterVars, Tick
  <2>5. Sequencing' /\ TimedOutStripIsDark'
    BY <1>1, <2>2 DEF Sequencing, TimedOutStripIsDark
  <2>. QED BY <2>2, <2>4, <2>5
<1>4. CASE /\ secsUntilGoingToManualMode >= 0 /\ ~TimesOut
           /\ secsUntilGoingToManualMode' = secsUntilGoingToManualMode - 1
           /\ elapsed' = elapsed + 1
           /\ UNCHANGED <<mode, params, ended, painted, picture>>
  <2>1. TypeOK'
    BY <1>1, <1>4 DEF TypeOK, picture, scanVars, counterVars, Tick
  <2>2. TimeLeft'
    <3>1. TimeoutSecs(params)' = TimeoutSecs(params)
      BY <1>4 DEF TimeoutSecs
    <3>2. TimeoutSecs(params) \in Int /\ elapsed \in Nat /\ secsUntilGoingToManualMode \in Int
      BY SecsAreInt DEF TypeOK
    <3>. QED BY <1>4, <3>1, <3>2 DEF TimeLeft, TimesOut
  <2>3. Sequencing' /\ TimedOutStripIsDark' /\ ScanIsOnePixel' /\ FillShowsWhatWasAsked'
    BY <1>1, <1>4 DEF Sequencing, TimedOutStripIsDark, ScanIsOnePixel,
                      FillShowsWhatWasAsked, picture
  <2>. QED BY <2>1, <2>2, <2>3
<1>. QED BY <1>2, <1>3, <1>4 DEF CheckIfModeTimedOut

\* Steps of the others, and the end of the thread.
LEMMA OthersKeep ==
    ASSUME IInv,
           \/ Terminate
           \/ \E p \in Post : EnqueueMsgModePost(p)
           \/ \E t \in Tick : TickExpires(t)
           \/ UNCHANGED vars
    PROVE  IInv'
<1> USE DEF IInv
<1>1. UNCHANGED <<mode, secsUntilGoingToManualMode, params, elapsed, ended, painted,
                  scanAt, scanStep, scanColor, ledsVisited, then, counter, wrapped, tint>>
  BY DEF Terminate, EnqueueMsgModePost, TickExpires, vars, modeVars, scanVars, counterVars
<1>2. ledStripTodos' \in Seq(Post) /\ due' \subseteq Tick
  BY DEF Terminate, EnqueueMsgModePost, TickExpires, vars, TypeOK
<1>3. TimeLeft'
  BY <1>1 DEF TimeLeft, TimeoutSecs
<1>4. \/ pc' = "stopped" /\ pixels' = {} /\ strip' = {}
      \/ UNCHANGED <<pc, pixels, strip>>
  BY DEF Terminate, EnqueueMsgModePost, TickExpires, vars, picture
<1>5. TypeOK'
  BY <1>1, <1>2, <1>4 DEF TypeOK
<1>6. Sequencing' /\ TimedOutStripIsDark' /\ FillShowsWhatWasAsked'
  BY <1>1, <1>4 DEF Sequencing, TimedOutStripIsDark, FillShowsWhatWasAsked
<1>7. ScanIsOnePixel'
  BY <1>1, <1>4 DEF ScanIsOnePixel, TypeOK
<1>. QED BY <1>3, <1>5, <1>6, <1>7

LEMMA NextIInv == IInv /\ [Next]_vars => IInv'
<1> SUFFICES ASSUME IInv, [Next]_vars PROVE IInv'
  OBVIOUS
<1>1. CASE FastTick
  <2>1. due' \subseteq Tick /\ pc = "fast" /\ "1sec" \in Tick
    BY <1>1 DEF FastTick, IInv, TypeOK, Tick
  <2>. QED BY <1>1, <2>1, DrawKeeps DEF FastTick
<1>2. ASSUME NEW t \in Tick, NEW next \in Tick \cup {"asleep", "timeout"},
             NEW skip \in Tick \cup {"asleep", "timeout"}, SlowTick(t, next, skip)
      PROVE  IInv'
  <2>1. due' \subseteq Tick /\ pc = t /\ t \notin {"scan", "stopped"}
    BY <1>2 DEF SlowTick, IInv, TypeOK, Tick
  <2>2. CASE t \in due
    BY <1>2, <2>1, <2>2, DrawKeeps DEF SlowTick
  <2>3. CASE t \notin due
    <3>1. pc' = skip /\ UNCHANGED <<picture, scanVars, counterVars, ledStripTodos, modeVars>>
      BY <1>2, <2>3 DEF SlowTick
    <3>2. TypeOK'
      BY <2>1, <3>1 DEF IInv, TypeOK, picture, scanVars, counterVars, modeVars
    <3>3. TimeLeft'
      BY <3>1 DEF IInv, TimeLeft, TimeoutSecs, modeVars
    <3>4. Sequencing' /\ TimedOutStripIsDark' /\ ScanIsOnePixel' /\ FillShowsWhatWasAsked'
      BY <3>1 DEF IInv, Sequencing, TimedOutStripIsDark, ScanIsOnePixel,
                  FillShowsWhatWasAsked, picture, modeVars, Tick
    <3>. QED BY <3>2, <3>3, <3>4 DEF IInv
  <2>. QED BY <2>2, <2>3
<1>3. CASE ScanPixel \/ CheckTodoList \/ CheckIfModeTimedOut
  BY <1>3, ScanPixelKeeps, CheckTodoListKeeps, TimeoutKeeps
<1>4. CASE \/ Terminate \/ Stopped \/ UNCHANGED vars
           \/ \E p \in Post : EnqueueMsgModePost(p)
           \/ \E t \in Tick : TickExpires(t)
  BY <1>4, OthersKeep DEF Stopped
<1>. QED BY <1>1, <1>2, <1>3, <1>4 DEF Next, Round, Tick

LEMMA StripSafe == Spec => []IInv
BY InitIInv, NextIInv, PTL DEF Spec

-----------------------------------------------------------------------------
\* The state of the strip keeps to its types; in particular the scan, whose
\* position outlives changes of mode, never leaves the strip.
THEOREM TypeCorrect == Spec => []TypeOK
<1>1. IInv => TypeOK
  BY DEF IInv
<1>. QED BY <1>1, StripSafe, PTL

\* checkIfModeTimedOut: a timed mode lasts for no more one-second ticks than
\* it was asked to, whatever number was given.
THEOREM TimedModeEnds == Spec => []ModeEndsInTime
<1>1. IInv => ModeEndsInTime
  <2> SUFFICES ASSUME IInv, TimeoutSecs(params) >= 0 PROVE elapsed <= TimeoutSecs(params)
    BY DEF ModeEndsInTime
  <2>1. TimeoutSecs(params) \in Int /\ elapsed \in Nat /\ secsUntilGoingToManualMode \in Int
    BY SecsAreInt DEF IInv, TypeOK
  <2>. QED BY <2>1 DEF IInv, TimeLeft
<1>. QED BY <1>1, StripSafe, PTL

\* changeLedStripMode on a timeout, and the end of the thread, leave the strip
\* dark until the next post.
THEOREM DarkAfterTimeout == Spec => []TimedOutStripIsDark
<1>1. IInv => TimedOutStripIsDark
  BY DEF IInv
<1>. QED BY <1>1, StripSafe, PTL

\* modeScanMain shows one pixel at a time on a strip of any length, wherever
\* it was interrupted.
THEOREM ScanShowsOnePixel == Spec => []ScanIsOnePixel
<1>1. IInv => ScanIsOnePixel
  BY DEF IInv
<1>. QED BY <1>1, StripSafe, PTL

\* modeFillInit: nothing of another mode shows among the filled pixels.
THEOREM FillIsAsAsked == Spec => []FillShowsWhatWasAsked
<1>1. IInv => FillShowsWhatWasAsked
  BY DEF IInv
<1>. QED BY <1>1, StripSafe, PTL

\* Timed modes end in time and leave a dark strip of any length.
THEOREM TimeoutKept == Spec => []TimeoutIsKept
<1>1. ModeEndsInTime /\ TimedOutStripIsDark => TimeoutIsKept
  BY DEF TimeoutIsKept
<1>. QED BY <1>1, TimedModeEnds, DarkAfterTimeout, PTL

\* Neither a scan nor a fill shows anything of another mode.
THEOREM ModesKeptApart == Spec => []ModesDoNotMix
<1>1. ScanIsOnePixel /\ FillShowsWhatWasAsked => ModesDoNotMix
  BY DEF ModesDoNotMix
<1>. QED BY <1>1, ScanShowsOnePixel, FillIsAsAsked, PTL

-----------------------------------------------------------------------------
(* The counter.                                                            *)

\* A step of the counter leaves nothing of the value before it.
LEMMA CountUpShowsValue ==
    ASSUME TypeOK, mode = "binCnt", CounterShowsItsValue, CountUp, mode' = mode
    PROVE  CounterShowsItsValue'
<1> DEFINE fresh == LastPixel \notin pixels
           value == IF ~fresh THEN (counter + 1) % CounterSize
                    ELSE StartValue(params) % CounterSize
           base == IF fresh THEN {LastPixel} ELSE pixels
<1>1. /\ counter' = value /\ strip' = pixels'
      /\ wrapped' = IF fresh THEN "no" ELSE IF value = 0 THEN "yes" ELSE wrapped
      /\ pixels' = (base \ Bits(value)) \cup Lit(Ones(value), tint')
  BY DEF CountUp, CounterPixels
<1>2. CASE fresh
  <2>1. pixels' \ {LastPixel} = Lit(Ones(value), tint')
    BY <1>1, <1>2, LastPixelIsNoBit DEF Lit
  <2> HIDE DEF value
  <2>. QED BY <1>1, <2>1 DEF CounterShowsItsValue, Lit, Ones
<1>3. CASE ~fresh /\ wrapped' = "no"
  <2>1. wrapped = "no" /\ value # 0
    BY <1>1, <1>3 DEF TypeOK
  <2>2. counter \in Nat /\ value = counter + 1
    BY <1>3, <2>1, LedStripAssumption DEF TypeOK
  <2>3. pixels \ {LastPixel} \subseteq Ones(counter)
    BY <1>3, <2>1 DEF CounterShowsItsValue, Lit
  <2>4. Ones(counter) \subseteq Bits(value)
    BY <2>2, OnesAreVisited
  <2> HIDE DEF value
  <2>5. pixels' \ {LastPixel} = Lit(Ones(value), tint')
    BY <1>1, <1>3, <2>3, <2>4, LastPixelIsNoBit DEF Lit
  <2>. QED BY <1>1, <2>5 DEF CounterShowsItsValue, Lit, Ones
<1>4. CASE wrapped' # "no"
  BY <1>4 DEF CounterShowsItsValue
<1>. QED BY <1>2, <1>3, <1>4

\* The counter starts on a strip without its last pixel, or goes on.
LEMMA ModeChangeKeepsCounter ==
    ASSUME CounterShowsItsValue, NEW m \in Mode, NEW p, ChangeLedStripMode(m, p),
           UNCHANGED counterVars
    PROVE  CounterShowsItsValue'
<1> DEFINE cleared == ClearsStrip(m, p)
<1>1. mode' = m /\ HandlerInit(m, p, cleared, IF cleared THEN {} ELSE pixels)
  BY DEF ChangeLedStripMode
<1>2. SUFFICES ASSUME m = "binCnt" PROVE CounterShowsItsValue'
  BY <1>1 DEF CounterShowsItsValue
<1>3. pixels' = (IF cleared THEN {} ELSE pixels) /\ strip' = (IF cleared THEN {} ELSE strip)
  BY <1>1, <1>2 DEF HandlerInit
<1>4. ~cleared => mode = "binCnt"
  BY <1>2 DEF ClearsStrip
<1>. QED BY <1>1, <1>3, <1>4 DEF CounterShowsItsValue, counterVars, Lit, Ones

LEMMA DrawKeepsCounter ==
    ASSUME TypeOK, CounterShowsItsValue, NEW t, NEW next, Draw(t, next), mode' = mode
    PROVE  CounterShowsItsValue'
<1>1. CASE mode = "binCnt" /\ CountUp
  BY <1>1, CountUpShowsValue
<1>2. CASE UNCHANGED <<picture, counterVars>>
  BY <1>2 DEF CounterShowsItsValue, picture, counterVars, Lit, Ones
<1>3. CASE mode # "binCnt"
  BY <1>3 DEF CounterShowsItsValue
<1>. QED BY <1>1, <1>2, <1>3 DEF Draw

LEMMA NextKeepsCounter ==
    ASSUME IInv, CounterShowsItsValue, [Next]_vars
    PROVE  CounterShowsItsValue'
<1> USE DEF IInv
<1>1. CASE UNCHANGED <<mode, picture, counterVars>>
  BY <1>1 DEF CounterShowsItsValue, picture, counterVars, Lit, Ones
<1>2. CASE Terminate
  BY <1>2 DEF Terminate, CounterShowsItsValue
<1>3. CASE ScanPixel
  <2>1. mode' = mode /\ mode # "binCnt"
    BY <1>3 DEF ScanPixel, Sequencing, modeVars
  <2>. QED BY <2>1 DEF CounterShowsItsValue
<1>4. CASE FastTick
  BY <1>4, DrawKeepsCounter DEF FastTick, modeVars
<1>5. ASSUME NEW t, NEW next, NEW skip, SlowTick(t, next, skip) PROVE CounterShowsItsValue'
  BY <1>1, <1>5, DrawKeepsCounter DEF SlowTick, modeVars
<1>6. CASE CheckTodoList
  <2>1. CASE ledStripTodos = <<>> \/ Head(ledStripTodos).mode = "invalid"
    BY <1>1, <1>6, <2>1 DEF CheckTodoList, modeVars
  <2>2. CASE ledStripTodos # <<>> /\ Head(ledStripTodos).mode # "invalid"
    <3> DEFINE p == Head(ledStripTodos)
    <3>1. p \in ModePost
      BY <2>2, LedStripAssumption DEF TypeOK
    <3>2. p.mode \in Mode
      BY <2>2, <3>1 DEF ModePost
    <3>3. ChangeLedStripMode(p.mode, p) /\ UNCHANGED counterVars
      BY <1>6, <2>2 DEF CheckTodoList
    <3>. QED BY <3>2, <3>3, ModeChangeKeepsCounter
  <2>. QED BY <2>1, <2>2
<1>7. CASE CheckIfModeTimedOut
  BY <1>1, <1>7, ModeChangeKeepsCounter DEF CheckIfModeTimedOut, modeVars, Mode
<1>. QED BY <1>1, <1>2, <1>3, <1>4, <1>5, <1>6, <1>7
         DEF Next, Round, Stopped, EnqueueMsgModePost, TickExpires, vars, modeVars

\* modeBinaryCounterMain: until it wraps, the counter shows its value in binary on
\* a strip of any length, although it visits only the pixels up to the highest bit
\* of the value, also where it was interrupted and is resumed.
THEOREM CounterIsShown == Spec => []CounterShowsItsValue
<1>1. Init => CounterShowsItsValue
  BY DEF Init, CounterShowsItsValue
<1>2. IInv /\ CounterShowsItsValue /\ [Next]_vars => CounterShowsItsValue'
  BY NextKeepsCounter
<1>. QED BY <1>1, <1>2, StripSafe, PTL DEF Spec
=============================================================================
