---------------------------- MODULE DisplayProofs ----------------------------
(***************************************************************************)
(* Proofs about Display: for every width of the integers, every set of     *)
(* posts, and every setting of the sensors; and about the mean of the      *)
(* light, the car and the backgrounds, by induction over samples, calls    *)
(* and posts.                                                              *)
(***************************************************************************)
EXTENDS Display, FiniteSetTheorems, WellFoundedInduction, TLAPS

\* While a timed message is shown, its count says what is left of its time.
TimeLeft ==
    mode = "message" /\ asked.timeout \in 1 .. Forever - 1 =>
        elapsed < asked.timeout /\ timeout = asked.timeout - elapsed

\* While a message with a number of repeats is shown, that many are left.
RepeatsLeft ==
    mode = "message" /\ asked.repeats \in 0 .. MaxInt =>
        shown <= asked.repeats /\ repeats = asked.repeats - shown

\* A message blinks as asked, and only a blinking one is blanked.
BlankOnlyToBlink ==
    mode = "message" => blink = asked.blink /\ (blink = "no" => blank = "no")

IInv == TypeOK /\ TimeLeft /\ RepeatsLeft /\ BlankOnlyToBlink

USE DEF Forever

-----------------------------------------------------------------------------
(* The sensors and the chips keep to their types.                          *)

LEMMA MotionTyped ==
    ASSUME MotionType, NEW reading \in {"on", "off"}, CheckMotionSensor(reading)
    PROVE  MotionType'
<1> USE MotionAssumption DEF MotionType
<1>1. motion' \in {"on", "off"}
  BY DEF CheckMotionSensor
<1>2. CASE CountSecond
  BY <1>1, <1>2 DEF CountSecond
<1>3. CASE sec' = 0 /\ min' = 0 /\ hour' = 0
  BY <1>1, <1>3
<1>. QED BY <1>2, <1>3 DEF CheckMotionSensor

LEMMA SampleTyped ==
    ASSUME MatrixType, NEW r0 \in Reading, NEW r1 \in Reading, DoSensorRead(r0, r1)
    PROVE  MatrixType'
<1> USE MatrixAssumption DEF MatrixType
<1>1. (r0 + r1) \div 2 \in Nat
  BY SMT
<1>2. DEFINE kept == IF Len(lightValues) >= MaxLightValuesSize THEN Tail(lightValues) ELSE lightValues
<1>3. kept \in Seq(Nat) /\ Len(kept) < MaxLightValuesSize
  <2>1. CASE Len(lightValues) >= MaxLightValuesSize
    <3>1. lightValues # <<>>
      BY <2>1
    <3>. QED BY <2>1, <3>1
  <2>2. CASE ~(Len(lightValues) >= MaxLightValuesSize)
    BY <2>2
  <2>. QED BY <2>1, <2>2
<1>4. lightValues' = Append(kept, (r0 + r1) \div 2)
  BY DEF DoSensorRead
<1> HIDE DEF kept
<1>5. lightValues' \in Seq(Nat) /\ Len(lightValues') <= MaxLightValuesSize
  BY <1>1, <1>3, <1>4
<1>. QED BY <1>5 DEF DoSensorRead

LEMMA DimTyped ==
    ASSUME MatrixType, UpdateDim
    PROVE  MatrixType'
<1> USE DEF MatrixType, UpdateDim, Duty
<1>1. roomIsDark' \in {"yes", "no"} /\ brightness' \in Duty
  OBVIOUS
<1>2. chip' \in [pwm : Duty, led : {"on", "off"}]
  BY <1>1
<1>. QED BY <1>1, <1>2

LEMMA RefreshTyped ==
    ASSUME MatrixType, NEW b, CheckHT1632(b)
    PROVE  MatrixType'
BY MatrixAssumption DEF MatrixType, CheckHT1632, Configured, Duty

LEMMA NoiseTyped ==
    ASSUME MatrixType, NEW state \in [pwm : Duty, led : {"on", "off"}], Glitch(state)
    PROVE  MatrixType'
BY MatrixAssumption DEF MatrixType, Glitch

LEMMA MotionKept ==
    ASSUME MotionType, UNCHANGED motionVars
    PROVE  MotionType'
BY DEF MotionType, motionVars

LEMMA MatrixKept ==
    ASSUME MatrixType, UNCHANGED matrixVars
    PROVE  MatrixType'
BY DEF MatrixType, matrixVars

-----------------------------------------------------------------------------
LEMMA InitIInv == Init => IInv
<1> SUFFICES ASSUME Init PROVE IInv
  OBVIOUS
<1> USE DisplayAssumption, MotionAssumption, MatrixAssumption DEF Init
<1>1. MotionType
  BY DEF MotionInit, MotionType
<1>2. MatrixType
  BY DEF MatrixInit, MatrixType, Configured, Duty
<1>3. asked \in MessagePost
  BY DEF BootPost, MessagePost
<1>4. TypeOK
  BY <1>1, <1>2, <1>3 DEF TypeOK, Tick
<1>5. TimeLeft /\ RepeatsLeft /\ BlankOnlyToBlink
  BY DEF TimeLeft, RepeatsLeft, BlankOnlyToBlink, BootPost
<1>. QED BY <1>4, <1>5 DEF IInv

\* What a step of the outside leaves alone.
LEMMA OutsideStep ==
    ASSUME IInv, UNCHANGED <<mode, messageVars, historyVars>>, MotionType', MatrixType',
           pc' = pc, displayTodos' \in Seq(Post), due' \subseteq Tick
    PROVE  IInv'
BY DEF IInv, TypeOK, TimeLeft, RepeatsLeft, BlankOnlyToBlink, messageVars, historyVars

LEMMA NextIInv == IInv /\ [Next]_vars => IInv'
<1> SUFFICES ASSUME IInv, [Next]_vars PROVE IInv'
  OBVIOUS
<1> USE DisplayAssumption
<1>0. TypeOK /\ MotionType /\ MatrixType
  BY DEF IInv, TypeOK
<1>1. CASE UNCHANGED vars
  <2>1. MotionType' /\ MatrixType'
    BY <1>0, <1>1, MotionKept, MatrixKept DEF vars
  <2>. QED BY <1>0, <1>1, <2>1, OutsideStep DEF vars, displayVars, TypeOK
<1>2. ASSUME NEW p \in Post, EnqueuePost(p) PROVE IInv'
  <2>1. MotionType' /\ MatrixType'
    BY <1>0, <1>2, MotionKept, MatrixKept DEF EnqueuePost
  <2>2. displayTodos' \in Seq(Post)
    BY <1>0, <1>2 DEF EnqueuePost, TypeOK
  <2>. QED BY <1>0, <1>2, <2>1, <2>2, OutsideStep DEF EnqueuePost, TypeOK
<1>3. ASSUME NEW t \in Tick, TickExpires(t) PROVE IInv'
  <2>1. MotionType' /\ MatrixType'
    BY <1>0, <1>3, MotionKept, MatrixKept DEF TickExpires
  <2>. QED BY <1>0, <1>3, <2>1, OutsideStep DEF TickExpires, TypeOK
<1>4. ASSUME NEW reading \in {"on", "off"}, SensorRead(reading) PROVE IInv'
  <2>1. MotionType' /\ MatrixType'
    BY <1>0, <1>4, MotionTyped, MatrixKept DEF SensorRead
  <2>. QED BY <1>0, <1>4, <2>1, OutsideStep DEF SensorRead, displayVars, TypeOK
<1>5. ASSUME NEW r0 \in Reading, NEW r1 \in Reading, LightRead(r0, r1) PROVE IInv'
  <2>1. MotionType' /\ MatrixType'
    BY <1>0, <1>5, MotionKept, SampleTyped DEF LightRead
  <2>. QED BY <1>0, <1>5, <2>1, OutsideStep DEF LightRead, displayVars, TypeOK
<1>6. ASSUME NEW state \in [pwm : Duty, led : {"on", "off"}], Noise(state) PROVE IInv'
  <2>1. MotionType' /\ MatrixType'
    BY <1>0, <1>6, MotionKept, NoiseTyped DEF Noise
  <2>. QED BY <1>0, <1>6, <2>1, OutsideStep DEF Noise, displayVars, TypeOK
<1>7. CASE CheckTodoList
  <2>1. MotionType' /\ MatrixType'
    BY <1>0, <1>7, MotionKept, MatrixKept DEF CheckTodoList
  <2>2. CASE displayTodos = <<>> \/ Head(displayTodos).kind # "message"
    <3>1. displayTodos' \in Seq(Post)
      BY <1>0, <1>7 DEF CheckTodoList, TypeOK
    <3>2. UNCHANGED <<mode, messageVars, historyVars, due>>
      BY <1>7, <2>2 DEF CheckTodoList
    <3>3. pc' = "fast"
      BY <1>7 DEF CheckTodoList
    <3>. QED BY <2>1, <3>1, <3>2, <3>3 DEF IInv, TypeOK, TimeLeft, RepeatsLeft,
               BlankOnlyToBlink, messageVars, historyVars
  <2>3. CASE displayTodos # <<>> /\ Head(displayTodos).kind = "message"
    <3> DEFINE p == Head(displayTodos)
    <3>1. p \in Post /\ displayTodos' \in Seq(Post)
      BY <1>0, <1>7, <2>3 DEF CheckTodoList, TypeOK
    <3>2. p \in MessagePost
      BY <2>3, <3>1 DEF BackgroundPost
    <3>3. ShowMessage(p) /\ due' = due /\ pc' = "fast"
      BY <1>7, <2>3 DEF CheckTodoList
    <3> HIDE DEF p
    <3>4. TypeOK'
      BY SMTT(30), <1>0, <2>1, <3>1, <3>2, <3>3
        DEF ShowMessage, ChangeDisplayMode, ToInt, TypeOK, MessagePost
    <3>5. TimeLeft' /\ BlankOnlyToBlink'
      BY <3>2, <3>3 DEF ShowMessage, TimeLeft, BlankOnlyToBlink, MessagePost
    <3>6. RepeatsLeft'
      BY <3>2, <3>3 DEF ShowMessage, RepeatsLeft, ToInt, MessagePost
    <3>. QED BY <3>4, <3>5, <3>6 DEF IInv
  <2>. QED BY <2>2, <2>3
<1>8. CASE TickFast
  <2>1. MotionType' /\ MatrixType'
    BY <1>0, <1>8, MotionKept, MatrixKept DEF TickFast
  <2>2. /\ pc' = "250ms"
        /\ UNCHANGED <<displayTodos, timeout, scroll, blink, blank, due, asked, elapsed>>
    BY <1>8 DEF TickFast
  <2>3. \/ UNCHANGED <<mode, repeats, shown>>
        \/ mode = "message" /\ NextRepeat
           /\ shown' = IF shown < Forever THEN shown + 1 ELSE shown
    BY <1>8 DEF TickFast
  <2>4. currX' \in 0 .. MaxInt - 1
    BY <1>0, <1>8 DEF TickFast, ScrolledBy, TypeOK
  <2>5. CASE UNCHANGED <<mode, repeats, shown>>
    BY <2>1, <2>2, <2>4, <2>5 DEF IInv, TypeOK, Tick, TimeLeft, RepeatsLeft, BlankOnlyToBlink
  <2>6. CASE mode = "message" /\ NextRepeat
             /\ shown' = IF shown < Forever THEN shown + 1 ELSE shown
    <3>1. /\ repeats' \in -1 - MaxInt .. MaxInt /\ shown' \in 0 .. Forever
          /\ mode' \in {"message", "basicClock"}
      BY <1>0, <2>6 DEF NextRepeat, Decremented, ChangeDisplayMode, TypeOK
    <3>2. TypeOK'
      BY <1>0, <2>1, <2>2, <2>4, <3>1 DEF TypeOK, Tick
    <3>3. RepeatsLeft'
      <4> SUFFICES ASSUME mode' = "message", asked'.repeats \in 0 .. MaxInt
                   PROVE  shown' <= asked'.repeats /\ repeats' = asked'.repeats - shown'
        BY DEF RepeatsLeft
      <4>1. shown <= asked.repeats /\ repeats = asked.repeats - shown /\ asked'.repeats = asked.repeats
        BY <2>2, <2>6 DEF IInv, RepeatsLeft
      <4>2. repeats \in 0 .. MaxInt /\ shown \in Nat /\ shown < Forever
        BY <1>0, <2>2, <4>1 DEF TypeOK
      <4>3. Decremented(repeats) = {repeats - 1}
        BY <4>2 DEF Decremented
      <4>4. repeats' = repeats - 1 /\ repeats' >= 0
        BY <2>6, <4>2, <4>3 DEF NextRepeat, ChangeDisplayMode
      <4>. QED BY <2>6, <4>1, <4>2, <4>4
    <3>4. TimeLeft' /\ BlankOnlyToBlink'
      BY <2>2, <2>6 DEF IInv, TimeLeft, BlankOnlyToBlink
    <3>. QED BY <3>2, <3>3, <3>4 DEF IInv
  <2>. QED BY <2>3, <2>5, <2>6
<1>9. CASE Tick250ms
  <2>1. MotionType' /\ MatrixType'
    BY <1>0, <1>9, MotionKept, MatrixKept DEF Tick250ms, Due
  <2>2. TypeOK'
    BY <1>0, <1>9, <2>1 DEF Tick250ms, Due, TypeOK, Tick, Flip, historyVars
  <2>. QED BY <1>9, <2>2 DEF Tick250ms, IInv, TimeLeft, RepeatsLeft, BlankOnlyToBlink, historyVars
<1>10. CASE Tick500ms
  <2>1. MotionType' /\ MatrixType'
    BY <1>0, <1>10, MotionKept, MatrixKept, RefreshTyped DEF Tick500ms, Due
  <2>2. TypeOK'
    BY <1>0, <1>10, <2>1
      DEF Tick500ms, Due, TypeOK, Tick, ChangeDisplayMode, messageVars, historyVars
  <2>. QED BY <1>10, <2>2 DEF Tick500ms, ChangeDisplayMode, IInv, TimeLeft, RepeatsLeft,
              BlankOnlyToBlink, messageVars, historyVars
<1>11. CASE Tick1sec
  <2>1. MotionType' /\ MatrixType'
    BY <1>0, <1>11, MotionKept, MatrixKept, DimTyped DEF Tick1sec, Due
  <2>2. /\ pc' = "asleep" /\ due' = due \ {"1sec"}
        /\ UNCHANGED <<displayTodos, repeats, scroll, currX, blink, blank, asked, shown>>
    BY <1>11 DEF Tick1sec, Due
  <2>3. CASE UNCHANGED <<mode, timeout, elapsed>>
    BY <2>1, <2>2, <2>3 DEF IInv, TypeOK, Tick, TimeLeft, RepeatsLeft, BlankOnlyToBlink
  <2>4. CASE mode # "message" /\ mode' # "message" /\ mode' \in {"nothing", "basicClock"}
             /\ timeout' = timeout /\ elapsed' = elapsed
    BY <2>1, <2>2, <2>4 DEF IInv, TypeOK, Tick, TimeLeft, RepeatsLeft, BlankOnlyToBlink
  <2>5. CASE mode = "message" /\ CheckTimeout
             /\ elapsed' = IF elapsed < Forever THEN elapsed + 1 ELSE elapsed
    <3>1. /\ timeout' \in 0 .. Forever /\ elapsed' \in 0 .. Forever
          /\ mode' \in {"message", "basicClock"}
      BY <1>0, <2>5 DEF CheckTimeout, Decrement32U, ChangeDisplayMode, TypeOK
    <3>2. TypeOK'
      BY <1>0, <2>1, <2>2, <3>1 DEF TypeOK, Tick
    <3>3. TimeLeft'
      BY <1>0, <2>2, <2>5 DEF IInv, TypeOK, MessagePost, TimeLeft, CheckTimeout, Decrement32U,
         ChangeDisplayMode
    <3>4. RepeatsLeft' /\ BlankOnlyToBlink'
      BY <2>2, <2>5 DEF IInv, RepeatsLeft, BlankOnlyToBlink
    <3>. QED BY <3>2, <3>3, <3>4 DEF IInv
  <2>. QED BY <1>0, <1>11, <2>3, <2>4, <2>5 DEF Tick1sec, CheckMotion, ChangeDisplayMode, TypeOK
<1>. QED
  BY <1>1, <1>2, <1>3, <1>4, <1>5, <1>6, <1>7, <1>8, <1>9, <1>10, <1>11 DEF Next, Round

\* IInv is an invariant of Display.
THEOREM DisplaySafe == Spec => []IInv
BY InitIInv, NextIInv, PTL DEF Spec

\* The display thread's data keep to their types; among them the scroll
\* position never reaches the end of the ints, where it would overflow.
THEOREM TypeCorrect == Spec => []TypeOK
<1>1. IInv => TypeOK
  BY DEF IInv
<1>. QED BY <1>1, DisplaySafe, PTL

\* Whatever the width of the counter and whatever was shown before, a message
\* with a time limit is over after that many one-second ticks.
THEOREM TimedMessageEnds == Spec => []MessageEndsInTime
<1>1. IInv => MessageEndsInTime
  BY DEF IInv, TimeLeft, MessageEndsInTime
<1>. QED BY <1>1, DisplaySafe, PTL

\* A message to be repeated n times scrolls by n times more than once at most.
THEOREM RepeatsEnd == Spec => []MessageRepeatsAreBounded
<1>1. IInv => MessageRepeatsAreBounded
  BY DEF IInv, RepeatsLeft, MessageRepeatsAreBounded
<1>. QED BY <1>1, DisplaySafe, PTL

\* A message that is not to blink is never blanked.
THEOREM SteadyIsVisible == Spec => []SteadyMessageIsVisible
<1>1. IInv => SteadyMessageIsVisible
  BY DEF IInv, BlankOnlyToBlink, SteadyMessageIsVisible
<1>. QED BY <1>1, DisplaySafe, PTL

\* No carry of the motion sensor's counters makes an empty room look busy.
THEOREM IdleIsStable == Spec => IdleUntilMotion
<1>1. IInv /\ [Next]_vars => [Idle /\ motion' = "off" => Idle']_motionVars
  <2> SUFFICES ASSUME IInv, [Next]_vars, Idle, motion' = "off", motionVars' # motionVars
               PROVE  Idle'
    OBVIOUS
  <2>1. MotionType
    BY DEF IInv, TypeOK
  <2>2. \E reading \in {"on", "off"} : CheckMotionSensor(reading)
    BY DEF Next, Round, vars, EnqueuePost, TickExpires, SensorRead, LightRead, Noise,
           CheckTodoList, TickFast, Tick250ms, Tick500ms, Tick1sec, Due
  <2>3. motion = "off" /\ CountSecond
    BY <2>2 DEF CheckMotionSensor, Idle
  <2>. QED BY <2>1, <2>3, MotionAssumption DEF Idle, CountSecond, MotionType
<1>. QED BY <1>1, DisplaySafe, PTL DEF Spec, IdleUntilMotion

\* Messages with a limit end, by the clock or by their repeats, for every width
\* of the integers.
THEOREM MessagesDoEnd == Spec => []MessagesEnd
<1>1. MessageEndsInTime /\ MessageRepeatsAreBounded => MessagesEnd
  BY DEF MessagesEnd
<1>. QED BY <1>1, TimedMessageEnds, RepeatsEnd, PTL

-----------------------------------------------------------------------------
(* The light sensor's mean, and the hysteresis of updateDim.                *)

\* A set of naturals that is not empty has a least element: what the proofs
\* by a least counterexample below rest on.
LEMMA LeastNatural ==
    ASSUME NEW T \in SUBSET Nat, T # {}
    PROVE  \E n \in T : \A m \in T : n <= m
<1> DEFINE R == {ss \in Nat \X Nat : ss[1] < ss[2]}
<1>1. IsWellFoundedOn(R, Nat)
  BY NatLessThanWellFounded DEF OpToRel
<1>2. \E n \in T : \A m \in T : ~(<<m, n>> \in R)
  <2> HIDE DEF R
  <2>. QED BY <1>1, WFMin
<1>3. PICK n \in T : \A m \in T : ~(<<m, n>> \in R)
  BY <1>2
<1>4. \A m \in T : n <= m
  <2> SUFFICES ASSUME NEW m \in T, m < n PROVE FALSE
    OBVIOUS
  <2>1. <<m, n>> \in R
    OBVIOUS
  <2>. QED BY <2>1, <1>3
<1>. QED BY <1>4

\* Induction up to n, for a set: one with 0 and with the successors, up to n,
\* of its members is all of 0 .. n.
LEMMA InductionUpTo ==
    ASSUME NEW n \in Nat, NEW G, 0 \in G, \A k \in 1 .. n : k - 1 \in G => k \in G
    PROVE  \A k \in 0 .. n : k \in G
<1> DEFINE T == {k \in 0 .. n : k \notin G}
<1>1. ASSUME T # {} PROVE FALSE
  <2>1. T \in SUBSET Nat
    OBVIOUS
  <2>2. PICK m \in T : \A k \in T : m <= k
    BY <1>1, <2>1, LeastNatural
  <2>3. m \in 1 .. n /\ m - 1 \in 0 .. n /\ m \notin G
    BY <2>2
  <2>4. m - 1 \notin T
    <3> HIDE DEF T
    <3>. QED BY <2>2, <2>3
  <2>. QED BY <2>3, <2>4
<1>. QED BY <1>1

\* A function that is defined by its value at 0 and by a step from k - 1 to k
\* exists, if the step stays in a set: all the recursive functions below are
\* what they are declared to be.
Steps(S, n) == [1 .. n -> [S -> S]]
Runs(S, n) == [0 .. n -> S]
IsRecursive(f, init, n, step) == f[0] = init /\ \A k \in 1 .. n : f[k] = step[k][f[k - 1]]

LEMMA RecursionExists ==
    ASSUME NEW S, NEW init \in S, NEW n \in Nat, NEW step \in Steps(S, n)
    PROVE  \E f \in Runs(S, n) : IsRecursive(f, init, n, step)
<1> USE DEF Steps, Runs, IsRecursive
<1> DEFINE Is(f, m) == /\ f \in [0 .. m -> S]
                       /\ f[0] = init /\ \A k \in 1 .. m : f[k] = step[k][f[k - 1]]
           T == {m \in 0 .. n : ~ \E f : Is(f, m)}
<1>1. T \in SUBSET Nat
  OBVIOUS
<1>2. ASSUME T # {} PROVE FALSE
  <2>1. PICK m \in T : \A l \in T : m <= l
    BY <1>1, <1>2, LeastNatural
  <2>2. m # 0
    <3>1. Is([k \in 0 .. 0 |-> init], 0)
      OBVIOUS
    <3>. QED BY <3>1, <2>1
  <2>3. m \in Nat /\ m \in 1 .. n /\ m - 1 \in 0 .. n /\ m - 1 \notin T
    <3>1. m \in Nat /\ m \in 1 .. n /\ m - 1 \in 0 .. n
      BY <2>2
    <3>2. m - 1 \notin T
      <4> HIDE DEF T
      <4>. QED BY <2>1, <3>1
    <3>. QED BY <3>1, <3>2
  <2>4. PICK f : Is(f, m - 1)
    BY <2>3
  <2> DEFINE g == [k \in 0 .. m |-> IF k = m THEN step[m][f[m - 1]] ELSE f[k]]
  <2>5. f[m - 1] \in S /\ step[m][f[m - 1]] \in S
    <3>1. f[m - 1] \in S
      BY <2>3, <2>4
    <3>2. step[m] \in [S -> S]
      BY <2>3
    <3>. QED BY <3>1, <3>2
  <2>6. g \in [0 .. m -> S]
    <3> SUFFICES ASSUME NEW k \in 0 .. m PROVE g[k] \in S
      OBVIOUS
    <3>1. CASE k = m
      BY <2>5, <3>1
    <3>2. CASE k # m
      BY <2>3, <2>4, <3>2
    <3>. QED BY <3>1, <3>2
  <2>7. \A k \in 1 .. m : g[k] = step[k][g[k - 1]]
    <3> SUFFICES ASSUME NEW k \in 1 .. m PROVE g[k] = step[k][g[k - 1]]
      OBVIOUS
    <3>0. k \in 0 .. m /\ k - 1 \in 0 .. m /\ k - 1 # m
      BY <2>3
    <3>1. g[k - 1] = f[k - 1]
      BY <3>0
    <3>2. CASE k = m
      BY <3>0, <3>1, <3>2
    <3>3. CASE k # m
      <4>1. k \in 1 .. m - 1 /\ g[k] = f[k]
        BY <2>3, <3>0, <3>3
      <4>. QED BY <2>4, <3>1, <4>1
    <3>. QED BY <3>2, <3>3
  <2>8. g[0] = init
    BY <2>2, <2>3, <2>4
  <2>9. Is(g, m)
    BY <2>6, <2>7, <2>8
  <2>. QED BY <2>1, <2>9
<1>3. n \notin T
  <2> HIDE DEF T
  <2>. QED BY <1>2
<1>4. n \in 0 .. n
  OBVIOUS
<1>5. \E f : Is(f, n)
  BY <1>3, <1>4
<1>. QED BY <1>5

\* The sums of the first n numbers of a sequence, as a function of n, exist.
LEMMA SumExists ==
    ASSUME NEW s \in Seq(Nat)
    PROVE  \E f : f = [k \in 0 .. Len(s) |-> IF k = 0 THEN 0 ELSE f[k - 1] + s[k]]
<1> DEFINE n == Len(s)
           step == [k \in 1 .. n |-> [x \in Nat |-> x + s[k]]]
<1>1. n \in Nat /\ \A k \in 1 .. n : s[k] \in Nat
  OBVIOUS
<1>2. PICK f \in [0 .. n -> Nat] : f[0] = 0 /\ \A k \in 1 .. n : f[k] = step[k][f[k - 1]]
  <2>1. n \in Nat /\ 0 \in Nat /\ step \in Steps(Nat, n)
    BY <1>1 DEF Steps
  <2> HIDE DEF step, n
  <2>2. \E f \in Runs(Nat, n) : IsRecursive(f, 0, n, step)
    BY <2>1, RecursionExists
  <2>. QED BY <2>2 DEF Runs, IsRecursive
<1>3. \A k \in 1 .. n : f[k] = f[k - 1] + s[k]
  <2> SUFFICES ASSUME NEW k \in 1 .. n PROVE f[k] = f[k - 1] + s[k]
    OBVIOUS
  <2>0. k - 1 \in 0 .. n
    BY <1>1
  <2>1. f[k - 1] \in Nat
    BY <2>0
  <2>. QED BY <1>2, <2>1
<1>4. \A k \in 0 .. n : f[k] = IF k = 0 THEN 0 ELSE f[k - 1] + s[k]
  BY <1>1, <1>2, <1>3
<1>. QED BY <1>2, <1>4

\* Integer division: a sum between n times low and n times high, divided by n.
LEMMA Mean ==
    ASSUME NEW n \in Nat \ {0}, NEW low \in Nat, NEW high \in Nat, NEW s \in Nat,
           n * low <= s, s <= n * high
    PROVE  s \div n \in Nat /\ low <= s \div n /\ s \div n <= high
<1>1. PICK q \in Nat, r \in 0 .. n - 1 : s = q * n + r /\ q = s \div n
  <2>1. s \div n \in Nat /\ s % n \in 0 .. n - 1 /\ s = (s \div n) * n + (s % n)
     OBVIOUS
  <2>. QED BY <2>1
<1>2. ASSUME q < low PROVE FALSE
  <2>1. low - (q + 1) \in Nat
    BY <1>2
  <2>2. (low - (q + 1)) * n >= 0
    BY <2>1
  <2>3. (low - (q + 1)) * n = n * low - q * n - n
    OBVIOUS
  <2>. QED BY <1>1, <2>2, <2>3
<1>3. ASSUME q > high PROVE FALSE
  <2>1. q - (high + 1) \in Nat
    BY <1>3
  <2>2. (q - (high + 1)) * n >= 0
    BY <2>1
  <2>3. (q - (high + 1)) * n = q * n - n * high - n
    OBVIOUS
  <2>. QED BY <1>1, <2>2, <2>3
<1>. QED BY <1>1, <1>2, <1>3

\* getLightValue, the mean of the samples, is between bounds of the samples.
LEMMA MeanIsBounded ==
    ASSUME lightValues \in Seq(Nat), lightValues # <<>>, NEW low \in Nat, NEW high \in Nat,
           \A i \in 1 .. Len(lightValues) : low <= lightValues[i] /\ lightValues[i] <= high
    PROVE  GetLightValue \in Nat /\ low <= GetLightValue /\ GetLightValue <= high
<1> DEFINE n == Len(lightValues)
           sum[i \in 0 .. n] == IF i = 0 THEN 0 ELSE sum[i - 1] + lightValues[i]
<1>1. sum = [i \in 0 .. n |-> IF i = 0 THEN 0 ELSE sum[i - 1] + lightValues[i]]
  <2>2. \E f : f = [i \in 0 .. n |-> IF i = 0 THEN 0 ELSE f[i - 1] + lightValues[i]]
    BY SumExists
  <2>. QED BY <2>2
<1>2. GetLightValue = sum[n] \div n
  BY DEF GetLightValue
<1> HIDE DEF sum
<1> DEFINE Good(i) == sum[i] \in Nat /\ i * low <= sum[i] /\ sum[i] <= i * high
           G == {i \in 0 .. n : Good(i)}
<1>3. n \in Nat \ {0} /\ n \in 0 .. n
  OBVIOUS
<1>4. 0 \in G
  BY <1>1, <1>3
<1>5. ASSUME NEW m \in 1 .. n, Good(m - 1) PROVE Good(m)
  <2>1. m \in 0 .. n /\ m # 0 /\ m - 1 \in Nat
    BY <1>3
  <2>2. sum[m] = sum[m - 1] + lightValues[m]
    <3> HIDE DEF Good
    <3>. QED BY <1>1, <2>1
  <2>3. lightValues[m] \in Nat /\ low <= lightValues[m] /\ lightValues[m] <= high
    OBVIOUS
  <2>4. m * low = (m - 1) * low + low /\ m * high = (m - 1) * high + high
    BY <2>1
  <2>. QED BY SMTT(30), <1>5, <2>1, <2>2, <2>3, <2>4
<1>6. Good(n)
  <2>1. \A k \in 1 .. n : k - 1 \in G => k \in G
    <3> HIDE DEF Good
    <3>. QED BY <1>3, <1>5
  <2>2. n \in G
    <3> HIDE DEF G
    <3>1. \A k \in 0 .. n : k \in G
      BY <1>3, <1>4, <2>1, InductionUpTo
    <3>. QED BY <1>3, <3>1
  <2>. QED BY <2>2
<1>. QED BY <1>2, <1>3, <1>6, Mean

\* Hysteresis for every window size and every pair of water marks: as long as
\* all the samples at hand are between the marks, no step of the display
\* changes its mind on whether the room is dark.
THEOREM LightDoesNotFlicker == Spec => NoFlicker
<1> DEFINE Between == lightValues # <<>> /\ (\A i \in 1 .. Len(lightValues) :
                          lightValues[i] >= LowWaterMark /\ lightValues[i] < HighWaterMark)
<1>1. IInv /\ [Next]_vars => [Between => UNCHANGED roomIsDark]_matrixVars
  <2> SUFFICES ASSUME IInv, [Next]_vars, Between, matrixVars' # matrixVars
               PROVE  roomIsDark' = roomIsDark
    OBVIOUS
  <2>1. MatrixType
    BY DEF IInv, TypeOK
  <2>2. UpdateDim \/ roomIsDark' = roomIsDark
    BY DEF Next, Round, vars, matrixVars, EnqueuePost, TickExpires, SensorRead, LightRead, Noise,
           CheckTodoList, TickFast, Tick250ms, Tick500ms, Tick1sec, Due, DoSensorRead, Glitch,
           CheckHT1632
  <2>3. CASE UpdateDim
    <3>1. LowWaterMark \in Nat /\ HighWaterMark - 1 \in Nat
      BY MatrixAssumption
    <3>2. lightValues \in Seq(Nat) /\ lightValues # <<>>
      BY <2>1 DEF MatrixType
    <3>3. \A i \in 1 .. Len(lightValues) :
             LowWaterMark <= lightValues[i] /\ lightValues[i] <= HighWaterMark - 1
      BY <3>1, <3>2, MatrixAssumption
    <3>4. GetLightValue \in Nat /\ LowWaterMark <= GetLightValue /\ GetLightValue <= HighWaterMark - 1
      <4> HIDE DEF Between
      <4>. QED BY <3>1, <3>2, <3>3, MeanIsBounded
    <3>. QED BY <2>1, <2>3, <3>4, MatrixAssumption DEF MatrixType, UpdateDim
  <2>. QED BY <2>2, <2>3
<1>. QED BY <1>1, DisplaySafe, PTL DEF Spec, NoFlicker

-----------------------------------------------------------------------------
(* The car.  The count says how many calls that found an entry have come   *)
(* since the last `on', as far as it counts; by induction over the calls.  *)

Car == [animationCounter : 0 .. AnimationsAfterOff, animationFrame : Int, blinkerEffect : Nat,
        drawn : {"nothing", "car", "blank"}]
Calls == [1 .. MaxCalls -> SUBSET {"off", "on"}]

LEMMA CarTyped ==
    ASSUME NEW car \in Car, NEW values PROVE CarAnimation(car, values) \in Car
<1>1. AnimationsAfterOff \in Nat
  BY FaceAssumption
<1> DEFINE counter == Counted(car, values)
<1>2. counter \in 0 .. AnimationsAfterOff
  BY <1>1 DEF Counted, Car
<1>3. car.blinkerEffect + 1 \in Nat /\ 1 - car.animationFrame \in Int
  BY DEF Car
<1>4. ASSUME ~(counter >= AnimationsAfterOff) PROVE counter + 1 \in 0 .. AnimationsAfterOff
  BY <1>1, <1>2, <1>4
<1> HIDE DEF counter
<1>5. CASE values = {}
  BY <1>5 DEF CarAnimation, Car
<1>6. CASE values # {} /\ counter >= AnimationsAfterOff
  BY <1>2, <1>6 DEF CarAnimation, Car, counter
<1>7. CASE values # {} /\ ~(counter >= AnimationsAfterOff)
  BY <1>3, <1>4, <1>7 DEF CarAnimation, Car, counter
<1>. QED BY <1>5, <1>6, <1>7

LEMMA CarIsRecursive ==
    ASSUME NEW calls \in Calls
    PROVE  /\ CarAfter(calls) \in [0 .. MaxCalls -> Car]
           /\ CarAfter(calls)[0] = CarAtBoot
           /\ \A n \in 1 .. MaxCalls :
                 CarAfter(calls)[n] = CarAnimation(CarAfter(calls)[n - 1], calls[n])
<1> DEFINE step == [k \in 1 .. MaxCalls |-> [c \in Car |-> CarAnimation(c, calls[k])]]
           car[n \in 0 .. MaxCalls] == IF n = 0 THEN CarAtBoot ELSE CarAnimation(car[n - 1], calls[n])
<1>1. CarAfter(calls) = car
  BY DEF CarAfter
<1> HIDE DEF car
<1>2. MaxCalls \in Nat /\ CarAtBoot \in Car
  BY FaceAssumption DEF CarAtBoot, Car
<1>3. step \in Steps(Car, MaxCalls)
  BY CarTyped DEF Steps
<1>4. PICK f \in Runs(Car, MaxCalls) : IsRecursive(f, CarAtBoot, MaxCalls, step)
  <2> HIDE DEF step
  <2>. QED BY <1>2, <1>3, RecursionExists
<1>5. f \in [0 .. MaxCalls -> Car] /\ f[0] = CarAtBoot
  BY <1>4 DEF Runs, IsRecursive
<1>6. \A n \in 1 .. MaxCalls : f[n] = CarAnimation(f[n - 1], calls[n])
  <2> SUFFICES ASSUME NEW n \in 1 .. MaxCalls PROVE f[n] = CarAnimation(f[n - 1], calls[n])
    OBVIOUS
  <2>1. n - 1 \in 0 .. MaxCalls
    BY <1>2
  <2>2. f[n - 1] \in Car
    BY <1>5, <2>1
  <2>. QED BY <1>4, <2>2 DEF IsRecursive
<1> HIDE DEF step
<1>7. f = [n \in 0 .. MaxCalls |-> IF n = 0 THEN CarAtBoot ELSE CarAnimation(f[n - 1], calls[n])]
  <2>1. \A n \in 0 .. MaxCalls : f[n] = IF n = 0 THEN CarAtBoot ELSE CarAnimation(f[n - 1], calls[n])
    BY <1>2, <1>5, <1>6
  <2>. QED BY <1>5, <2>1
<1>8. car = [n \in 0 .. MaxCalls |-> IF n = 0 THEN CarAtBoot ELSE CarAnimation(car[n - 1], calls[n])]
  BY <1>7 DEF car
<1>9. \A n \in 1 .. MaxCalls : car[n] = CarAnimation(car[n - 1], calls[n])
  <2> SUFFICES ASSUME NEW n \in 1 .. MaxCalls PROVE car[n] = CarAnimation(car[n - 1], calls[n])
    OBVIOUS
  <2>1. n \in 0 .. MaxCalls /\ n # 0
    BY <1>2
  <2>. QED BY <1>8, <2>1
<1>10. car[0] = CarAtBoot
  BY <1>2, <1>8
<1> DEFINE G == {n \in 0 .. MaxCalls : car[n] \in Car}
<1>11. \A n \in 0 .. MaxCalls : n \in G
  <2>1. 0 \in G
    BY <1>2, <1>10
  <2>2. ASSUME NEW n \in 1 .. MaxCalls, n - 1 \in G PROVE n \in G
    <3>1. n \in 0 .. MaxCalls
      BY <1>2
    <3>2. car[n] \in Car
      BY <1>9, <2>2, CarTyped
    <3>. QED BY <3>1, <3>2
  <2> HIDE DEF G
  <2>. QED BY <1>2, <2>1, <2>2, InductionUpTo
<1>12. car \in [0 .. MaxCalls -> Car]
  BY <1>8, <1>11
<1>. QED BY <1>1, <1>9, <1>10, <1>12

\* The calls from the m-th to the n-th that found an entry.
Found(calls, m, n) == {l \in m .. n : calls[l] # {}}
\* There has been an `on', and since then at most k calls that found an entry.
OnWithin(calls, n, k) ==
    \E m \in 1 .. n : "on" \in calls[m] /\ Cardinality(Found(calls, m, n)) <= k

\* One call more that finds an entry is counted, one that does not is not.
LEMMA FoundGrows ==
    ASSUME NEW calls, NEW n \in Nat, NEW m \in 1 .. n
    PROVE  /\ Cardinality(Found(calls, m, n)) \in Nat
           /\ calls[n + 1] = {} => Found(calls, m, n + 1) = Found(calls, m, n)
           /\ calls[n + 1] # {} =>
                 Cardinality(Found(calls, m, n + 1)) = Cardinality(Found(calls, m, n)) + 1
<1>1. IsFiniteSet(Found(calls, m, n))
  <2>1. IsFiniteSet(m .. n)
    BY FS_Interval
  <2>. QED BY <2>1, FS_Subset DEF Found
<1>2. n + 1 \notin Found(calls, m, n)
  BY DEF Found
<1>3. calls[n + 1] # {} => Found(calls, m, n + 1) = Found(calls, m, n) \cup {n + 1}
  BY DEF Found
<1>4. calls[n + 1] = {} => Found(calls, m, n + 1) = Found(calls, m, n)
  BY DEF Found
<1>. QED BY <1>1, <1>2, <1>3, <1>4, FS_AddElement, FS_CardinalityType

\* A call just made is itself counted.
LEMMA FoundAtOnce ==
    ASSUME NEW calls, NEW n \in Nat, calls[n] # {}
    PROVE  Cardinality(Found(calls, n, n)) = 1
<1>1. Found(calls, n, n) = {n}
  BY DEF Found
<1>. QED BY <1>1, FS_Singleton

\* What one call changes of OnWithin.
LEMMA OnWithinStep ==
    ASSUME NEW calls \in Calls, NEW n \in Nat, NEW k \in Int, n + 1 \in 1 .. MaxCalls
    PROVE  /\ calls[n + 1] = {} => (OnWithin(calls, n + 1, k) <=> OnWithin(calls, n, k))
           /\ "on" \in calls[n + 1] => (OnWithin(calls, n + 1, k) <=> k >= 1)
           /\ calls[n + 1] # {} /\ "on" \notin calls[n + 1] =>
                 (OnWithin(calls, n + 1, k) <=> OnWithin(calls, n, k - 1))
<1> DEFINE c(m, l) == Cardinality(Found(calls, m, l))
<1>1. \A m \in 1 .. n + 1 : m \in 1 .. n \/ m = n + 1
  OBVIOUS
<1>2. \A m \in 1 .. n : m \in 1 .. n + 1
  OBVIOUS
<1>3. n + 1 \in 1 .. n + 1
  OBVIOUS
<1>4. \A m \in 1 .. n :
         /\ c(m, n) \in Nat
         /\ calls[n + 1] = {} => c(m, n + 1) = c(m, n)
         /\ calls[n + 1] # {} => c(m, n + 1) = c(m, n) + 1
  BY FoundGrows
<1>5. calls[n + 1] # {} => c(n + 1, n + 1) = 1
  BY FoundAtOnce
<1>6. /\ OnWithin(calls, n + 1, k) <=> \E m \in 1 .. n + 1 : "on" \in calls[m] /\ c(m, n + 1) <= k
      /\ OnWithin(calls, n, k) <=> \E m \in 1 .. n : "on" \in calls[m] /\ c(m, n) <= k
      /\ OnWithin(calls, n, k - 1) <=> \E m \in 1 .. n : "on" \in calls[m] /\ c(m, n) <= k - 1
  BY DEF OnWithin
<1> HIDE DEF c
<1>7. CASE calls[n + 1] = {}
  BY <1>1, <1>2, <1>4, <1>6, <1>7
<1>8. CASE "on" \in calls[n + 1]
  <2>1. calls[n + 1] # {}
    BY <1>8
  <2>2. \A m \in 1 .. n + 1 : c(m, n + 1) \in Nat /\ c(m, n + 1) >= 1
    BY <1>1, <1>4, <1>5, <2>1
  <2>3. c(n + 1, n + 1) = 1
    BY <1>5, <2>1
  <2>4. ASSUME k >= 1 PROVE OnWithin(calls, n + 1, k)
    BY <1>3, <1>6, <1>8, <2>3, <2>4
  <2>5. ASSUME OnWithin(calls, n + 1, k) PROVE k >= 1
    BY <1>6, <2>2, <2>5
  <2>. QED BY <2>1, <2>4, <2>5, <1>8
<1>9. CASE calls[n + 1] # {} /\ "on" \notin calls[n + 1]
  <2>1. ASSUME OnWithin(calls, n + 1, k) PROVE OnWithin(calls, n, k - 1)
    <3>1. PICK m \in 1 .. n + 1 : "on" \in calls[m] /\ c(m, n + 1) <= k
      BY <1>6, <2>1
    <3>2. m \in 1 .. n
      BY <1>1, <1>9, <3>1
    <3>3. c(m, n) <= k - 1
      BY <1>4, <1>9, <3>1, <3>2
    <3>. QED BY <1>6, <3>1, <3>2, <3>3
  <2>2. ASSUME OnWithin(calls, n, k - 1) PROVE OnWithin(calls, n + 1, k)
    <3>1. PICK m \in 1 .. n : "on" \in calls[m] /\ c(m, n) <= k - 1
      BY <1>6, <2>2
    <3>2. c(m, n + 1) <= k
      BY <1>4, <1>9, <3>1
    <3>. QED BY <1>2, <1>6, <3>1, <3>2
  <2>. QED BY <1>9, <2>1, <2>2
<1>. QED BY <1>7, <1>8, <1>9

\* The count of the car is at most k, below its limit, if there was an `on' and
\* since then no more than k calls that found an entry.
CountIsRight(calls, n) ==
    \A k \in 0 .. AnimationsAfterOff - 1 :
        CarAfter(calls)[n].animationCounter <= k <=> OnWithin(calls, n, k)

LEMMA CountStaysRight ==
    ASSUME NEW calls \in Calls, NEW n \in Nat, n + 1 \in 1 .. MaxCalls, CountIsRight(calls, n)
    PROVE  CountIsRight(calls, n + 1)
<1> DEFINE limit == AnimationsAfterOff
           c == CarAfter(calls)[n].animationCounter
           d == CarAfter(calls)[n + 1].animationCounter
<1>1. limit \in Nat /\ c \in 0 .. limit
  <2>1. n \in 0 .. MaxCalls
    BY FaceAssumption
  <2>. QED BY <2>1, CarIsRecursive, FaceAssumption DEF Car
<1>2. /\ calls[n + 1] = {} => d = c
      /\ "on" \in calls[n + 1] => d = IF limit = 0 THEN 0 ELSE 1
      /\ calls[n + 1] # {} /\ "on" \notin calls[n + 1] => d = IF c >= limit THEN c ELSE c + 1
  <2>1. CarAfter(calls)[n + 1] = CarAnimation(CarAfter(calls)[n], calls[n + 1])
    <3>1. (n + 1) - 1 = n
      OBVIOUS
    <3>. QED BY <3>1, CarIsRecursive
  <2>2. CarAfter(calls)[n] \in Car
    <3>1. n \in 0 .. MaxCalls
      BY FaceAssumption
    <3>. QED BY <3>1, CarIsRecursive
  <2> DEFINE was == CarAfter(calls)[n]
  <2>3. d = CarAnimation(was, calls[n + 1]).animationCounter /\ c = was.animationCounter /\ was \in Car
    BY <2>1, <2>2
  <2> HIDE DEF was, d, c
  <2>. QED BY <1>1, <2>3 DEF CarAnimation, Counted, Car
<1> HIDE DEF c, d, limit
<1>3. ASSUME NEW k \in 0 .. limit - 1 PROVE d <= k <=> OnWithin(calls, n + 1, k)
  <2>1. \A l \in 0 .. limit - 1 : c <= l <=> OnWithin(calls, n, l)
    BY DEF CountIsRight, c, limit
  <2>2. k \in Int
    BY <1>1
  <2>3. /\ calls[n + 1] = {} => (OnWithin(calls, n + 1, k) <=> OnWithin(calls, n, k))
        /\ "on" \in calls[n + 1] => (OnWithin(calls, n + 1, k) <=> k >= 1)
        /\ calls[n + 1] # {} /\ "on" \notin calls[n + 1] =>
              (OnWithin(calls, n + 1, k) <=> OnWithin(calls, n, k - 1))
    BY <2>2, OnWithinStep
  <2>4. CASE calls[n + 1] = {}
    BY <1>2, <2>1, <2>3, <2>4
  <2>5. CASE "on" \in calls[n + 1]
    <3>1. d = 1
      BY <1>1, <1>2, <2>5
    <3>. QED BY <2>2, <2>3, <2>5, <3>1
  <2>6. CASE calls[n + 1] # {} /\ "on" \notin calls[n + 1]
    <3>1. d <= k <=> c <= k - 1
      BY <1>1, <1>2, <2>6
    <3>2. OnWithin(calls, n + 1, k) <=> OnWithin(calls, n, k - 1)
      BY <2>3, <2>6
    <3>3. CASE k = 0
      <4>1. ~(c <= k - 1)
        BY <1>1, <3>3
      <4>2. ~OnWithin(calls, n, k - 1)
        <5>1. \A m \in 1 .. n : Cardinality(Found(calls, m, n)) \in Nat
          BY FoundGrows
        <5>. QED BY <3>3, <5>1 DEF OnWithin
      <4>. QED BY <3>1, <3>2, <4>1, <4>2
    <3>4. CASE k # 0
      <4>1. k - 1 \in 0 .. limit - 1
        BY <1>1, <3>4
      <4>. QED BY <2>1, <3>1, <3>2, <4>1
    <3>. QED BY <3>3, <3>4
  <2>. QED BY <2>4, <2>5, <2>6
<1>. QED BY <1>3 DEF CountIsRight, d, limit

LEMMA CountIsAlwaysRight ==
    ASSUME NEW calls \in Calls PROVE \A n \in 0 .. MaxCalls : CountIsRight(calls, n)
<1> DEFINE G == {n \in 0 .. MaxCalls : CountIsRight(calls, n)}
<1>1. MaxCalls \in Nat /\ AnimationsAfterOff \in Nat
  BY FaceAssumption
<1>2. CountIsRight(calls, 0)
  <2>1. CarAfter(calls)[0].animationCounter = AnimationsAfterOff
    BY CarIsRecursive DEF CarAtBoot
  <2>2. \A k : ~OnWithin(calls, 0, k)
    BY DEF OnWithin
  <2>. QED BY <1>1, <2>1, <2>2 DEF CountIsRight
<1>3. ASSUME NEW n \in 1 .. MaxCalls, n - 1 \in G PROVE n \in G
  <2> DEFINE l == n - 1
  <2>1. l \in Nat /\ l + 1 = n /\ n \in 0 .. MaxCalls /\ CountIsRight(calls, l)
    BY <1>1, <1>3
  <2> HIDE DEF l
  <2>. QED BY <2>1, CountStaysRight
<1>4. 0 \in G
  BY <1>1, <1>2
<1>5. \A n \in 0 .. MaxCalls : n \in G
  <2> HIDE DEF G
  <2>. QED BY <1>1, <1>3, <1>4, InductionUpTo
<1>. QED BY <1>5

\* The car drives from an `on' to the end of its calls, for every number of calls
\* it is meant to drive on for and every history of the entries.
THEOREM CarDrivesWithMotion == CarFollowsMotion
<1> SUFFICES ASSUME NEW calls \in Calls, NEW n \in 1 .. MaxCalls
             PROVE  (CarAfter(calls)[n].drawn # "nothing") <=>
                        calls[n] # {} /\ OnWithin(calls, n, AnimationsAfterOff)
  BY DEF CarFollowsMotion, Calls, OnWithin, Found
<1> DEFINE l == n - 1
           limit == AnimationsAfterOff
           was == CarAfter(calls)[l]
<1>1. MaxCalls \in Nat /\ limit \in Nat
  BY FaceAssumption
<1>2. l \in Nat /\ l + 1 = n /\ l \in 0 .. MaxCalls /\ l + 1 \in 1 .. MaxCalls
  BY <1>1
<1>3. was \in Car /\ CarAfter(calls)[n] = CarAnimation(was, calls[n])
  BY <1>2, CarIsRecursive
<1>4. CountIsRight(calls, l)
  BY <1>2, CountIsAlwaysRight
<1>5. CarAfter(calls)[n].drawn # "nothing" <=>
          /\ calls[n] # {}
          /\ IF "on" \in calls[n] THEN limit > 0 ELSE was.animationCounter < limit
  <2> HIDE DEF was, l
  <2>. QED BY <1>1, <1>3 DEF CarAnimation, Counted, Car
<1>6. was.animationCounter \in 0 .. limit
  <2> HIDE DEF was
  <2>. QED BY <1>3 DEF Car
<1>7. ASSUME "on" \notin calls[n], calls[n] # {}
      PROVE  was.animationCounter < limit <=> OnWithin(calls, n, limit)
  <2>1. OnWithin(calls, n, limit) <=> OnWithin(calls, l, limit - 1)
    <3>1. limit \in Int
      BY <1>1
    <3> HIDE DEF l, limit
    <3>. QED BY <1>2, <1>7, <3>1, OnWithinStep
  <2>2. CASE limit = 0
    <3>1. \A m \in 1 .. l : Cardinality(Found(calls, m, l)) \in Nat
      <4> HIDE DEF l
      <4>. QED BY <1>2, FoundGrows
    <3>2. ~OnWithin(calls, l, limit - 1)
      <4> HIDE DEF l
      <4>. QED BY <2>2, <3>1 DEF OnWithin
    <3>. QED BY <1>6, <2>1, <2>2, <3>2
  <2>3. CASE limit # 0
    <3>1. limit - 1 \in 0 .. limit - 1
      BY <1>1, <2>3
    <3>2. was.animationCounter <= limit - 1 <=> OnWithin(calls, l, limit - 1)
      BY <1>4, <3>1 DEF CountIsRight
    <3>. QED BY <1>1, <1>6, <2>1, <3>2
  <2>. QED BY <2>2, <2>3
<1>8. ASSUME "on" \in calls[n] PROVE OnWithin(calls, n, limit) <=> limit > 0
  <2>1. OnWithin(calls, n, limit) <=> limit >= 1
    <3>1. limit \in Int
      BY <1>1
    <3> HIDE DEF l, limit
    <3>. QED BY <1>2, <1>8, <3>1, OnWithinStep
  <2>. QED BY <1>1, <2>1
<1> HIDE DEF was, l
<1>. QED BY <1>5, <1>7, <1>8 DEF limit

-----------------------------------------------------------------------------
(* The backgrounds.  An entry of the table is the post that lives in it,   *)
(* or none; by induction over the posts.                                   *)

Posts == [1 .. MaxPosts -> ImgPost]
Table == [Entry -> Background \cup {NoBackground}]

LEMMA PlacesAreEntries == \A post : PlaceOf(post) \in Entry
BY FaceAssumption DEF PlaceOf, Entry

LEMMA TableTyped ==
    ASSUME NEW table \in Table, NEW post \in ImgPost PROVE PostBackground(table, post) \in Table
<1>1. NoBackgrounds \in Table /\ post.background \in Background /\ PlaceOf(post) \in Entry
  BY PlacesAreEntries DEF NoBackgrounds, Table, ImgPost
<1>2. (IF post.clearAll THEN NoBackgrounds ELSE table) \in Table
  BY <1>1
<1>. QED BY <1>1, <1>2 DEF PostBackground, Table

LEMMA TableIsRecursive ==
    ASSUME NEW posts \in Posts
    PROVE  /\ \A n \in 0 .. MaxPosts : TableAfter(posts)[n] \in Table
           /\ TableAfter(posts)[0] = NoBackgrounds
           /\ \A n \in 1 .. MaxPosts :
                 TableAfter(posts)[n] = PostBackground(TableAfter(posts)[n - 1], posts[n])
<1> DEFINE step == [k \in 1 .. MaxPosts |-> [t \in Table |-> PostBackground(t, posts[k])]]
           table[n \in 0 .. MaxPosts] ==
               IF n = 0 THEN NoBackgrounds ELSE PostBackground(table[n - 1], posts[n])
<1>1. TableAfter(posts) = table
  BY DEF TableAfter
<1> HIDE DEF table
<1>2. MaxPosts \in Nat /\ NoBackgrounds \in Table /\ \A n \in 1 .. MaxPosts : posts[n] \in ImgPost
  BY FaceAssumption DEF NoBackgrounds, Table, Posts
<1>3. step \in Steps(Table, MaxPosts)
  BY <1>2, TableTyped DEF Steps
<1>4. PICK f \in Runs(Table, MaxPosts) : IsRecursive(f, NoBackgrounds, MaxPosts, step)
  <2> HIDE DEF step
  <2>. QED BY <1>2, <1>3, RecursionExists
<1>5. f \in [0 .. MaxPosts -> Table] /\ f[0] = NoBackgrounds
  BY <1>4 DEF Runs, IsRecursive
<1>6. \A n \in 1 .. MaxPosts : f[n] = PostBackground(f[n - 1], posts[n])
  <2> SUFFICES ASSUME NEW n \in 1 .. MaxPosts PROVE f[n] = PostBackground(f[n - 1], posts[n])
    OBVIOUS
  <2>1. n - 1 \in 0 .. MaxPosts
    BY <1>2
  <2>2. f[n - 1] \in Table
    BY <1>5, <2>1
  <2>. QED BY <1>4, <2>2 DEF IsRecursive
<1> HIDE DEF step
<1>7. f = [n \in 0 .. MaxPosts |-> IF n = 0 THEN NoBackgrounds ELSE PostBackground(f[n - 1], posts[n])]
  <2>1. \A n \in 0 .. MaxPosts :
           f[n] = IF n = 0 THEN NoBackgrounds ELSE PostBackground(f[n - 1], posts[n])
    BY <1>2, <1>5, <1>6
  <2>. QED BY <1>5, <2>1
<1>8. table = [n \in 0 .. MaxPosts |->
                  IF n = 0 THEN NoBackgrounds ELSE PostBackground(table[n - 1], posts[n])]
  BY <1>7 DEF table
<1>9. \A n \in 1 .. MaxPosts : table[n] = PostBackground(table[n - 1], posts[n])
  <2> SUFFICES ASSUME NEW n \in 1 .. MaxPosts PROVE table[n] = PostBackground(table[n - 1], posts[n])
    OBVIOUS
  <2>1. n \in 0 .. MaxPosts /\ n # 0
    BY <1>2
  <2>. QED BY <1>8, <2>1
<1>10. table[0] = NoBackgrounds
  BY <1>2, <1>8
<1> DEFINE G == {n \in 0 .. MaxPosts : table[n] \in Table}
<1>11. \A n \in 0 .. MaxPosts : n \in G
  <2>1. 0 \in G
    BY <1>2, <1>10
  <2>2. ASSUME NEW n \in 1 .. MaxPosts, n - 1 \in G PROVE n \in G
    <3>1. n \in 0 .. MaxPosts
      BY <1>2
    <3>2. table[n] \in Table
      BY <1>2, <1>9, <2>2, TableTyped
    <3>. QED BY <3>1, <3>2
  <2> HIDE DEF G
  <2>. QED BY <1>2, <2>1, <2>2, InductionUpTo
<1>. QED BY <1>1, <1>9, <1>10, <1>11

\* The n-th post is the one in entry e after the k-th.
IsIn(posts, e, n, k) == PlaceOf(posts[n]) = e /\ Lives(posts, n, k)

\* What one post more changes of that.
LEMMA LivesStep ==
    ASSUME NEW posts, NEW k \in Nat, NEW n \in 1 .. k
    PROVE  Lives(posts, n, k + 1) <=>
               Lives(posts, n, k) /\ ~posts[k + 1].clearAll /\ PlaceOf(posts[k + 1]) # PlaceOf(posts[n])
<1>1. \A m \in n + 1 .. k + 1 : m \in n + 1 .. k \/ m = k + 1
  OBVIOUS
<1>2. k + 1 \in n + 1 .. k + 1 /\ \A m \in n + 1 .. k : m \in n + 1 .. k + 1
  OBVIOUS
<1>. QED BY <1>1, <1>2 DEF Lives

LEMMA NewestLives ==
    ASSUME NEW posts, NEW k \in Nat PROVE Lives(posts, k, k)
<1>1. \A m \in k + 1 .. k : FALSE
  OBVIOUS
<1>. QED BY <1>1 DEF Lives

\* At most one post is in an entry.
LEMMA OneIsIn ==
    ASSUME NEW posts, NEW e, NEW k \in Nat, NEW m \in 1 .. k, NEW n \in 1 .. k,
           IsIn(posts, e, m, k), IsIn(posts, e, n, k)
    PROVE  m = n
<1>1. ASSUME m < n PROVE FALSE
  <2>1. n \in m + 1 .. k
    BY <1>1
  <2>. QED BY <2>1 DEF IsIn, Lives
<1>2. ASSUME n < m PROVE FALSE
  <2>1. m \in n + 1 .. k
    BY <1>2
  <2>. QED BY <2>1 DEF IsIn, Lives
<1>. QED BY <1>1, <1>2

\* An entry is the background of the post in it, if there is one.
EntryIsRight(posts, e, k) ==
    \/ \E n \in 1 .. k : IsIn(posts, e, n, k) /\ TableAfter(posts)[k][e] = posts[n].background
    \/ TableAfter(posts)[k][e] = NoBackground /\ \A n \in 1 .. k : ~IsIn(posts, e, n, k)

LEMMA EntryStaysRight ==
    ASSUME NEW posts \in Posts, NEW e \in Entry, NEW k \in Nat, k + 1 \in 1 .. MaxPosts,
           EntryIsRight(posts, e, k)
    PROVE  EntryIsRight(posts, e, k + 1)
<1> DEFINE p == posts[k + 1]
           was == TableAfter(posts)[k]
           is == TableAfter(posts)[k + 1]
<1>1. is = PostBackground(was, p)
  <2>1. (k + 1) - 1 = k
    OBVIOUS
  <2>. QED BY <2>1, TableIsRecursive
<1>2. was \in Table /\ NoBackgrounds \in Table
  <2>1. k \in 0 .. MaxPosts
    BY FaceAssumption
  <2>. QED BY <2>1, TableIsRecursive DEF NoBackgrounds, Table
<1>3. /\ PlaceOf(p) = e => is[e] = p.background
      /\ PlaceOf(p) # e /\ p.clearAll => is[e] = NoBackground
      /\ PlaceOf(p) # e /\ ~p.clearAll => is[e] = was[e]
  <2> HIDE DEF p, was, is
  <2>1. NoBackgrounds[e] = NoBackground
    BY DEF NoBackgrounds
  <2>. QED BY <1>1, <1>2, <2>1, PlacesAreEntries DEF PostBackground, Table
<1>4. \A n \in 1 .. k + 1 : n \in 1 .. k \/ n = k + 1
  OBVIOUS
<1>5. k + 1 \in 1 .. k + 1 /\ \A n \in 1 .. k : n \in 1 .. k + 1
  OBVIOUS
<1>6. CASE PlaceOf(p) = e
  <2>1. Lives(posts, k + 1, k + 1)
    <3> DEFINE l == k + 1
    <3>1. l \in Nat
      OBVIOUS
    <3>2. Lives(posts, l, l)
      <4> HIDE DEF l
      <4>. QED BY <3>1, NewestLives
    <3>. QED BY <3>2
  <2>2. IsIn(posts, e, k + 1, k + 1)
    BY <1>6, <2>1 DEF IsIn
  <2>3. is[e] = p.background
    BY <1>3, <1>6
  <2>. QED BY <1>5, <2>2, <2>3 DEF EntryIsRight
<1>7. CASE PlaceOf(p) # e /\ p.clearAll
  <2>1. is[e] = NoBackground
    BY <1>3, <1>7
  <2>2. \A n \in 1 .. k + 1 : ~IsIn(posts, e, n, k + 1)
    BY <1>4, <1>7, LivesStep DEF IsIn
  <2>. QED BY <2>1, <2>2 DEF EntryIsRight
<1>8. CASE PlaceOf(p) # e /\ ~p.clearAll
  <2>1. is[e] = was[e]
    BY <1>3, <1>8
  <2>2. \A n \in 1 .. k : IsIn(posts, e, n, k + 1) <=> IsIn(posts, e, n, k)
    BY <1>8, LivesStep DEF IsIn
  <2>3. ~IsIn(posts, e, k + 1, k + 1)
    BY <1>8 DEF IsIn
  <2>4. CASE \E n \in 1 .. k : IsIn(posts, e, n, k) /\ was[e] = posts[n].background
    BY <1>5, <2>1, <2>2, <2>4 DEF EntryIsRight
  <2>5. CASE was[e] = NoBackground /\ \A n \in 1 .. k : ~IsIn(posts, e, n, k)
    <3>1. \A n \in 1 .. k + 1 : ~IsIn(posts, e, n, k + 1)
      BY <1>4, <2>2, <2>3, <2>5
    <3>. QED BY <2>1, <2>5, <3>1 DEF EntryIsRight
  <2>. QED BY <2>4, <2>5 DEF EntryIsRight
<1>. QED BY <1>6, <1>7, <1>8

LEMMA TableIsAlwaysRight ==
    ASSUME NEW posts \in Posts, NEW e \in Entry
    PROVE  \A k \in 0 .. MaxPosts : EntryIsRight(posts, e, k)
<1> DEFINE G == {k \in 0 .. MaxPosts : EntryIsRight(posts, e, k)}
<1>1. MaxPosts \in Nat
  BY FaceAssumption
<1>2. EntryIsRight(posts, e, 0)
  BY TableIsRecursive DEF EntryIsRight, NoBackgrounds
<1>3. ASSUME NEW k \in 1 .. MaxPosts, k - 1 \in G PROVE k \in G
  <2> DEFINE l == k - 1
  <2>1. l \in Nat /\ l + 1 = k /\ k \in 0 .. MaxPosts /\ EntryIsRight(posts, e, l)
    BY <1>1, <1>3
  <2> HIDE DEF l
  <2>. QED BY <2>1, EntryStaysRight
<1>4. 0 \in G
  BY <1>1, <1>2
<1>5. \A k \in 0 .. MaxPosts : k \in G
  <2> HIDE DEF G
  <2>. QED BY <1>1, <1>3, <1>4, InductionUpTo
<1>. QED BY <1>5

\* A background is drawn when the ticks of its step are a multiple of its phase
\* and its value.
LEMMA TurnComes ==
    ASSUME NEW t \in 0 .. 255, NEW phase \in 1 .. 255, NEW value \in 0 .. 255
    PROVE  t % phase = value <=> value < phase /\ \E q \in 0 .. 255 : t = q * phase + value
<1>1. t % phase \in 0 .. phase - 1 /\ t = phase * (t \div phase) + (t % phase) /\ t \div phase \in Int
  OBVIOUS
<1> DEFINE d == t \div phase
<1>2. d \in Int /\ d * phase = phase * d
  BY <1>1
<1>3. ASSUME t % phase = value PROVE value < phase /\ \E q \in 0 .. 255 : t = q * phase + value
  <2>1. value < phase /\ t = d * phase + value
    BY <1>1, <1>2, <1>3
  <2> HIDE DEF d
  <2>2. d >= 0
    <3> SUFFICES ASSUME d <= -1 PROVE FALSE
      BY <1>2
    <3>1. (-1 - d) * phase >= 0 /\ (-1 - d) * phase = -phase - d * phase
      BY <1>2
    <3>. QED BY <1>2, <2>1, <3>1
  <2>3. d * phase >= d
    <3>1. d * (phase - 1) >= 0 /\ d * (phase - 1) = d * phase - d
      BY <1>2, <2>2
    <3>. QED BY <1>2, <3>1
  <2>4. d \in 0 .. 255
    BY <1>2, <2>1, <2>2, <2>3
  <2>. QED BY <2>1, <2>4
<1>4. ASSUME value < phase, NEW q \in 0 .. 255, t = q * phase + value PROVE t % phase = value
  <2>1. d * phase + (t % phase) = q * phase + value
    BY <1>1, <1>2, <1>4
  <2> DEFINE r == t % phase
  <2>2. r \in 0 .. phase - 1 /\ d * phase + r = q * phase + value
    BY <1>1, <2>1
  <2> HIDE DEF d, r
  <2>3. ASSUME d < q PROVE FALSE
    <3>1. (q - d - 1) * phase >= 0 /\ (q - d - 1) * phase = q * phase - d * phase - phase
      BY <1>2, <2>3
    <3>. QED BY <1>2, <1>4, <2>2, <3>1
  <2>4. ASSUME q < d PROVE FALSE
    <3>1. (d - q - 1) * phase >= 0 /\ (d - q - 1) * phase = d * phase - q * phase - phase
      BY <1>2, <2>4
    <3>. QED BY <1>2, <1>4, <2>2, <3>1
  <2>5. d = q
    BY <1>2, <2>3, <2>4
  <2>6. r = value
    BY <1>2, <2>2, <2>5
  <2>. QED BY <2>6 DEF r
<1>. QED BY <1>3, <1>4

ItsTurn(b, tickers) ==
    \/ b.phase = 0 \/ b.step \notin Step
    \/ b.value < b.phase /\ \E q \in 0 .. 255 : tickers[b.step] = q * b.phase + b.value
OnBoard(b, board) == IF board = 1 THEN b.color # "red" ELSE b.color \in {"red", "yellow"}
IsDrawn(b, tickers, board) == b.enabled /\ ItsTurn(b, tickers) /\ OnBoard(b, board)

LEMMA TurnsAreTaken ==
    ASSUME NEW b \in Background, NEW tickers \in [Step -> Ticker]
    PROVE  WillAnimate(b, tickers) <=> ItsTurn(b, tickers)
<1>1. b.phase \in 0 .. 255 /\ b.value \in 0 .. 255 /\ Ticker \subseteq 0 .. 255
  BY FaceAssumption
<1>2. DOMAIN tickers = Step
  OBVIOUS
<1>3. CASE b.phase = 0 \/ b.step \notin Step
  BY <1>2, <1>3 DEF WillAnimate, ItsTurn
<1>4. CASE b.phase # 0 /\ b.step \in Step
  <2>0. tickers[b.step] \in Ticker
    BY <1>4
  <2>1. tickers[b.step] \in 0 .. 255 /\ b.phase \in 1 .. 255
    <3>1. tickers[b.step] \in 0 .. 255
      BY <1>1, <2>0
    <3>2. \A p \in 0 .. 255 : p # 0 => p \in 1 .. 255
      OBVIOUS
    <3>. QED BY <1>1, <1>4, <3>1, <3>2
  <2>2. tickers[b.step] % b.phase = b.value <=>
            b.value < b.phase /\ \E q \in 0 .. 255 : tickers[b.step] = q * b.phase + b.value
    <3> DEFINE t == tickers[b.step]
               phase == b.phase
               value == b.value
    <3>1. t \in 0 .. 255 /\ phase \in 1 .. 255 /\ value \in 0 .. 255
      BY <1>1, <2>1
    <3>2. t % phase = value <=> value < phase /\ \E q \in 0 .. 255 : t = q * phase + value
      <4> HIDE DEF t, phase, value
      <4>. QED BY ZenonT(30), <3>1, TurnComes
    <3>. QED BY <3>2
  <2>. QED BY <1>2, <1>4, <2>2 DEF WillAnimate, ItsTurn
<1>. QED BY <1>3, <1>4

LEMMA BoardsAreRight ==
    ASSUME NEW b, b.color \in Color, NEW board
    PROVE  board \in BoardsOf(b.color) <=> board \in {1, 2} /\ OnBoard(b, board)
BY DEF BoardsOf, OnBoard, Color

\* The backgrounds drawn are those of the posts that live, for every size of the
\* table, every history of posts and every count of the ticks.
THEOREM BackgroundsFollowPosts == BackgroundsAreAsPosted
<1> SUFFICES ASSUME NEW posts \in Posts, NEW tickers \in [Step -> Ticker]
             PROVE  DrawBackgrounds(TableAfter(posts)[MaxPosts], tickers) =
                        {at \in Entry \X {1, 2} : \E n \in 1 .. MaxPosts :
                            /\ IsIn(posts, at[1], n, MaxPosts)
                            /\ IsDrawn(posts[n].background, tickers, at[2])}
  BY DEF BackgroundsAreAsPosted, Posts, IsIn, IsDrawn, ItsTurn, OnBoard
<1> DEFINE table == TableAfter(posts)[MaxPosts]
<1>1. MaxPosts \in Nat /\ MaxPosts \in 0 .. MaxPosts
  BY FaceAssumption
<1>2. \A n \in 1 .. MaxPosts : posts[n].background \in Background
  BY DEF Posts, ImgPost
<1>3. \A e \in Entry : EntryIsRight(posts, e, MaxPosts)
  BY <1>1, TableIsAlwaysRight
<1>4. \A b \in Background : b.color \in Color
  BY FaceAssumption
<1>5. \A e : \A board :
         <<e, board>> \in DrawBackgrounds(table, tickers) <=>
             /\ e \in Entry /\ table[e].enabled /\ WillAnimate(table[e], tickers)
             /\ board \in BoardsOf(table[e].color)
  BY DEF DrawBackgrounds
<1>6. ASSUME NEW e \in Entry, NEW board
      PROVE  <<e, board>> \in DrawBackgrounds(table, tickers) <=>
                 /\ board \in {1, 2}
                 /\ \E n \in 1 .. MaxPosts :
                       IsIn(posts, e, n, MaxPosts) /\ IsDrawn(posts[n].background, tickers, board)
  <2>1. CASE table[e] = NoBackground /\ \A n \in 1 .. MaxPosts : ~IsIn(posts, e, n, MaxPosts)
    <3>1. ~table[e].enabled
      BY <2>1 DEF NoBackground
    <3>. QED BY <1>5, <2>1, <3>1
  <2>2. ASSUME NEW n \in 1 .. MaxPosts, IsIn(posts, e, n, MaxPosts), table[e] = posts[n].background
        PROVE  <<e, board>> \in DrawBackgrounds(table, tickers) <=>
                 /\ board \in {1, 2}
                 /\ \E k \in 1 .. MaxPosts :
                       IsIn(posts, e, k, MaxPosts) /\ IsDrawn(posts[k].background, tickers, board)
    <3> DEFINE b == posts[n].background
    <3>1. b \in Background /\ b.color \in Color
      BY <1>2, <1>4
    <3>2. <<e, board>> \in DrawBackgrounds(table, tickers) <=>
              b.enabled /\ WillAnimate(b, tickers) /\ board \in BoardsOf(b.color)
      BY <1>5, <2>2
    <3>3. WillAnimate(b, tickers) <=> ItsTurn(b, tickers)
      BY <3>1, TurnsAreTaken
    <3>4. board \in BoardsOf(b.color) <=> board \in {1, 2} /\ OnBoard(b, board)
      BY <3>1, BoardsAreRight
    <3>5. <<e, board>> \in DrawBackgrounds(table, tickers) <=>
              board \in {1, 2} /\ IsDrawn(b, tickers, board)
      BY <3>2, <3>3, <3>4 DEF IsDrawn
    <3>6. \A k \in 1 .. MaxPosts : IsIn(posts, e, k, MaxPosts) => k = n
      BY <1>1, <2>2, OneIsIn
    <3>. QED BY <2>2, <3>5, <3>6
  <2>. QED BY <1>3, <2>1, <2>2 DEF EntryIsRight
<1>7. \A at \in DrawBackgrounds(table, tickers) :
         \E e \in Entry : \E board \in BoardsOf(table[e].color) : at = <<e, board>>
  BY DEF DrawBackgrounds
<1> DEFINE D == DrawBackgrounds(table, tickers)
           P(e, board) == \E n \in 1 .. MaxPosts :
               IsIn(posts, e, n, MaxPosts) /\ IsDrawn(posts[n].background, tickers, board)
<1>8. \A e \in Entry : \A board : <<e, board>> \in D <=> board \in {1, 2} /\ P(e, board)
  BY <1>6
<1>9. \A at \in D : \E e \in Entry : \E board : at = <<e, board>>
  BY <1>7
<1>10. D = {at \in Entry \X {1, 2} : P(at[1], at[2])}
  <2> HIDE DEF D, P
  <2>1. ASSUME NEW at \in D PROVE at \in Entry \X {1, 2} /\ P(at[1], at[2])
    <3>0. PICK e \in Entry : \E board : at = <<e, board>>
      BY <1>9
    <3>1. PICK board : at = <<e, board>>
      BY <3>0
    <3>2. board \in {1, 2} /\ P(e, board)
      BY <1>8, <3>1
    <3>. QED BY <3>1, <3>2
  <2>2. ASSUME NEW at \in Entry \X {1, 2}, P(at[1], at[2]) PROVE at \in D
    <3>1. PICK e \in Entry, board \in {1, 2} : at = <<e, board>>
      OBVIOUS
    <3>2. P(e, board)
      BY <2>2, <3>1
    <3>. QED BY <1>8, <3>1, <3>2
  <2>. QED BY <2>1, <2>2
<1>. QED BY <1>10

\* The car and the backgrounds follow what was told last.
THEOREM FaceIsCurrent == Spec => []FaceFollowsItsNews
<1>1. FaceFollowsItsNews
  BY CarDrivesWithMotion, BackgroundsFollowPosts DEF FaceFollowsItsNews
<1>. QED BY <1>1, PTL
=============================================================================
