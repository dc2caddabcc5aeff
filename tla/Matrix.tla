------------------------------- MODULE Matrix -------------------------------
(***************************************************************************)
(* How bright the matrix is: the moving average of the light sensor        *)
(* (src/src/lightSensor.cpp), the hysteresis of updateDim and the periodic *)
(* refresh checkHT1632 (src/src/displayInternal.cpp), and the part of the  *)
(* driver src/ht1632/HT1632.cpp that configures the chips.  Noise on the   *)
(* pins may change what a chip is configured to at any time.  The pixels   *)
(* are left out.                                                           *)
(***************************************************************************)
EXTENDS Integers, Sequences

CONSTANTS
    Reading,             \* the values an analog channel may have
    MaxLightValuesSize,  \* samples averaged, 10 in the code
    LowWaterMark, HighWaterMark,  \* 460 and 600 in the code
    CheckCountMax,       \* half seconds between two refreshes, 13 in the code
    MaxGlitches          \* bound: how often noise disturbs the chips

ASSUME MatrixAssumption ==
    /\ Reading \subseteq Nat
    /\ MaxLightValuesSize \in Nat \ {0}
    /\ LowWaterMark \in Nat /\ HighWaterMark \in Nat /\ LowWaterMark < HighWaterMark
    /\ CheckCountMax \in Nat \ {0}
    /\ MaxGlitches \in Nat

VARIABLES
    lightValues,
    roomIsDark,
    brightness,   \* what the driver asks of the chips, 1 .. 16
    chip,         \* what the chips do: PWM duty, and whether the LEDs are on
    checkCount,
    glitches      \* how often noise has disturbed the chips

matrixVars == <<lightValues, roomIsDark, brightness, chip, checkCount, glitches>>

Duty == {1, 16}
Configured(b) == [pwm |-> b, led |-> "on"]

MatrixType ==
    /\ lightValues \in Seq(Nat) /\ Len(lightValues) <= MaxLightValuesSize
    /\ roomIsDark \in {"yes", "no"}
    /\ brightness \in Duty
    /\ chip \in [pwm : Duty, led : {"on", "off"}]
    /\ checkCount \in 0 .. CheckCountMax - 1
    /\ glitches \in 0 .. MaxGlitches

MatrixInit ==
    /\ lightValues = <<>>
    /\ roomIsDark = "no"
    /\ brightness = 16
    /\ chip = Configured(16)
    /\ checkCount = 0
    /\ glitches = 0

\* doSensorRead: both channels are read, and the oldest sample makes room.
DoSensorRead(read0, read1) ==
    /\ lightValues' =
         Append(IF Len(lightValues) >= MaxLightValuesSize THEN Tail(lightValues)
                ELSE lightValues, (read0 + read1) \div 2)
    /\ UNCHANGED <<roomIsDark, brightness, chip, checkCount, glitches>>

\* The mean of the samples at hand, 0 as long as there is none.
GetLightValue_fullWindow ==
    LET sum[i \in 0 .. Len(lightValues)] == IF i = 0 THEN 0 ELSE sum[i - 1] + lightValues[i]
    IN sum[Len(lightValues)] \div MaxLightValuesSize
GetLightValue ==
    LET sum[i \in 0 .. Len(lightValues)] == IF i = 0 THEN 0 ELSE sum[i - 1] + lightValues[i]
    IN IF lightValues = <<>> THEN 0 ELSE sum[Len(lightValues)] \div Len(lightValues)

\* updateDim: a dark room has to reach the high water mark to be bright, a
\* bright one to fall below the low water mark to be dark.
UpdateDim ==
    LET mark == IF roomIsDark = "yes" THEN HighWaterMark ELSE LowWaterMark
    IN /\ roomIsDark' = IF GetLightValue < mark THEN "yes" ELSE "no"
       /\ IF roomIsDark' = roomIsDark
          THEN UNCHANGED <<brightness, chip>>
          ELSE /\ brightness' = IF roomIsDark' = "yes" THEN 1 ELSE 16
               /\ chip' = [chip EXCEPT !.pwm = brightness']
       /\ UNCHANGED <<lightValues, checkCount, glitches>>

\* checkHT1632: every CheckCountMax calls, and on every call while a message
\* is shown, the chips are configured again.
CheckHT1632_countIsLost(showsMessage) ==
    /\ IF checkCount + 1 < CheckCountMax /\ ~showsMessage
       THEN UNCHANGED <<checkCount, chip>>
       ELSE checkCount' = 0 /\ chip' = Configured(brightness)
    /\ UNCHANGED <<lightValues, roomIsDark, brightness, glitches>>
CheckHT1632(showsMessage) ==
    /\ IF checkCount + 1 < CheckCountMax /\ ~showsMessage
       THEN checkCount' = checkCount + 1 /\ UNCHANGED chip
       ELSE checkCount' = 0 /\ chip' = Configured(brightness)
    /\ UNCHANGED <<lightValues, roomIsDark, brightness, glitches>>

\* Noise in the pins makes the chips go out to lunch.
Glitch(state) ==
    /\ glitches < MaxGlitches
    /\ glitches' = glitches + 1
    /\ chip' = state
    /\ UNCHANGED <<lightValues, roomIsDark, brightness, checkCount>>

-----------------------------------------------------------------------------
\* A room whose light stays between the two water marks never changes from
\* bright to dark or back: the average of the samples, also of a window that
\* is not full yet, leaves the hysteresis alone.
NoFlicker ==
    [][lightValues # <<>> /\ (\A i \in 1 .. Len(lightValues) :
            lightValues[i] >= LowWaterMark /\ lightValues[i] < HighWaterMark)
        => UNCHANGED roomIsDark]_matrixVars

\* Once the room is bright, or dark, for good, and noise has ceased, so are
\* the chips, whatever the noise did to them: it is the refresh, not a change
\* of the light, that brings them back.
AllSamples(P(_)) == lightValues # <<>> /\ \A i \in 1 .. Len(lightValues) : P(lightValues[i])
IsBright(v) == v >= HighWaterMark
IsDark(v) == v < LowWaterMark
ChipsFollowTheLight ==
    /\ <>[]AllSamples(IsBright) => <>[](chip = Configured(16))
    /\ <>[]AllSamples(IsDark) => <>[](chip = Configured(1))
=============================================================================
