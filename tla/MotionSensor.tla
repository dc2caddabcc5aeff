---------------------------- MODULE MotionSensor ----------------------------
(***************************************************************************)
(* The motion sensor of src/src/motionSensor.cpp: once a second its thread *)
(* reads the pin and counts the time since the reading last changed.  The  *)
(* broadcast of a change is left to the modules of the threads that read   *)
(* their inboxes for it.                                                   *)
(***************************************************************************)
EXTENDS Integers

CONSTANTS
    SecPerMin, MinPerHour,  \* 60 and 60 in the code
    MaxHour,                \* where the hours stop, 254 in the code
    IdleMin                 \* minutes without motion until the clock goes off

ASSUME MotionAssumption ==
    /\ SecPerMin \in Nat \ {0} /\ MinPerHour \in Nat \ {0} /\ MaxHour \in Nat \ {0}
    /\ IdleMin \in Nat

\* MotionInfo: currMotionDetected, lastChangedSec, lastChangedMin, lastChangedHour
VARIABLES motion, sec, min, hour

motionVars == <<motion, sec, min, hour>>

MotionType ==
    /\ motion \in {"on", "off"}
    /\ sec \in 0 .. SecPerMin - 1
    /\ min \in 0 .. MinPerHour - 1
    /\ hour \in 0 .. MaxHour

MotionInit == motion = "off" /\ sec = 0 /\ min = 0 /\ hour = 0

\* As an Int8U that is not stopped would count.
CountSecond_wraps ==
    \/ /\ sec + 1 < SecPerMin
       /\ sec' = sec + 1
       /\ UNCHANGED <<min, hour>>
    \/ /\ sec + 1 >= SecPerMin /\ min + 1 < MinPerHour
       /\ sec' = 0 /\ min' = min + 1
       /\ UNCHANGED hour
    \/ /\ sec + 1 >= SecPerMin /\ min + 1 >= MinPerHour
       /\ sec' = 0 /\ min' = 0
       /\ hour' = (hour + 1) % (MaxHour + 1)

\* Seconds carry into minutes and minutes into hours, which saturate.
CountSecond ==
    \/ /\ sec + 1 < SecPerMin
       /\ sec' = sec + 1
       /\ UNCHANGED <<min, hour>>
    \/ /\ sec + 1 >= SecPerMin /\ min + 1 < MinPerHour
       /\ sec' = 0 /\ min' = min + 1
       /\ UNCHANGED hour
    \/ /\ sec + 1 >= SecPerMin /\ min + 1 >= MinPerHour
       /\ sec' = 0 /\ min' = 0
       /\ hour' = IF hour < MaxHour THEN hour + 1 ELSE hour

\* A change of the reading restarts the count.
CheckMotionSensor(reading) ==
    /\ motion' = reading
    /\ \/ reading = motion /\ CountSecond
       \/ reading # motion /\ sec' = 0 /\ min' = 0 /\ hour' = 0

\* Fault: the reading is not asked for, only how long it has been the same.
Idle_anyReading == min > IdleMin \/ hour > 0

\* What modeBasicClockFast asks before it turns the clock off.
Idle == motion = "off" /\ (min > IdleMin \/ hour > 0)

\* A room that has been empty long enough stays so until there is motion: no
\* wrap of the minutes, and no saturation of the hours, makes it look busy.
IdleUntilMotion == [][Idle /\ motion' = "off" => Idle']_motionVars
=============================================================================
