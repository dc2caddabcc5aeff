------------------------------ MODULE Display ------------------------------
(***************************************************************************)
(* What the matrix shows: the display thread of src/src/display.cpp and    *)
(* the three modes of src/src/displayInternal.cpp, composed with the queue *)
(* of posts the web workers fill, the motion sensor the modes look at      *)
(* (MotionSensor), the light sensor and chips (Matrix) and the functions   *)
(* that draw around the time and behind messages (Face).                   *)
(*                                                                         *)
(* Woken by its fast tick, the display thread takes its lock, handles one  *)
(* post, and runs the handlers of the current mode whose ticks are due,    *)
(* the faster ones first; a handler may change the mode for the ones after *)
(* it.  The sensors have locks of their own, so every handler may see      *)
(* something else.  Other drawing is left out, and so are the 100 ms tick  *)
(* and those of 5 s and more, which at most draw.  The broadcasts of a     *)
(* change of mode or brightness reach no reader in this module.            *)
(***************************************************************************)
EXTENDS MotionSensor, Matrix, Face

CONSTANTS
    MaxInt,       \* the largest value of an int, 2^31 - 1 in the code
    Post,         \* the posts a web worker may make
    BootTimeout,  \* seconds the boot message is shown for
    Span,         \* fast ticks until a message has scrolled by
    MaxTodo       \* bound: posts waiting

\* Int32U is as wide as int; ~0 stands for `forever' in both.
Forever == 2 * MaxInt + 1
ToInt(n) == IF n > MaxInt THEN n - Forever - 1 ELSE n
Decrement32U(n) == IF n = 0 THEN Forever ELSE n - 1

\* What a post to the message mode may ask for; a post to the background
\* messages or images does not touch the modes.
MessagePost ==
    [kind : {"message"}, timeout : 0 .. Forever, repeats : 0 .. Forever,
     x : 0 .. MaxInt - 1, scroll : {"yes", "no"}, blink : {"yes", "no"}]
BackgroundPost == [kind : {"background"}]

ASSUME DisplayAssumption ==
    /\ MaxInt \in Nat \ {0, 1}
    /\ Post \subseteq MessagePost \cup BackgroundPost
    /\ BootTimeout \in 1 .. Forever - 1
    /\ Span \in 1 .. MaxInt
    /\ MaxTodo \in Nat

VARIABLES
    pc,          \* the display thread: "asleep", or the next step of its round
    displayTodos,
    mode,
    timeout, repeats, scroll, currX, blink, blank,  \* modeMessageData
    due,         \* the ticks that expired since they were last looked at
    asked,       \* history: the post the message mode was entered with
    elapsed,     \* history: one-second ticks since, at most Forever
    shown        \* history: times the message has scrolled by since, likewise

messageVars == <<timeout, repeats, scroll, currX, blink, blank>>
historyVars == <<asked, elapsed, shown>>
displayVars == <<pc, displayTodos, mode, messageVars, due, historyVars>>
vars == <<displayVars, motionVars, matrixVars>>

Tick == {"250ms", "500ms", "1sec"}

\* initDisplay: the boot message, not scrolling, repeated until it times out.
BootPost ==
    [kind |-> "message", timeout |-> BootTimeout, repeats |-> Forever,
     x |-> 1, scroll |-> "no", blink |-> "no"]

Init ==
    /\ pc = "asleep"
    /\ displayTodos = <<>>
    /\ mode = "message"
    /\ timeout = BootTimeout /\ repeats = -1
    /\ scroll = "no" /\ currX = 1 /\ blink = "no" /\ blank = "no"
    /\ due = {}
    /\ MotionInit /\ MatrixInit
    /\ asked = BootPost /\ elapsed = 0 /\ shown = 0

-----------------------------------------------------------------------------
(* The outside: web workers, the tick thread, the sensors, the chips.      *)

\* A web worker queues a post, under the lock of the display.
EnqueuePost(p) ==
    /\ pc = "asleep"
    /\ Len(displayTodos) < MaxTodo
    /\ displayTodos' = Append(displayTodos, p)
    /\ UNCHANGED <<pc, mode, messageVars, due, historyVars, motionVars, matrixVars>>

TickExpires(t) ==
    /\ t \notin due
    /\ due' = due \cup {t}
    /\ UNCHANGED <<pc, displayTodos, mode, messageVars, historyVars, motionVars, matrixVars>>

SensorRead(reading) == CheckMotionSensor(reading) /\ UNCHANGED <<displayVars, matrixVars>>
LightRead(r0, r1) == DoSensorRead(r0, r1) /\ UNCHANGED <<displayVars, motionVars>>
Noise(state) == Glitch(state) /\ UNCHANGED <<displayVars, motionVars>>

-----------------------------------------------------------------------------
(* A round of the display thread.                                          *)

ChangeDisplayMode(m) == mode' = m

\* As if the message were not started with its defaults.
ShowMessage_keepsBlank(p) ==
    /\ ChangeDisplayMode("message")
    /\ timeout' = p.timeout
    /\ repeats' = ToInt(p.repeats)
    /\ scroll' = p.scroll
    /\ currX' = p.x
    /\ blink' = p.blink
    /\ blank' = blank
    /\ asked' = p /\ elapsed' = 0 /\ shown' = 0

\* doHandleMsgModePost: the message data start from their defaults.
ShowMessage(p) ==
    /\ ChangeDisplayMode("message")
    /\ timeout' = p.timeout
    /\ repeats' = ToInt(p.repeats)
    /\ scroll' = p.scroll
    /\ currX' = p.x
    /\ blink' = p.blink
    /\ blank' = "no"
    /\ asked' = p /\ elapsed' = 0 /\ shown' = 0

\* The fast tick wakes the thread, which handles at most one post.
CheckTodoList ==
    /\ pc = "asleep"
    /\ pc' = "fast"
    /\ IF displayTodos = <<>>
       THEN UNCHANGED <<displayTodos, mode, messageVars, historyVars>>
       ELSE /\ displayTodos' = Tail(displayTodos)
            /\ IF Head(displayTodos).kind = "message"
               THEN ShowMessage(Head(displayTodos))
               ELSE UNCHANGED <<mode, messageVars, historyVars>>
    /\ UNCHANGED <<due, motionVars, matrixVars>>

\* modeMessageFast: a scrolling message moves on; once it has scrolled by,
\* it is repeated or the mode ends, `repeats' being set to ~0 so that it does
\* so only once.  Decrementing the least int is undefined: it may wrap.
ScrolledBy == currX + 1 >= Span
Decremented(n) == {n - 1} \cup (IF n = -MaxInt - 1 THEN {MaxInt} ELSE {})

NextRepeat ==
    \/ repeats = -1 /\ UNCHANGED <<repeats, mode>>
    \/ /\ repeats # -1
       /\ \E n \in Decremented(repeats) :
            IF n < 0 THEN repeats' = -1 /\ ChangeDisplayMode("basicClock")
                     ELSE repeats' = n /\ UNCHANGED mode

TickFast ==
    /\ pc = "fast"
    /\ pc' = "250ms"
    /\ IF mode = "message" /\ scroll = "yes"
       THEN IF ScrolledBy
            THEN /\ currX' = 0
                 /\ NextRepeat
                 /\ shown' = IF shown < Forever THEN shown + 1 ELSE shown
            ELSE currX' = currX + 1 /\ UNCHANGED <<mode, repeats, shown>>
       ELSE UNCHANGED <<mode, currX, repeats, shown>>
    /\ UNCHANGED <<displayTodos, timeout, scroll, blink, blank, due, asked, elapsed,
                   motionVars, matrixVars>>

\* The handlers of a tick run if the tick is due, and reset it.
Due(t, then) ==
    /\ pc = t
    /\ pc' = then
    /\ due' = due \ {t}
    /\ UNCHANGED <<displayTodos, motionVars>>

Flip(b) == IF b = "yes" THEN "no" ELSE "yes"

\* modeMessageCheckBlink
Tick250ms ==
    /\ Due("250ms", "500ms")
    /\ blank' = IF "250ms" \in due /\ mode = "message" /\ blink = "yes" THEN Flip(blank) ELSE blank
    /\ UNCHANGED <<mode, timeout, repeats, scroll, currX, blink, historyVars, matrixVars>>

\* checkHT1632, then modeBasicClockFast
Tick500ms ==
    /\ Due("500ms", "1sec")
    /\ IF "500ms" \in due THEN CheckHT1632(mode = "message") ELSE UNCHANGED matrixVars
    /\ IF "500ms" \in due /\ mode = "basicClock" /\ Idle
       THEN ChangeDisplayMode("nothing")
       ELSE UNCHANGED mode
    /\ UNCHANGED <<messageVars, historyVars>>

\* Fault: the count is tested before it is decremented.
CheckTimeout_postDecrement ==
    \/ timeout = Forever /\ UNCHANGED <<mode, timeout>>
    \/ /\ timeout # Forever
       /\ IF timeout <= 0
          THEN timeout' = Forever /\ ChangeDisplayMode("basicClock")
          ELSE timeout' = Decrement32U(timeout) /\ UNCHANGED mode

\* modeMessageCheckTimeout: the unsigned count is decremented, then tested.
CheckTimeout ==
    \/ timeout = Forever /\ UNCHANGED <<mode, timeout>>
    \/ /\ timeout # Forever
       /\ IF Decrement32U(timeout) <= 0
          THEN timeout' = Forever /\ ChangeDisplayMode("basicClock")
          ELSE timeout' = Decrement32U(timeout) /\ UNCHANGED mode

\* modeNothingCheckMotion
CheckMotion ==
    /\ IF motion = "on" THEN ChangeDisplayMode("basicClock") ELSE UNCHANGED mode
    /\ UNCHANGED timeout

Tick1sec ==
    /\ Due("1sec", "asleep")
    /\ IF "1sec" \in due
       THEN /\ \/ mode = "message" /\ CheckTimeout
               \/ mode = "nothing" /\ CheckMotion
               \/ mode = "basicClock" /\ UNCHANGED <<mode, timeout>>
            /\ UpdateDim
            /\ elapsed' = IF mode = "message" /\ elapsed < Forever THEN elapsed + 1 ELSE elapsed
       ELSE UNCHANGED <<mode, timeout, elapsed, matrixVars>>
    /\ UNCHANGED <<repeats, scroll, currX, blink, blank, asked, shown>>

Round == CheckTodoList \/ TickFast \/ Tick250ms \/ Tick500ms \/ Tick1sec

Next ==
    \/ Round
    \/ \E p \in Post : EnqueuePost(p)
    \/ \E t \in Tick : TickExpires(t)
    \/ \E reading \in {"on", "off"} : SensorRead(reading)
    \/ \E r0, r1 \in Reading : LightRead(r0, r1)
    \/ \E state \in [pwm : Duty, led : {"on", "off"}] : Noise(state)

Spec == Init /\ [][Next]_vars

\* The display thread is woken every 12 ms, the tick thread runs on, and the
\* motion sensor is read every second: while it reads the same, time counts.
\* (Fairness of all readings together would force them to differ.)
Fairness ==
    /\ WF_vars(Round)
    /\ \A t \in Tick : WF_vars(TickExpires(t))
    /\ \A reading \in {"on", "off"} : WF_vars(motion = reading /\ SensorRead(reading))

FairSpec == Spec /\ Fairness

-----------------------------------------------------------------------------
(* Properties.                                                             *)

\* The types of the state: the counters stay within the width of the integers.
TypeOK ==
    /\ pc \in {"asleep", "fast"} \cup Tick
    /\ displayTodos \in Seq(Post)
    /\ mode \in {"nothing", "basicClock", "message"}
    /\ timeout \in 0 .. Forever
    /\ repeats \in -1 - MaxInt .. MaxInt
    /\ scroll \in {"yes", "no"} /\ blink \in {"yes", "no"} /\ blank \in {"yes", "no"}
    /\ currX \in 0 .. MaxInt - 1
    /\ due \subseteq Tick
    /\ MotionType /\ MatrixType
    /\ asked \in MessagePost
    /\ elapsed \in 0 .. Forever /\ shown \in 0 .. Forever

\* A message with a time limit is gone after that many one-second ticks, no
\* matter what was shown before it and what state that left behind.
MessageEndsInTime ==
    mode = "message" /\ asked.timeout \in 1 .. Forever - 1 => elapsed < asked.timeout

\* A message to be repeated n times has not scrolled by more than n times
\* while it is shown: it is over with the first showing and n repeats.
MessageRepeatsAreBounded ==
    mode = "message" /\ asked.repeats \in 0 .. MaxInt => shown <= asked.repeats

\* A message that does not blink is never blanked, even if the one before
\* was replaced while it was dark.
SteadyMessageIsVisible == mode = "message" /\ asked.blink = "no" => blank = "no"

\* If there is motion for good, the display is on for good.
MotionTurnsDisplayOn == <>[](motion = "on") => <>[](mode # "nothing")

\* If the room is empty for good and no posts come in, the display goes off
\* for good, unless a message was asked for that never times out (for which
\* the code takes 0 as well as ~0).
EmptyRoomTurnsDisplayOff ==
    <>[](motion = "off" /\ displayTodos = <<>>) =>
        <>[](mode = "nothing" \/ (mode = "message" /\ asked.timeout \in {0, Forever}))

\* The comment on `timeout': the maximal number of seconds a message is
\* shown, with ~0 alone for forever; one tick of 1 s may be on its way.
TimeoutIsMaximum ==
    mode = "message" /\ asked.timeout # Forever => elapsed <= asked.timeout + 1

\* The comment on `repeats': the number of times a message is displayed
\* before the mode is completed, when it scrolls.
RepeatsIsTimesShown ==
    mode = "message" /\ asked.repeats \in 1 .. MaxInt => shown < asked.repeats

\* A message with a limit comes to its end, by the clock or by its repeats,
\* whatever it replaced and whichever integer was posted.
MessagesEnd == MessageEndsInTime /\ MessageRepeatsAreBounded

\* The display is on where there is motion and goes off where there is none, from
\* every mode, message and count.
DisplayFollowsTheRoom == MotionTurnsDisplayOn /\ EmptyRoomTurnsDisplayOff

\* What is drawn around the time and behind messages follows what was told last.
\* The functions of Face have no state: before the first round is as good as at
\* any time.
FaceFollowsItsNews ==
    pc = "asleep" /\ displayTodos = <<>> /\ due = {} /\ elapsed = 0 /\ shown = 0 =>
        CarFollowsMotion /\ BackgroundsAreAsPosted
=============================================================================
