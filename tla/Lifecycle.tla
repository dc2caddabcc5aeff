----------------------------- MODULE Lifecycle -----------------------------
(***************************************************************************)
(* How the process starts and stops: main() of src/src/main.cpp, the loops *)
(* of its seven threads, their inboxes, the tick thread that wakes them,   *)
(* and the tear-down of the singletons once all of them are joined.        *)
(*                                                                         *)
(* The threads come in three shapes.  A cv thread (Display, LedStrip,      *)
(* LightSensor, MotionSensor) takes at most one message per round and then *)
(* blocks on its TimerTickServiceCv; a message thread (MqttClient,         *)
(* Dictionary) blocks on its inbox; the TimerTick thread blocks on         *)
(* nothing but wakes all the others.  What a round does for the            *)
(* application is left to the modules of the components, except what       *)
(* matters here: broadcasts, and the reads of a status report.             *)
(***************************************************************************)
EXTENDS InboxRegistry, Integers

CONSTANTS
    CvThread,      \* the threads that block on a cv tick
    MsgThread,     \* the threads that block on their inbox
    Order,         \* ThreadId order: every thread, TimerTick included
    Period,        \* Period[t]: ticks between two wake-ups of t
    InternalOwner, \* the cv threads with a heap object `internal'
    ReportReads,   \* the `internal' objects a status report reads, in order
    MaxInbox       \* bound: ordinary messages waiting in one inbox

TimerTick == "TimerTick"
Client == CvThread \cup MsgThread
Thread == Client \cup {TimerTick}

ASSUME LifecycleAssumption ==
    /\ CvThread \cap MsgThread = {}
    /\ TimerTick \notin Client
    /\ Order \in Seq(Thread)
    /\ \A t \in Thread : \E i \in 1 .. Len(Order) : Order[i] = t
    /\ \A i, j \in 1 .. Len(Order) : Order[i] = Order[j] => i = j
    /\ Period \in [Client -> Nat \ {0}]
    /\ InternalOwner \subseteq CvThread
    /\ ReportReads \in Seq(InternalOwner)
    /\ MaxInbox \in Nat

\* Fault: the tick service is torn down before the dictionary.
ShutdownOrder_tickFirst ==
    <<"TimerTick", "LightSensor", "MotionSensor", "WebHandlerInternal", "Display",
      "LedStrip", "MqttClient", "Dictionary", "InboxRegistry">>

\* The singletons main() shuts down, in its order.
ShutdownOrder ==
    <<"LightSensor", "MotionSensor", "WebHandlerInternal", "Display",
      "LedStrip", "MqttClient", "Dictionary", "TimerTick", "InboxRegistry">>
Singleton == {ShutdownOrder[i] : i \in DOMAIN ShutdownOrder}

\* The singletons the loop of a thread binds for its whole life, and the
\* ones a status report of MqttClient binds when it is gathered.
Binds(t) ==
    ({t, "TimerTick", "InboxRegistry"}
        \cup (IF t = "MqttClient" THEN {"LightSensor"} ELSE {})
        \cup (IF t = "Display" THEN {"LightSensor", "MotionSensor", "Dictionary"} ELSE {}))
    \cap Singleton
ReportBinds ==
    {"MotionSensor", "LightSensor", "Display", "LedStrip", "MqttClient", "Dictionary"}

Message == {"Terminate", "TimerTickMessage", "Other"}

VARIABLES
    mainPc,     \* where main() is
    at,         \* the index of the loop main() is in
    pc,         \* where each thread is
    inboxes,    \* the registry of module InboxRegistry
    ticksLeft,  \* countdown of the tick service of each client, 0: none
    expired,    \* the latched wake-up of each cv thread
    ready,      \* mqtt: the gate of its tick messages
    internal,   \* the pointer `internal' of each owner
    reading,    \* mqtt: index of the report read in progress
    live,       \* the singletons that exist
    entries     \* whether the dictionary holds entries with a timer

threadVars == <<pc, inboxes, ticksLeft, expired, ready, internal, reading>>
vars == <<mainPc, at, threadVars, live, entries>>

Init ==
    /\ mainPc = "init"
    /\ at = 1
    /\ pc = [t \in Thread |-> "unborn"]
    /\ inboxes = [t \in {} |-> <<>>]
    /\ ticksLeft = [t \in Client |-> 0]
    /\ expired = [t \in CvThread |-> FALSE]
    /\ ready = FALSE
    /\ internal = [t \in InternalOwner |-> "null"]
    /\ reading = 0
    /\ live = {"InboxRegistry"}
    /\ entries = FALSE

Goto(t, where) == pc' = [pc EXCEPT ![t] = where]

-----------------------------------------------------------------------------
(* main().                                                                 *)

\* GPIO, SPI or ADC initialization fails: main() returns before any thread.
InitializeFails ==
    /\ mainPc = "init"
    /\ mainPc' = "failed"
    /\ UNCHANGED <<at, threadVars, live, entries>>

\* The handlers of WebHandlerInternal bind the singletons they serve.
StartWebHandler ==
    /\ mainPc = "init"
    /\ mainPc' = "precreate"
    /\ live' = live \cup {"WebHandlerInternal", "Display", "LedStrip", "Dictionary"}
    /\ UNCHANGED <<at, threadVars, entries>>

\* The index of main() moves on, or the next phase begins.
Advance(next) ==
    IF at < Len(Order)
    THEN at' = at + 1 /\ UNCHANGED mainPc
    ELSE at' = 1 /\ mainPc' = next

\* Fault: the inboxes are left to be created by the threads.
PreCreateInbox_skipped ==
    /\ mainPc = "precreate"
    /\ Advance("launch")
    /\ UNCHANGED <<threadVars, live, entries>>

PreCreateInbox ==
    /\ mainPc = "precreate"
    /\ inboxes' = GetInbox(inboxes, Order[at])
    /\ Advance("launch")
    /\ UNCHANGED <<pc, ticksLeft, expired, ready, internal, reading, live, entries>>

Launch ==
    /\ mainPc = "launch"
    /\ Goto(Order[at], "setup")
    /\ Advance("serve")
    /\ UNCHANGED <<inboxes, ticksLeft, expired, ready, internal, reading, live, entries>>

\* pulsar_main() returns: the server was stopped, or could not start.
ServerReturns ==
    /\ mainPc = "serve"
    /\ mainPc' = "broadcast"
    /\ UNCHANGED <<at, threadVars, live, entries>>

BroadcastTerminate ==
    /\ mainPc = "broadcast"
    /\ inboxes' = Broadcast(inboxes, "Terminate", TimerTick)
    /\ mainPc' = "join"
    /\ UNCHANGED <<at, pc, ticksLeft, expired, ready, internal, reading, live, entries>>

\* Fault: TimerTick, not yet told to stop, is joined like the others.
Join_timerTickToo ==
    /\ mainPc = "join"
    /\ pc[Order[at]] = "done"
    /\ Advance("stopTick")
    /\ UNCHANGED <<threadVars, live, entries>>

\* Every thread but TimerTick is joined, in ThreadId order.
Join ==
    /\ mainPc = "join"
    /\ Order[at] # TimerTick => pc[Order[at]] = "done"
    /\ Advance("stopTick")
    /\ UNCHANGED <<threadVars, live, entries>>

SendTerminateToTimerTick ==
    /\ mainPc = "stopTick"
    /\ inboxes' = AddMessage(GetInbox(inboxes, TimerTick), TimerTick, "Terminate")
    /\ mainPc' = "joinTick"
    /\ UNCHANGED <<at, pc, ticksLeft, expired, ready, internal, reading, live, entries>>

JoinTimerTick ==
    /\ mainPc = "joinTick"
    /\ pc[TimerTick] = "done"
    /\ mainPc' = "shutdown"
    /\ UNCHANGED <<at, threadVars, live, entries>>

\* Dictionary::shutdown deletes the entries that are left, and each one
\* binds TimerTick, creating it if need be, to withdraw its timer.
Shutdown ==
    /\ mainPc = "shutdown"
    /\ LET which == ShutdownOrder[at]
           revived == IF which = "Dictionary" /\ entries THEN {"TimerTick"} ELSE {}
       IN  live' = (live \cup revived) \ {which}
    /\ IF at < Len(ShutdownOrder)
       THEN at' = at + 1 /\ UNCHANGED mainPc
       ELSE at' = 1 /\ mainPc' = "done"
    /\ UNCHANGED <<threadVars, entries>>

Main ==
    \/ StartWebHandler \/ PreCreateInbox \/ Launch \/ BroadcastTerminate
    \/ Join \/ SendTerminateToTimerTick \/ JoinTimerTick \/ Shutdown

-----------------------------------------------------------------------------
(* The threads.                                                            *)

\* A thread entry point binds its singletons, its inbox and its tick service.
SetUp(t) ==
    /\ pc[t] = "setup"
    /\ Goto(t, IF t \in CvThread \cup {TimerTick} THEN "check" ELSE "top")
    /\ live' = live \cup Binds(t)
    /\ inboxes' = GetInbox(inboxes, t)
    /\ ticksLeft' = IF t \in Client THEN [ticksLeft EXCEPT ![t] = Period[t]] ELSE ticksLeft
    /\ internal' = IF t \in InternalOwner THEN [internal EXCEPT ![t] = "live"] ELSE internal
    /\ UNCHANGED <<mainPc, at, expired, ready, reading, entries>>

\* One message at most is taken per round, and all but Terminate ignored.
CheckInbox(t) ==
    /\ t \in CvThread \cup {TimerTick}
    /\ pc[t] = "check"
    /\ inboxes' = IF inboxes[t] = <<>> THEN inboxes ELSE PopFront(inboxes, t)
    /\ IF inboxes[t] # <<>> /\ Head(inboxes[t]) = "Terminate"
       THEN Goto(t, "exit")
       ELSE Goto(t, IF t = TimerTick THEN "tick" ELSE "wait")
    /\ UNCHANGED <<mainPc, at, ticksLeft, expired, ready, internal, reading, live, entries>>

\* The wait() of a cv thread returns.
Wake(t) ==
    /\ t \in CvThread
    /\ pc[t] = "wait"
    /\ expired[t]
    /\ expired' = [expired EXCEPT ![t] = FALSE]
    /\ Goto(t, "work")
    /\ UNCHANGED <<mainPc, at, inboxes, ticksLeft, ready, internal, reading, live, entries>>

\* The round of a cv thread; Display and MotionSensor may have news to tell.
Work(t) ==
    /\ t \in CvThread
    /\ pc[t] = "work"
    /\ Goto(t, "check")
    /\ \/ UNCHANGED inboxes
       \/ /\ t \in {"Display", "MotionSensor"}
          /\ \A u \in DOMAIN inboxes : Len(inboxes[u]) < MaxInbox
          /\ inboxes' = Broadcast(inboxes, "Other", t)
    /\ UNCHANGED <<mainPc, at, ticksLeft, expired, ready, internal, reading, live, entries>>

\* `delete internal; internal = nullptr', without the lock of the singleton.
DeleteInternal(t) ==
    /\ t \in InternalOwner
    /\ pc[t] = "exit"
    /\ internal[t] # "null"
    /\ internal' = [internal EXCEPT ![t] = IF @ = "live" THEN "freed" ELSE "null"]
    /\ UNCHANGED <<mainPc, at, pc, inboxes, ticksLeft, expired, ready, reading, live, entries>>

\* The loop is left: the tick service is unregistered, and the message
\* threads empty their inbox.
Exit(t) ==
    /\ pc[t] = "exit"
    /\ t \in InternalOwner => internal[t] = "null"
    /\ Goto(t, "done")
    /\ ticksLeft' = IF t \in Client THEN [ticksLeft EXCEPT ![t] = 0] ELSE ticksLeft
    /\ inboxes' = IF t \in MsgThread THEN Clear(inboxes, t) ELSE inboxes
    /\ UNCHANGED <<mainPc, at, expired, ready, internal, reading, live, entries>>

\* MqttClient opens the gate for tick messages before it waits for mail.
OpenGate(t) ==
    /\ t \in MsgThread
    /\ pc[t] = "top"
    /\ Goto(t, "receive")
    /\ ready' = IF t = "MqttClient" THEN TRUE ELSE ready
    /\ UNCHANGED <<mainPc, at, inboxes, ticksLeft, expired, internal, reading, live, entries>>

\* waitForMessage returns; a tick may start a report of the mqtt client, or
\* let the dictionary purge its entries.
Receive(t) ==
    /\ t \in MsgThread
    /\ pc[t] = "receive"
    /\ inboxes[t] # <<>>
    /\ inboxes' = PopFront(inboxes, t)
    /\ LET msg == Head(inboxes[t])
       IN  /\ \/ /\ Goto(t, IF msg = "Terminate" THEN "exit" ELSE "top")
                 /\ UNCHANGED <<reading, live>>
              \/ /\ t = "MqttClient" /\ msg = "TimerTickMessage"
                 /\ ReportReads # <<>>
                 /\ Goto(t, "report")
                 /\ reading' = 1
                 /\ live' = live \cup ReportBinds
           /\ ready' = IF t = "MqttClient" /\ msg = "TimerTickMessage" THEN FALSE ELSE ready
    /\ UNCHANGED <<mainPc, at, ticksLeft, expired, internal, entries>>

\* A report asks an owner for its mode: under the owner's lock it compares
\* `internal' with null, and follows the pointer if it is not.
NextRead(t) ==
    IF reading < Len(ReportReads)
    THEN Goto(t, "report") /\ reading' = reading + 1
    ELSE Goto(t, "top") /\ reading' = 0

ReportCheck(t) ==
    /\ t = "MqttClient"
    /\ pc[t] = "report"
    /\ IF internal[ReportReads[reading]] = "null"
       THEN NextRead(t)
       ELSE Goto(t, "follow") /\ UNCHANGED reading
    /\ UNCHANGED <<mainPc, at, inboxes, ticksLeft, expired, ready, internal, live, entries>>

ReportFollow(t) ==
    /\ t = "MqttClient"
    /\ pc[t] = "follow"
    /\ NextRead(t)
    /\ UNCHANGED <<mainPc, at, inboxes, ticksLeft, expired, ready, internal, live, entries>>

\* One tick: every registered service counts down, and fires at zero.  The
\* bound MaxInbox cuts off the backlog of a message thread that lags behind.
Fires(t) == ticksLeft[t] = 1
GateOpen(t) == t = "MqttClient" => ready

Tick ==
    /\ pc[TimerTick] = "tick"
    /\ Goto(TimerTick, "check")
    /\ ticksLeft' = [t \in Client |->
          IF ticksLeft[t] > 1 THEN ticksLeft[t] - 1
          ELSE IF Fires(t) THEN Period[t] ELSE 0]
    /\ expired' = [t \in CvThread |-> expired[t] \/ Fires(t)]
    /\ inboxes' = [t \in DOMAIN inboxes |->
          IF t \in MsgThread /\ Len(inboxes[t]) < MaxInbox
          THEN IF Fires(t) /\ GateOpen(t)
               THEN Append(inboxes[t], "TimerTickMessage") ELSE inboxes[t]
          ELSE inboxes[t]]
    /\ UNCHANGED <<mainPc, at, ready, internal, reading, live, entries>>

\* A web worker posts an entry with a timeout while the server is up.
PostEntry ==
    /\ mainPc = "serve"
    /\ ~entries
    /\ entries' = TRUE
    /\ live' = live \cup {"TimerTick"}
    /\ UNCHANGED <<mainPc, at, threadVars>>

Run(t) ==
    \/ SetUp(t) \/ CheckInbox(t) \/ Wake(t) \/ Work(t) \/ DeleteInternal(t)
    \/ Exit(t) \/ OpenGate(t) \/ Receive(t) \/ ReportCheck(t) \/ ReportFollow(t)
    \/ t = TimerTick /\ Tick

Over == mainPc \in {"done", "failed"} /\ UNCHANGED vars

Next ==
    \/ Main \/ InitializeFails \/ ServerReturns \/ PostEntry
    \/ \E t \in Thread : Run(t)
    \/ Over

Spec == Init /\ [][Next]_vars

\* Every thread that can take a step is eventually scheduled; whether the
\* server ever returns is up to the user.
Fairness == WF_vars(Main) /\ \A t \in Thread : WF_vars(Run(t))

FairSpec == Spec /\ Fairness

-----------------------------------------------------------------------------
(* Properties.                                                             *)

Holds(q, msg) == \E i \in 1 .. Len(q) : q[i] = msg

AfterBroadcast ==
    {"join", "stopTick", "joinTick", "shutdown", "done"}

\* The types of the state: threads, inboxes and services.
TypeOK ==
    /\ mainPc \in {"init", "failed", "precreate", "launch", "serve", "broadcast"}
                     \cup AfterBroadcast
    /\ at \in Nat \ {0}
    /\ pc \in [Thread -> {"unborn", "setup", "check", "wait", "work", "tick", "top",
                          "receive", "report", "follow", "exit", "done"}]
    /\ DOMAIN inboxes \subseteq Thread
    /\ inboxes \in [DOMAIN inboxes -> Seq(Message)]
    /\ ticksLeft \in [Client -> Nat]
    /\ expired \in [CvThread -> BOOLEAN]
    /\ ready \in BOOLEAN
    /\ internal \in [InternalOwner -> {"null", "live", "freed"}]
    /\ reading \in Nat
    /\ live \subseteq Singleton
    /\ entries \in BOOLEAN

\* Shutdown cannot be missed: once main() has broadcast Terminate, every
\* client that has not left its loop still has the message ahead of it, even
\* a thread that had not begun to run at the time.
NobodyMissesTerminate ==
    mainPc \in AfterBroadcast =>
        \A t \in Client :
            \/ pc[t] \in {"exit", "done"}
            \/ t \in DOMAIN inboxes /\ Holds(inboxes[t], "Terminate")

\* A thread blocked on its tick can still be woken: the wake-up is latched, or
\* its service counts and the tick thread has not been stopped.
WaitersAreServed ==
    \A t \in CvThread : pc[t] = "wait" =>
        expired[t] \/ (ticksLeft[t] > 0 /\ pc[TimerTick] \notin {"exit", "done"})

\* A thread that is gone has left no tick service behind: the services live
\* on its stack, so a tick would follow a dangling pointer.
NoServiceOfDeadThread ==
    \A t \in Client : pc[t] = "done" => ticksLeft[t] = 0

\* No singleton is torn down under a thread that works with it.
SingletonsOutliveThreads ==
    \A t \in Thread :
        /\ pc[t] \notin {"unborn", "setup", "done"} => Binds(t) \subseteq live
        /\ pc[t] \in {"report", "follow"} => ReportBinds \subseteq live

\* main() leaves nothing behind: every singleton is gone at the end, and none
\* was brought back by the tear-down of another.
CleanExit == mainPc = "done" => live = {}

\* A status report follows `internal' only while the object exists, as the
\* comment in statusReportGather.cpp has it: each singleton guards its state.
ReportReadsLiveObject ==
    pc["MqttClient"] = "follow" => internal[ReportReads[reading]] = "live"

\* Once the server has returned, the process ends: no thread waits forever
\* and no join blocks.
ShutdownCompletes == mainPc = "broadcast" ~> mainPc = "done"

\* Whenever the server returns, and however far each thread is then, every
\* thread hears of it: Terminate reaches it, and it is not blocked for good
\* on the way there.
NobodyIsStranded == NobodyMissesTerminate /\ WaitersAreServed

\* Things go in the order in which they are needed: no tick service outlives the
\* stack it is on, no singleton goes before its last user, and none comes back.
TearDownIsOrderly == NoServiceOfDeadThread /\ SingletonsOutliveThreads /\ CleanExit
=============================================================================
