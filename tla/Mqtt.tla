-------------------------------- MODULE Mqtt --------------------------------
(***************************************************************************)
(* The MQTT client of src/src/mqttClient.cpp.  Its thread waits for mail:  *)
(* ticks, on which it lets libmosquitto work, reports and reconnects; and  *)
(* changes of motion and of the display, which it publishes on retained    *)
(* topics.  The library, the broker and the network are external, modelled *)
(* from how the code uses them.                                            *)
(*                                                                         *)
(* The counters of MqttClientInfo, which only a status report prints, and  *)
(* the topics that are not retained are left out.                          *)
(***************************************************************************)
EXTENDS Sequences, Integers

CONSTANTS
    DisplayTopic,   \* the topics of the display: its mode, its intensity
    Values,         \* Values[t]: what the display may tell about t
    MaxTicks,       \* bound: ticks waiting in the inbox or on their way there
    MaxNews         \* bound: other messages waiting in the inbox

Topic == DisplayTopic \cup {"motion"}

ASSUME MqttAssumption ==
    /\ "motion" \notin DisplayTopic
    /\ Topic \cap {"tick", "terminate"} = {}
    /\ \A t \in DisplayTopic : Values[t] # {} /\ "old" \notin Values[t]
    /\ MaxTicks \in Nat /\ MaxNews \in Nat

ValuesOf(t) == IF t = "motion" THEN {"on", "off"} ELSE Values[t]
Tick == [topic |-> "tick"]
Terminate == [topic |-> "terminate"]
News == UNION {[topic : {t}, value : ValuesOf(t)] : t \in Topic}
Message == News \cup {Tick, Terminate}

VARIABLES
    source,             \* source[t]: what motion sensor and display last told
    inbox,              \* the inbox of the thread
    pc, msg, rc,        \* where the thread is, the message and the result at hand
    ready,              \* readyForTimerTickServiceMessage
    firing,             \* a tick is past the gate and not yet in the inbox
    reportExpired, reconnectExpired, motionExpired,  \* latched tick services
    motionRunning,      \* the one-shot damper of motion is counting
    publishedMotionOn,
    connected,          \* mqttBrokerConnected
    conn,               \* the connection, as the library and the broker have it
    net,                \* the broker: out of reach, turning us away, or up
    retained,           \* retained[t]: what the broker tells new subscribers, `old' as
                        \* long as the last publication did not arrive
    late, behind        \* history of a call of the library: ticks past the gate at its
                        \* beginning, ticks that came in since

mailVars == <<source, inbox>>
threadVars == <<pc, msg, rc>>
flagVars == <<reportExpired, reconnectExpired, motionExpired, motionRunning>>
gateVars == <<ready, firing, late, behind>>
timerVars == <<gateVars, flagVars>>
linkVars == <<connected, conn, net>>
topicVars == <<publishedMotionOn, retained>>
vars == <<mailVars, threadVars, timerVars, linkVars, topicVars>>

Ticks == SelectSeq(inbox, LAMBDA m : m = Tick)
Count(b) == IF b THEN 1 ELSE 0

\* The broker holds whatever an earlier life of the process left there.
Init ==
    /\ source \in {s \in [Topic -> UNION {ValuesOf(t) : t \in Topic}] :
                      s["motion"] = "off" /\ \A t \in Topic : s[t] \in ValuesOf(t)}
    /\ inbox = <<>>
    /\ pc = "top" /\ msg = Tick /\ rc = "SUCCESS"
    /\ ready = FALSE /\ firing = FALSE /\ late = 0 /\ behind = 0
    /\ reportExpired = FALSE /\ reconnectExpired = TRUE
    /\ motionExpired = TRUE /\ motionRunning = FALSE
    /\ publishedMotionOn = FALSE
    /\ connected = FALSE /\ conn = "none" /\ net = "up"
    /\ retained = [t \in Topic |-> "old"]

-----------------------------------------------------------------------------
(* The other threads: who has news broadcasts it; the motion sensor only   *)
(* when its reading changed.  Ticks and dampers are fired by TimerTick.    *)

Broadcast(t, v) ==
    /\ pc # "done"
    /\ Len(inbox) - Len(Ticks) < MaxNews
    /\ t = "motion" => v # source[t]
    /\ source' = [source EXCEPT ![t] = v]
    /\ inbox' = Append(inbox, [topic |-> t, value |-> v])
    /\ UNCHANGED <<threadVars, timerVars, linkVars, topicVars>>

\* main() tells everybody to end.
BroadcastTerminate ==
    /\ pc # "done"
    /\ Len(inbox) - Len(Ticks) < MaxNews
    /\ inbox' = Append(inbox, Terminate)
    /\ UNCHANGED <<source, threadVars, timerVars, linkVars, topicVars>>

\* timerTickServiceMqttLoop fires, on the thread of TimerTick: it looks whether
\* the gate is open ...
CheckGate ==
    /\ ready /\ ~firing
    /\ pc # "done"
    /\ Len(Ticks) < MaxTicks
    /\ firing' = TRUE
    /\ UNCHANGED <<mailVars, threadVars, ready, late, behind, flagVars, linkVars, topicVars>>

\* ... and sends the tick, whatever has become of the gate since.  In between it
\* holds the lock of TimerTick: nothing else fires, and who starts or withdraws
\* a service waits.
SendTick ==
    /\ firing
    /\ firing' = FALSE
    /\ inbox' = Append(inbox, Tick)
    /\ behind' = IF pc = "decide" THEN behind + 1 ELSE behind
    /\ UNCHANGED <<source, threadVars, ready, late, flagVars, linkVars, topicVars>>

ReportExpires ==
    /\ pc # "done" /\ ~firing
    /\ reportExpired' = TRUE
    /\ UNCHANGED <<mailVars, threadVars, gateVars, reconnectExpired, motionExpired,
                   motionRunning, linkVars, topicVars>>

ReconnectExpires ==
    /\ pc # "done" /\ ~firing
    /\ reconnectExpired' = TRUE
    /\ UNCHANGED <<mailVars, threadVars, gateVars, reportExpired, motionExpired,
                   motionRunning, linkVars, topicVars>>

\* The damper of motion is not periodic: it stops when it has fired.
MotionExpires ==
    /\ pc # "done" /\ ~firing
    /\ motionRunning
    /\ motionRunning' = FALSE
    /\ motionExpired' = TRUE
    /\ UNCHANGED <<mailVars, threadVars, gateVars, reportExpired, reconnectExpired,
                   linkVars, topicVars>>

-----------------------------------------------------------------------------
(* Network and broker.  A connection is "sent" once it is established and  *)
(* has no answer yet; a broken one is found out (reset) later, if only by  *)
(* the keep-alive of the library.                                          *)

NetChanges(n) ==
    /\ n # net
    /\ net' = n
    /\ conn' = IF n # "down" \/ conn \in {"none", "reset"} THEN conn ELSE "broken"
    /\ UNCHANGED <<mailVars, threadVars, timerVars, connected, topicVars>>

BrokerAnswers ==
    /\ conn = "sent"
    /\ net # "down"
    /\ conn' = IF net = "up" THEN "accepted" ELSE "refused"
    /\ UNCHANGED <<mailVars, threadVars, timerVars, connected, net, topicVars>>

KeepAliveExpires ==
    /\ conn = "broken"
    /\ conn' = "reset"
    /\ UNCHANGED <<mailVars, threadVars, timerVars, connected, net, topicVars>>

\* A publication that the library accepts may still not arrive.
Arrives == CASE conn \in {"accepted", "open"} -> {TRUE}
             [] conn = "sent" -> BOOLEAN
             [] OTHER -> {FALSE}

\* doPublish with its default to retain.  It ignores that it failed, but for
\* a counter, and so does its caller.
DoPublish(t, v) ==
    \E arrives \in Arrives : retained' = [retained EXCEPT ![t] = IF arrives THEN v ELSE "old"]
-----------------------------------------------------------------------------
(* runThreadLoop                                                           *)

\* The message at hand is done with, and so is what mosquitto_loop returned.
NextRound == pc' = "top" /\ msg' = Tick /\ rc' = "SUCCESS"

\* Fault: the gate is not opened.
OpenGate_closed ==
    /\ pc = "top"
    /\ pc' = "wait"
    /\ UNCHANGED <<mailVars, msg, rc, timerVars, linkVars, topicVars>>

OpenGate ==
    /\ pc = "top"
    /\ pc' = "wait"
    /\ ready' = TRUE
    /\ UNCHANGED <<mailVars, msg, rc, firing, late, behind, flagVars, linkVars, topicVars>>

\* waitForMessage returns.
Receive ==
    /\ pc = "wait"
    /\ inbox # <<>>
    /\ msg' = Head(inbox)
    /\ inbox' = Tail(inbox)
    /\ pc' = "handle"
    /\ UNCHANGED <<source, rc, timerVars, linkVars, topicVars>>

\* What mosquitto_loop returns, and the callbacks it makes on this thread:
\* mqtt_on_connect with the broker's answer, mqtt_on_disconnect when the
\* connection is gone.
MosquittoLoop ==
    /\ rc' = CASE conn = "none" -> "NO_CONN"
               [] conn = "refused" -> "CONN_REFUSED"
               [] conn = "reset" -> "CONN_LOST"
               [] OTHER -> "SUCCESS"
    /\ connected' = CASE conn = "accepted" -> TRUE
                      [] conn \in {"refused", "reset"} -> FALSE
                      [] OTHER -> connected
    /\ conn' = CASE conn = "accepted" -> "open"
                 [] conn \in {"refused", "reset"} -> "none"
                 [] OTHER -> conn

\* Fault: the gate stays open while the library works.
HandleTick_gateOpen ==
    /\ pc = "handle" /\ msg = Tick
    /\ late' = Count(firing)
    /\ MosquittoLoop
    /\ pc' = "decide"
    /\ UNCHANGED <<mailVars, msg, ready, firing, behind, flagVars, net, topicVars>>

HandleTick ==
    /\ pc = "handle" /\ msg = Tick
    /\ ready' = FALSE
    /\ late' = Count(firing)
    /\ MosquittoLoop
    /\ pc' = "decide"
    /\ UNCHANGED <<mailVars, msg, firing, behind, flagVars, net, topicVars>>

\* After the loop: report, or reconnect, or nothing.  A damper is reset only
\* if what stands before it holds.  doPeriodicReport publishes nothing that
\* is retained.
Report == rc = "SUCCESS" /\ reportExpired
WantsConnection == rc = "NO_CONN" \/ ~connected

Decide ==
    /\ pc = "decide"
    /\ NextRound
    /\ \/ /\ Report
          /\ reportExpired' = FALSE
          /\ UNCHANGED <<reconnectExpired, conn>>
       \/ /\ ~Report /\ WantsConnection /\ reconnectExpired
          /\ reconnectExpired' = FALSE
          /\ conn' = IF net = "down" THEN "none" ELSE "sent"
          /\ UNCHANGED reportExpired
       \/ /\ ~Report /\ ~(WantsConnection /\ reconnectExpired)
          /\ UNCHANGED <<reportExpired, reconnectExpired, conn>>
    /\ late' = 0 /\ behind' = 0
    /\ UNCHANGED <<mailVars, ready, firing, motionExpired, motionRunning,
                   connected, net, topicVars>>

\* Fault: `off' waits for the damper as well.
HandleMotionOff_damped ==
    /\ pc = "handle" /\ msg.topic = "motion" /\ msg.value = "off"
    /\ NextRound
    /\ IF publishedMotionOn /\ motionExpired
       THEN /\ DoPublish("motion", "off")
            /\ publishedMotionOn' = FALSE
       ELSE UNCHANGED topicVars
    /\ UNCHANGED <<mailVars, timerVars, linkVars>>

HandleMotionOff ==
    /\ pc = "handle" /\ msg.topic = "motion" /\ msg.value = "off"
    /\ NextRound
    /\ IF publishedMotionOn
       THEN /\ DoPublish("motion", "off")
            /\ publishedMotionOn' = FALSE
       ELSE UNCHANGED topicVars
    /\ UNCHANGED <<mailVars, timerVars, linkVars>>

\* Fault: the damper is reset and not started again.
HandleMotionOn_notRestarted ==
    /\ pc = "handle" /\ msg.topic = "motion" /\ msg.value = "on"
    /\ NextRound
    /\ IF motionExpired
       THEN /\ ~firing
            /\ motionExpired' = FALSE
            /\ DoPublish("motion", "on")
            /\ publishedMotionOn' = TRUE
       ELSE UNCHANGED <<motionExpired, topicVars>>
    /\ UNCHANGED <<mailVars, gateVars, reportExpired, reconnectExpired,
                   motionRunning, linkVars>>

\* The time of last_motion is published along; it is not modelled.
HandleMotionOn ==
    /\ pc = "handle" /\ msg.topic = "motion" /\ msg.value = "on"
    /\ NextRound
    /\ IF motionExpired
       THEN /\ ~firing
            /\ motionExpired' = FALSE /\ motionRunning' = TRUE
            /\ DoPublish("motion", "on")
            /\ publishedMotionOn' = TRUE
       ELSE UNCHANGED <<motionExpired, motionRunning, topicVars>>
    /\ UNCHANGED <<mailVars, gateVars, reportExpired, reconnectExpired, linkVars>>

HandleDisplay ==
    /\ pc = "handle" /\ msg.topic \in DisplayTopic
    /\ NextRound
    /\ DoPublish(msg.topic, msg.value)
    /\ UNCHANGED <<mailVars, timerVars, linkVars, publishedMotionOn>>

\* Disconnect, withdraw the services, empty the inbox.
HandleTerminate ==
    /\ pc = "handle" /\ msg = Terminate
    /\ ~firing
    /\ pc' = "done"
    /\ conn' = "none"
    /\ connected' = FALSE
    /\ inbox' = <<>>
    /\ motionRunning' = FALSE
    /\ UNCHANGED <<source, msg, rc, gateVars, reportExpired, reconnectExpired,
                   motionExpired, net, topicVars>>

Stopped == pc = "done" /\ UNCHANGED vars

Thread == OpenGate \/ Receive \/ HandleTick \/ Decide \/ HandleMotionOff
            \/ HandleMotionOn \/ HandleDisplay \/ HandleTerminate

Next ==
    \/ Thread
    \/ \E t \in Topic : \E v \in ValuesOf(t) : Broadcast(t, v)
    \/ BroadcastTerminate
    \/ CheckGate \/ SendTick \/ ReportExpires \/ ReconnectExpires \/ MotionExpires
    \/ \E n \in {"down", "refusing", "up"} : NetChanges(n)
    \/ BrokerAnswers \/ KeepAliveExpires
    \/ Stopped

\* The tick thread runs and comes round to every service, also to those it cannot
\* fire while it sends a tick; the thread gets its turn, and the keep-alive finds
\* a broken connection out.  A broker in reach answers, and its answers do not
\* always come in the instant between mosquitto_loop and a reconnect, which
\* would drop the new connection every time.
Fairness ==
    /\ WF_vars(Thread)
    /\ WF_vars(CheckGate) /\ WF_vars(SendTick)
    /\ SF_vars(ReconnectExpires) /\ SF_vars(MotionExpires)
    /\ SF_vars(BrokerAnswers /\ pc # "decide") /\ WF_vars(KeepAliveExpires)

Spec == Init /\ [][Next]_vars /\ Fairness
-----------------------------------------------------------------------------
\* The types of the state: each topic holds one of its own values.
TypeOK ==
    /\ source \in [Topic -> UNION {ValuesOf(t) : t \in Topic}]
    /\ \A t \in Topic : source[t] \in ValuesOf(t)
    /\ inbox \in Seq(Message)
    /\ pc \in {"top", "wait", "handle", "decide", "done"}
    /\ msg \in Message
    /\ rc \in {"SUCCESS", "NO_CONN", "CONN_REFUSED", "CONN_LOST"}
    /\ late \in {0, 1} /\ behind \in Nat
    /\ \A b \in {ready, firing, reportExpired, reconnectExpired, motionExpired,
                 motionRunning, publishedMotionOn, connected} : b \in BOOLEAN
    /\ conn \in {"none", "sent", "accepted", "refused", "open", "broken", "reset"}
    /\ net \in {"down", "refusing", "up"}
    /\ retained \in [Topic -> {"old"} \cup UNION {ValuesOf(t) : t \in Topic}]
    /\ \A t \in Topic : retained[t] \in ValuesOf(t) \cup {"old"}

\* Nothing about t is on its way to the broker.
CaughtUp(t) ==
    /\ pc # "done"
    /\ pc = "handle" => msg.topic # t
    /\ \A i \in DOMAIN inbox : inbox[i].topic # t /\ inbox[i] # Terminate

\* In an empty room the last thing the thread published, or tried to, is not
\* `on': neither the damper nor a burst of changes can leave it behind.
EmptyRoomIsReported ==
    CaughtUp("motion") /\ source["motion"] = "off" => ~publishedMotionOn

\* Who subscribes now is told the truth, unless the last publication was
\* lost: about the display its present state, about motion no `on' in an
\* empty room.  (An `off' may be old, that is what the damper is for.)
SubscribersAreToldTheTruth ==
    \A t \in Topic : CaughtUp(t) /\ retained[t] # "old" =>
        IF t = "motion" THEN retained[t] = "on" => source[t] = "on"
                        ELSE retained[t] = source[t]

\* However slow the library is, ticks do not pile up behind it: one that was past
\* the gate when the thread closed it still comes in, and no other.
TicksDoNotPileUp == pc = "decide" => behind + Count(firing) <= late

\* A broker that stays up is connected to in the end, for good.
ClientReconnects == <>[](net = "up") => <>[](connected \/ pc = "done")

\* Where motion comes and goes, `on' is published again and again.
MotionIsReportedAgain ==
    []<>(source["motion"] = "on") /\ []<>(source["motion"] = "off")
        => []<>(publishedMotionOn \/ pc = "done")

\* Neither dampers and bursts of changes nor a network that comes and goes leave a
\* topic behind what is known, unless its last publication was lost.
NoTopicIsStale == EmptyRoomIsReported /\ SubscribersAreToldTheTruth
=============================================================================
