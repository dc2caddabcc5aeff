---------------------------- MODULE MqttProofs ------------------------------
(***************************************************************************)
(* Safety of the MQTT client for any set of topics of the display, any     *)
(* values of them and any length of the inbox, whatever the network, the   *)
(* broker and the library do.  Reconnecting, and that motion is reported   *)
(* again, are liveness and are left to TLC.                                *)
(***************************************************************************)
EXTENDS Mqtt, SequenceTheorems, TLAPS

NoNews(t) == \A i \in DOMAIN inbox : inbox[i].topic # t

\* The last news of a topic in the inbox is what its source told last.
LastNewsIsCurrent ==
    \A t \in Topic : \A i \in DOMAIN inbox :
        /\ inbox[i].topic = t
        /\ \A j \in DOMAIN inbox : j > i => inbox[j].topic # t
        => inbox[i].value = source[t]

\* So is the message at hand, if nothing newer waits.
MsgIsCurrent ==
    \A t \in Topic :
        NoNews(t) /\ pc = "handle" /\ msg.topic = t => msg.value = source[t]

\* With nothing of a topic on its way, what was published last is current.
Handled(t) == NoNews(t) /\ pc # "done" /\ (pc = "handle" => msg.topic # t)
MotionIsCurrent == Handled("motion") /\ source["motion"] = "off" => publishedMotionOn = FALSE
DisplayIsCurrent ==
    \A t \in DisplayTopic : Handled(t) /\ retained[t] # "old" => retained[t] = source[t]

\* The thread knows of an `on' that it left at the broker.
OnIsRemembered ==
    retained["motion"] = "on" => publishedMotionOn = TRUE

\* No tick passes the gate while the library works, and the history is of that
\* time only.
GateIsShut ==
    /\ pc = "decide" => ready = FALSE
    /\ pc # "decide" => behind = 0
    /\ TicksDoNotPileUp

IInv ==
    /\ TypeOK
    /\ LastNewsIsCurrent /\ MsgIsCurrent
    /\ MotionIsCurrent /\ DisplayIsCurrent /\ OnIsRemembered
    /\ GateIsShut

-----------------------------------------------------------------------------
(* Messages.                                                               *)

LEMMA NewsAreMessages ==
    ASSUME NEW t \in Topic, NEW v \in ValuesOf(t)
    PROVE  [topic |-> t, value |-> v] \in Message
BY DEF Message, News

LEMMA MessageShape ==
    ASSUME NEW m \in Message
    PROVE  /\ m.topic \in Topic => m.value \in ValuesOf(m.topic)
           /\ m.topic \in Topic \cup {"tick", "terminate"}
           /\ m.topic = "tick" <=> m = Tick
           /\ m.topic = "terminate" <=> m = Terminate
<1>1. CASE m \in News
  <2>1. PICK t \in Topic : m \in [topic : {t}, value : ValuesOf(t)]
    BY <1>1 DEF News
  <2>2. m.topic = t /\ m.value \in ValuesOf(t)
    BY <2>1
  <2>3. t # "tick" /\ t # "terminate"
    BY MqttAssumption
  <2>. QED BY <2>2, <2>3 DEF Tick, Terminate
<1>2. CASE m = Tick
  BY <1>2, MqttAssumption DEF Tick, Terminate
<1>3. CASE m = Terminate
  BY <1>3, MqttAssumption DEF Tick, Terminate
<1>. QED BY <1>1, <1>2, <1>3 DEF Message

LEMMA TopicFacts ==
    /\ "motion" \in Topic /\ "motion" \notin DisplayTopic /\ DisplayTopic \subseteq Topic
    /\ "tick" \notin Topic /\ "terminate" \notin Topic
    /\ \A t \in Topic : t # "motion" => t \in DisplayTopic
BY MqttAssumption DEF Topic

-----------------------------------------------------------------------------
(* What the steps do to the inbox.                                         *)

\* A message behind the others.
LEMMA AppendKeeps ==
    ASSUME TypeOK, NEW m \in Message, inbox' = Append(inbox, m), UNCHANGED <<pc, msg>>
    PROVE  /\ inbox' \in Seq(Message)
           /\ \A t : NoNews(t)' <=> NoNews(t) /\ m.topic # t
           /\ \A i \in DOMAIN inbox' \ DOMAIN inbox : inbox'[i] = m
           /\ \A i \in DOMAIN inbox : i \in DOMAIN inbox' /\ inbox'[i] = inbox[i]
           /\ Len(inbox') = Len(inbox) + 1 /\ inbox'[Len(inbox')] = m
<1>1. inbox \in Seq(Message) /\ Len(inbox) \in Nat /\ DOMAIN inbox = 1 .. Len(inbox)
  BY DEF TypeOK
<1>2. inbox' \in Seq(Message) /\ Len(inbox') = Len(inbox) + 1
  BY <1>1
<1>3. DOMAIN inbox' = 1 .. Len(inbox) + 1
  BY <1>2
<1>4. \A i \in 1 .. Len(inbox) : inbox'[i] = inbox[i]
  BY <1>1
<1>5. inbox'[Len(inbox) + 1] = m
  BY <1>1
<1>6. \A i \in DOMAIN inbox' : i \in DOMAIN inbox \/ i = Len(inbox) + 1
  BY <1>1, <1>3
<1>7. Len(inbox) + 1 \in DOMAIN inbox' /\ DOMAIN inbox \subseteq DOMAIN inbox'
  BY <1>1, <1>3
<1>8. ASSUME NEW t PROVE NoNews(t)' <=> NoNews(t) /\ m.topic # t
  BY <1>1, <1>3, <1>4, <1>5, <1>6, <1>7 DEF NoNews
<1>. QED BY <1>1, <1>2, <1>3, <1>4, <1>5, <1>6, <1>7, <1>8

LEMMA AppendIsLast ==
    ASSUME TypeOK, LastNewsIsCurrent, NEW m \in Message, inbox' = Append(inbox, m),
           UNCHANGED <<pc, msg>>,
           \A t \in Topic : IF m.topic = t THEN source'[t] = m.value ELSE source'[t] = source[t]
    PROVE  LastNewsIsCurrent'
<1>1. SUFFICES ASSUME NEW t \in Topic, NEW i \in DOMAIN inbox', inbox'[i].topic = t,
                      \A j \in DOMAIN inbox' : j > i => inbox'[j].topic # t
               PROVE  inbox'[i].value = source'[t]
  BY DEF LastNewsIsCurrent
<1>2. /\ inbox \in Seq(Message) /\ Len(inbox) \in Nat /\ DOMAIN inbox = 1 .. Len(inbox)
      /\ DOMAIN inbox' = 1 .. Len(inbox) + 1
      /\ \A k \in DOMAIN inbox : inbox'[k] = inbox[k]
      /\ inbox'[Len(inbox) + 1] = m
  BY AppendKeeps DEF TypeOK
<1>3. CASE i = Len(inbox) + 1
  BY <1>1, <1>2, <1>3
<1>4. CASE i \in DOMAIN inbox
  <2>1. m.topic # t
    BY <1>1, <1>2, <1>4
  <2>2. \A j \in DOMAIN inbox : j > i => inbox[j].topic # t
    BY <1>1, <1>2
  <2>3. inbox[i].value = source[t]
    BY <1>1, <1>2, <1>4, <2>2 DEF LastNewsIsCurrent
  <2>. QED BY <1>2, <1>4, <2>1, <2>3
<1>. QED BY <1>1, <1>2, <1>3, <1>4

\* A step that leaves mail and publications alone, and takes up no message.
LEMMA QuietSteps ==
    ASSUME IInv, UNCHANGED <<source, inbox, publishedMotionOn, retained>>,
           pc' = "handle" => pc = "handle" /\ msg' = msg,
           \A t \in Topic : Handled(t)' => Handled(t)
    PROVE  LastNewsIsCurrent' /\ MsgIsCurrent' /\ MotionIsCurrent' /\ DisplayIsCurrent'
             /\ OnIsRemembered'
<1>1. \A t : NoNews(t)' <=> NoNews(t)
  BY DEF NoNews
<1>2. LastNewsIsCurrent'
  BY DEF IInv, LastNewsIsCurrent
<1>3. MsgIsCurrent'
  BY <1>1 DEF IInv, MsgIsCurrent
<1>4. MotionIsCurrent' /\ OnIsRemembered'
  BY TopicFacts DEF IInv, MotionIsCurrent, OnIsRemembered
<1>5. DisplayIsCurrent'
  BY TopicFacts DEF IInv, DisplayIsCurrent
<1>. QED BY <1>2, <1>3, <1>4, <1>5

\* Mail arrives; who sent news has changed its mind accordingly.
LEMMA MailArrives ==
    ASSUME IInv, NEW m \in Message, inbox' = Append(inbox, m),
           UNCHANGED <<pc, msg, publishedMotionOn, retained>>,
           \A t \in Topic : IF m.topic = t THEN source'[t] = m.value ELSE source'[t] = source[t]
    PROVE  LastNewsIsCurrent' /\ MsgIsCurrent' /\ MotionIsCurrent' /\ DisplayIsCurrent'
             /\ OnIsRemembered'
<1>1. \A t : NoNews(t)' <=> NoNews(t) /\ m.topic # t
  BY AppendKeeps DEF IInv
<1>2. LastNewsIsCurrent'
  BY AppendIsLast DEF IInv
<1>3. MsgIsCurrent'
  BY <1>1 DEF IInv, MsgIsCurrent
<1>4. \A t : Handled(t)' => Handled(t) /\ m.topic # t
  BY <1>1 DEF Handled
<1>5. MotionIsCurrent' /\ OnIsRemembered'
  BY <1>4, TopicFacts DEF IInv, MotionIsCurrent, OnIsRemembered
<1>6. DisplayIsCurrent'
  BY <1>4, TopicFacts DEF IInv, DisplayIsCurrent
<1>. QED BY <1>2, <1>3, <1>5, <1>6

\* The message at hand is taken from the inbox.
LEMMA MailIsTaken ==
    ASSUME IInv, Receive
    PROVE  /\ inbox' \in Seq(Message) /\ msg' \in Message
           /\ LastNewsIsCurrent' /\ MsgIsCurrent' /\ MotionIsCurrent' /\ DisplayIsCurrent'
           /\ OnIsRemembered'
<1> USE DEF Receive
<1>1. /\ inbox \in Seq(Message) /\ Len(inbox) \in Nat /\ Len(inbox) # 0
      /\ DOMAIN inbox = 1 .. Len(inbox) /\ inbox # <<>>
  <2>1. inbox \in Seq(Message) /\ inbox # <<>>
    BY DEF IInv, TypeOK
  <2>2. Len(inbox) \in Nat \ {0}
    BY <2>1, EmptySeq, Zenon
  <2>3. DOMAIN inbox = 1 .. Len(inbox)
    BY <2>1
  <2>. QED BY <2>1, <2>2, <2>3
<1>2. inbox' \in Seq(Message) /\ msg' \in Message /\ msg' = inbox[1] /\ Len(inbox') = Len(inbox) - 1
  BY <1>1
<1>3. DOMAIN inbox' = 1 .. Len(inbox) - 1 /\ \A i \in 1 .. Len(inbox) - 1 : inbox'[i] = inbox[i + 1]
  BY <1>1, <1>2
<1>4. \A i \in DOMAIN inbox : i = 1 \/ (i - 1 \in DOMAIN inbox' /\ inbox[i] = inbox'[i - 1])
  BY <1>1, <1>3
<1>5. ASSUME NEW t PROVE NoNews(t) <=> NoNews(t)' /\ msg'.topic # t
  <2>1. 1 \in DOMAIN inbox
    BY <1>1
  <2>2. NoNews(t) => NoNews(t)' /\ msg'.topic # t
    BY <1>1, <1>2, <1>3, <2>1 DEF NoNews
  <2>3. NoNews(t)' /\ msg'.topic # t => NoNews(t)
    BY <1>2, <1>4 DEF NoNews
  <2>. QED BY <2>2, <2>3
<1>6. LastNewsIsCurrent'
  <2>1. SUFFICES ASSUME NEW t \in Topic, NEW i \in DOMAIN inbox', inbox'[i].topic = t,
                        \A j \in DOMAIN inbox' : j > i => inbox'[j].topic # t
                 PROVE  inbox'[i].value = source'[t]
    BY DEF LastNewsIsCurrent
  <2>2. i \in Int /\ i >= 1 /\ i + 1 \in DOMAIN inbox /\ inbox[i + 1] = inbox'[i]
    BY <1>1, <1>3
  <2>3. ASSUME NEW j \in DOMAIN inbox, j > i + 1 PROVE inbox[j].topic # t
    <3>1. j - 1 \in DOMAIN inbox' /\ inbox[j] = inbox'[j - 1] /\ j - 1 > i
      BY <1>1, <1>4, <2>2, <2>3
    <3>. QED BY <2>1, <3>1
  <2>4. inbox[i + 1].value = source[t]
    BY <2>1, <2>2, <2>3 DEF IInv, LastNewsIsCurrent
  <2>. QED BY <2>2, <2>4
<1>7. MsgIsCurrent'
  <2>1. SUFFICES ASSUME NEW t \in Topic, NoNews(t)', msg'.topic = t
                 PROVE  msg'.value = source[t]
    BY DEF MsgIsCurrent
  <2>2. ASSUME NEW j \in DOMAIN inbox, j > 1 PROVE inbox[j].topic # t
    <3>1. j - 1 \in DOMAIN inbox' /\ inbox[j] = inbox'[j - 1]
      BY <1>1, <1>4, <2>2
    <3>. QED BY <2>1, <3>1 DEF NoNews
  <2>. QED BY <1>1, <1>2, <2>1, <2>2 DEF IInv, LastNewsIsCurrent
<1>8. \A t : Handled(t)' => Handled(t)
  BY <1>5 DEF Handled
<1>9. MotionIsCurrent' /\ OnIsRemembered'
  BY <1>8, TopicFacts DEF IInv, MotionIsCurrent, OnIsRemembered, topicVars
<1>10. DisplayIsCurrent'
  BY <1>8, TopicFacts DEF IInv, DisplayIsCurrent, topicVars
<1>. QED BY <1>2, <1>6, <1>7, <1>9, <1>10

\* doPublish changes the topic it is about, and that one truly.
LEMMA PublishIsAboutOne ==
    ASSUME TypeOK, NEW t \in Topic, NEW v \in ValuesOf(t), DoPublish(t, v)
    PROVE  /\ retained' \in [Topic -> {"old"} \cup UNION {ValuesOf(u) : u \in Topic}]
           /\ \A u \in Topic : retained'[u] \in ValuesOf(u) \cup {"old"}
           /\ retained'[t] \in {v, "old"}
           /\ \A u \in Topic \ {t} : retained'[u] = retained[u]
<1>1. PICK new \in {v, "old"} : retained' = [retained EXCEPT ![t] = new]
  BY DEF DoPublish
<1>. QED BY <1>1 DEF TypeOK

-----------------------------------------------------------------------------
(* The steps.                                                              *)

\* TypeOK, with its flags one by one.
Flags ==
    /\ ready \in BOOLEAN /\ firing \in BOOLEAN
    /\ reportExpired \in BOOLEAN /\ reconnectExpired \in BOOLEAN
    /\ motionExpired \in BOOLEAN /\ motionRunning \in BOOLEAN
    /\ publishedMotionOn \in BOOLEAN /\ connected \in BOOLEAN

LEMMA FlagsTyped == TypeOK => Flags
BY DEF TypeOK, Flags

LEMMA InitIsGood == Init => IInv
<1>1. Init => TypeOK
  <2>1. SUFFICES ASSUME Init PROVE TypeOK
    OBVIOUS
  <2>2. inbox \in Seq(Message) /\ msg \in Message
    BY <2>1 DEF Init, Message
  <2>3. /\ source \in [Topic -> UNION {ValuesOf(t) : t \in Topic}]
        /\ \A t \in Topic : source[t] \in ValuesOf(t)
    BY <2>1 DEF Init
  <2>4. /\ retained \in [Topic -> {"old"} \cup UNION {ValuesOf(t) : t \in Topic}]
        /\ \A t \in Topic : retained[t] \in ValuesOf(t) \cup {"old"}
    BY <2>1 DEF Init
  <2>5. \A b \in {ready, firing, reportExpired, reconnectExpired, motionExpired,
                 motionRunning, publishedMotionOn, connected} : b \in BOOLEAN
    BY <2>1 DEF Init
  <2>6. /\ pc = "top" /\ rc = "SUCCESS" /\ conn = "none" /\ net = "up" /\ late = 0 /\ behind = 0
    BY <2>1 DEF Init
  <2>. QED BY <2>2, <2>3, <2>4, <2>5, <2>6 DEF TypeOK
<1>2. Init => LastNewsIsCurrent /\ MsgIsCurrent
  BY DEF Init, LastNewsIsCurrent, MsgIsCurrent
<1>3. Init => MotionIsCurrent /\ DisplayIsCurrent /\ OnIsRemembered
  BY TopicFacts DEF Init, MotionIsCurrent, DisplayIsCurrent, OnIsRemembered
<1>4. Init => GateIsShut
  BY DEF Init, GateIsShut, TicksDoNotPileUp
<1>. QED BY <1>1, <1>2, <1>3, <1>4 DEF IInv

\* Steps outside a call of the library, and those that leave thread and gate alone.
LEMMA GateStands ==
    ASSUME GateIsShut, UNCHANGED <<ready, firing, late, behind>>,
           pc' = pc \/ (pc # "decide" /\ pc' # "decide")
    PROVE  GateIsShut'
BY DEF GateIsShut, TicksDoNotPileUp, Count

\* The other threads.
LEMMA MailSteps ==
    ASSUME IInv,
           \/ \E t \in Topic : \E v \in ValuesOf(t) : Broadcast(t, v)
           \/ BroadcastTerminate \/ SendTick
    PROVE  IInv'
<1>1. ASSUME NEW t \in Topic, NEW v \in ValuesOf(t), Broadcast(t, v) PROVE IInv'
  <2> DEFINE m == [topic |-> t, value |-> v]
  <2>1. m \in Message /\ m.topic = t /\ m.value = v
    BY NewsAreMessages
  <2>2. /\ inbox' = Append(inbox, m)
        /\ source' = [source EXCEPT ![t] = v]
        /\ UNCHANGED <<pc, msg, rc, timerVars, linkVars, publishedMotionOn, retained>>
    BY <1>1 DEF Broadcast, threadVars, topicVars
  <2>3. /\ source' \in [Topic -> UNION {ValuesOf(u) : u \in Topic}]
        /\ \A u \in Topic : source'[u] \in ValuesOf(u)
        /\ \A u \in Topic : IF u = t THEN source'[u] = v ELSE source'[u] = source[u]
    BY <2>2 DEF IInv, TypeOK
  <2>4. inbox' \in Seq(Message)
    BY <2>1, <2>2 DEF IInv, TypeOK
  <2>5. TypeOK'
    BY <2>2, <2>3, <2>4 DEF IInv, TypeOK, timerVars, gateVars, flagVars, linkVars
  <2>6. \A u \in Topic : IF m.topic = u THEN source'[u] = m.value ELSE source'[u] = source[u]
    BY <2>1, <2>3
  <2> HIDE DEF m
  <2>7. LastNewsIsCurrent' /\ MsgIsCurrent' /\ MotionIsCurrent' /\ DisplayIsCurrent'
          /\ OnIsRemembered'
    BY <2>1, <2>2, <2>6, MailArrives
  <2>8. GateIsShut'
    BY <2>2, GateStands DEF IInv, timerVars, gateVars
  <2>. QED BY <2>5, <2>7, <2>8 DEF IInv
<1>2. ASSUME NEW m \in {Tick, Terminate}, inbox' = Append(inbox, m),
             UNCHANGED <<source, threadVars, ready, late, flagVars, linkVars, topicVars>>,
             firing' \in BOOLEAN, behind' \in Nat, GateIsShut'
      PROVE  IInv'
  <2>1. m \in Message /\ m.topic \notin Topic
    BY TopicFacts DEF Message, Tick, Terminate
  <2>2. inbox' \in Seq(Message)
    BY <1>2, <2>1 DEF IInv, TypeOK
  <2>3. TypeOK'
    <3>1. Flags'
      BY <1>2, FlagsTyped DEF IInv, Flags, flagVars, linkVars, topicVars
    <3>2. \A b \in {ready, firing, reportExpired, reconnectExpired, motionExpired,
                   motionRunning, publishedMotionOn, connected}' : b \in BOOLEAN
      BY <3>1 DEF Flags
    <3>. QED BY <1>2, <2>2, <3>2 DEF IInv, TypeOK, threadVars, linkVars, topicVars
  <2>4. UNCHANGED <<source, pc, msg, publishedMotionOn, retained>>
    BY <1>2 DEF threadVars, topicVars
  <2>5. \A u \in Topic : IF m.topic = u THEN source'[u] = m.value ELSE source'[u] = source[u]
    BY <2>1, <2>4
  <2>6. LastNewsIsCurrent' /\ MsgIsCurrent' /\ MotionIsCurrent' /\ DisplayIsCurrent'
          /\ OnIsRemembered'
    BY <1>2, <2>1, <2>4, <2>5, MailArrives
  <2>. QED BY <1>2, <2>3, <2>6 DEF IInv
<1>3. ASSUME BroadcastTerminate PROVE IInv'
  <2>1. /\ inbox' = Append(inbox, Terminate)
        /\ UNCHANGED <<source, threadVars, timerVars, linkVars, topicVars>>
    BY <1>3 DEF BroadcastTerminate
  <2>2. GateIsShut'
    BY <2>1, GateStands DEF IInv, threadVars, timerVars, gateVars
  <2>3. firing' \in BOOLEAN /\ behind' \in Nat
    BY <2>1, FlagsTyped DEF IInv, TypeOK, Flags, timerVars, gateVars
  <2>. QED BY <1>2, <2>1, <2>2, <2>3 DEF timerVars, gateVars
<1>4. ASSUME SendTick PROVE IInv'
  <2>1. /\ firing = TRUE /\ firing' = FALSE /\ inbox' = Append(inbox, Tick)
        /\ behind' = (IF pc = "decide" THEN behind + 1 ELSE behind)
        /\ UNCHANGED <<source, threadVars, ready, late, flagVars, linkVars, topicVars>>
    BY <1>4, FlagsTyped DEF SendTick, IInv, Flags
  <2>2. pc' = pc /\ ready' = ready /\ late' = late /\ behind \in Nat /\ behind' \in Nat
    BY <2>1 DEF IInv, TypeOK, threadVars
  <2>3. GateIsShut'
    BY <2>1, <2>2 DEF IInv, GateIsShut, TicksDoNotPileUp, Count
  <2>. QED BY <1>2, <2>1, <2>2, <2>3
<1>. QED BY <1>1, <1>3, <1>4

\* A tick passes the gate, which is open: the library is not at work.
LEMMA CheckStep == ASSUME IInv, CheckGate PROVE IInv'
<1>1. /\ UNCHANGED <<source, inbox, pc, msg, rc, ready, late, behind, flagVars, linkVars,
                     publishedMotionOn, retained>>
      /\ ready = TRUE /\ firing' = TRUE
  BY FlagsTyped DEF CheckGate, IInv, Flags, mailVars, threadVars, topicVars
<1>2. Flags'
  BY <1>1, FlagsTyped DEF IInv, Flags, flagVars, linkVars
<1>3. \A b \in {ready, firing, reportExpired, reconnectExpired, motionExpired,
               motionRunning, publishedMotionOn, connected}' : b \in BOOLEAN
  BY <1>2 DEF Flags
<1>4. TypeOK'
  BY <1>1, <1>3 DEF IInv, TypeOK, linkVars
<1>5. \A t : Handled(t)' <=> Handled(t)
  BY <1>1 DEF Handled, NoNews
<1>6. LastNewsIsCurrent' /\ MsgIsCurrent' /\ MotionIsCurrent' /\ DisplayIsCurrent'
        /\ OnIsRemembered'
  BY <1>1, <1>5, QuietSteps
<1>7. pc # "decide"
  BY <1>1 DEF IInv, GateIsShut
<1>8. GateIsShut'
  BY <1>1, <1>7 DEF IInv, GateIsShut, TicksDoNotPileUp
<1>. QED BY <1>4, <1>6, <1>8 DEF IInv

\* Timers, network and broker.
LEMMA OutsideSteps ==
    ASSUME IInv,
           \/ ReportExpires \/ ReconnectExpires \/ MotionExpires
           \/ \E n \in {"down", "refusing", "up"} : NetChanges(n)
           \/ BrokerAnswers \/ KeepAliveExpires \/ Stopped \/ UNCHANGED vars
    PROVE  IInv'
<1>1. /\ UNCHANGED <<source, inbox, pc, msg, rc, ready, firing, late, behind, connected>>
      /\ UNCHANGED <<publishedMotionOn, retained>>
  BY DEF ReportExpires, ReconnectExpires, MotionExpires, NetChanges, BrokerAnswers, KeepAliveExpires,
         Stopped, vars, mailVars, threadVars, timerVars, gateVars, linkVars, topicVars
<1>2. /\ reportExpired' \in BOOLEAN /\ reconnectExpired' \in BOOLEAN
      /\ motionExpired' \in BOOLEAN /\ motionRunning' \in BOOLEAN
  BY FlagsTyped
     DEF IInv, Flags, ReportExpires, ReconnectExpires, MotionExpires, NetChanges, BrokerAnswers,
         KeepAliveExpires, Stopped, vars, timerVars, flagVars
<1>3. /\ conn' \in {"none", "sent", "accepted", "refused", "open", "broken", "reset"}
      /\ net' \in {"down", "refusing", "up"}
  BY DEF IInv, TypeOK, ReportExpires, ReconnectExpires, MotionExpires, NetChanges,
         BrokerAnswers, KeepAliveExpires, Stopped, vars, linkVars
<1>4. TypeOK'
  BY <1>1, <1>2, <1>3 DEF IInv, TypeOK
<1>5. \A t : Handled(t)' <=> Handled(t)
  BY <1>1 DEF Handled, NoNews
<1>6. LastNewsIsCurrent' /\ MsgIsCurrent' /\ MotionIsCurrent' /\ DisplayIsCurrent'
        /\ OnIsRemembered'
  BY <1>1, <1>5, QuietSteps
<1>7. GateIsShut'
  BY <1>1, GateStands DEF IInv
<1>. QED BY <1>4, <1>6, <1>7 DEF IInv

\* The steps of the thread between two messages.
LEMMA RoundSteps ==
    ASSUME IInv, OpenGate \/ HandleTick \/ Decide
    PROVE  IInv'
<1>1. /\ UNCHANGED <<source, inbox, net, motionExpired, motionRunning, firing>>
      /\ UNCHANGED <<publishedMotionOn, retained>>
  BY DEF OpenGate, HandleTick, Decide, mailVars, flagVars, linkVars, topicVars
<1>2. /\ pc' \in {"top", "wait", "decide"} /\ msg' \in Message
      /\ rc' \in {"SUCCESS", "NO_CONN", "CONN_REFUSED", "CONN_LOST"}
  BY DEF IInv, TypeOK, OpenGate, HandleTick, MosquittoLoop, Decide, NextRound, Message
<1>3. /\ ready' \in BOOLEAN /\ connected' \in BOOLEAN
      /\ reportExpired' \in BOOLEAN /\ reconnectExpired' \in BOOLEAN
  BY FlagsTyped DEF IInv, Flags, OpenGate, HandleTick, MosquittoLoop, Decide, flagVars, linkVars
<1>a. late' \in {0, 1} /\ behind' \in Nat /\ firing' \in BOOLEAN
  <2>1. late \in {0, 1} /\ behind \in Nat /\ firing' \in BOOLEAN /\ Count(firing) \in {0, 1}
    BY <1>1, FlagsTyped DEF IInv, TypeOK, Flags, Count
  <2>. QED BY <2>1 DEF OpenGate, HandleTick, Decide
<1>4. conn' \in {"none", "sent", "accepted", "refused", "open", "broken", "reset"}
  BY DEF IInv, TypeOK, OpenGate, HandleTick, MosquittoLoop, Decide, linkVars
<1>5. TypeOK'
  BY <1>1, <1>2, <1>3, <1>4, <1>a DEF IInv, TypeOK
<1>6. pc # "done" /\ (pc = "handle" => msg.topic = "tick")
  BY DEF OpenGate, HandleTick, Decide, Tick
<1>7. \A t \in Topic : Handled(t)' => Handled(t)
  BY <1>1, <1>6, TopicFacts DEF Handled, NoNews
<1>8. LastNewsIsCurrent' /\ MsgIsCurrent' /\ MotionIsCurrent' /\ DisplayIsCurrent'
        /\ OnIsRemembered'
  BY <1>1, <1>2, <1>7, QuietSteps
<1>9. GateIsShut'
  <2>1. CASE OpenGate
    BY <2>1 DEF IInv, GateIsShut, TicksDoNotPileUp, OpenGate
  <2>2. CASE HandleTick
    <3>1. pc' = "decide" /\ ready' = FALSE /\ late' = Count(firing) /\ behind' = 0 /\ firing' = firing
      BY <2>2 DEF IInv, GateIsShut, HandleTick
    <3>. QED BY <3>1 DEF GateIsShut, TicksDoNotPileUp, Count
  <2>3. CASE Decide
    BY <2>3 DEF GateIsShut, TicksDoNotPileUp, Decide, NextRound
  <2>. QED BY <2>1, <2>2, <2>3
<1>. QED BY <1>5, <1>8, <1>9 DEF IInv

LEMMA ReceiveStep == ASSUME IInv, Receive PROVE IInv'
<1>1. TypeOK'
  BY MailIsTaken DEF IInv, TypeOK, Receive, timerVars, gateVars, flagVars, linkVars, topicVars
<1>2. GateIsShut'
  BY GateStands DEF IInv, Receive, timerVars, gateVars
<1>. QED BY <1>1, <1>2, MailIsTaken DEF IInv

LEMMA TerminateStep == ASSUME IInv, HandleTerminate PROVE IInv'
<1>1. TypeOK'
  <2>1. inbox' \in Seq(Message)
    BY DEF HandleTerminate
  <2>2. Flags'
    BY FlagsTyped DEF IInv, Flags, HandleTerminate, gateVars, topicVars
  <2>3. \A b \in {ready, firing, reportExpired, reconnectExpired, motionExpired,
                 motionRunning, publishedMotionOn, connected}' : b \in BOOLEAN
    BY <2>2 DEF Flags
  <2>. QED BY <2>1, <2>3 DEF IInv, TypeOK, HandleTerminate, gateVars, topicVars
<1>2. LastNewsIsCurrent' /\ MsgIsCurrent'
  BY DEF HandleTerminate, LastNewsIsCurrent, MsgIsCurrent
<1>a. GateIsShut'
  BY GateStands DEF IInv, HandleTerminate, gateVars
<1>3. MotionIsCurrent' /\ DisplayIsCurrent'
  BY DEF HandleTerminate, MotionIsCurrent, DisplayIsCurrent, Handled
<1>4. OnIsRemembered'
  BY DEF IInv, HandleTerminate, OnIsRemembered, topicVars
<1>. QED BY <1>1, <1>2, <1>3, <1>4, <1>a DEF IInv

\* News is handled: what is not published leaves everything else as it is.
LEMMA NewsStep ==
    ASSUME IInv, NEW t \in Topic, pc = "handle", msg.topic = t, NextRound,
           UNCHANGED <<mailVars, gateVars, reportExpired, reconnectExpired, linkVars>>,
           motionExpired' \in BOOLEAN, motionRunning' \in BOOLEAN,
           publishedMotionOn' \in BOOLEAN,
           DoPublish(t, msg.value) \/ UNCHANGED retained,
           t # "motion" => DoPublish(t, msg.value) /\ UNCHANGED publishedMotionOn,
           t = "motion" /\ source["motion"] = "off" /\ NoNews(t) => publishedMotionOn' = FALSE,
           t = "motion" => OnIsRemembered'
    PROVE  IInv'
<1>1. msg \in Message /\ msg.value \in ValuesOf(t)
  BY MessageShape DEF IInv, TypeOK
<1>2. /\ retained' \in [Topic -> {"old"} \cup UNION {ValuesOf(u) : u \in Topic}]
      /\ \A u \in Topic : retained'[u] \in ValuesOf(u) \cup {"old"}
      /\ \A u \in Topic \ {t} : retained'[u] = retained[u]
  <2>1. CASE DoPublish(t, msg.value)
    BY <1>1, <2>1, PublishIsAboutOne DEF IInv
  <2>2. CASE UNCHANGED retained
    BY <2>2 DEF IInv, TypeOK
  <2>. QED BY <2>1, <2>2
<1>3. t # "motion" /\ retained'[t] # "old" => retained'[t] = msg.value
  BY <1>1, PublishIsAboutOne DEF IInv
<1>4. pc' = "top" /\ msg' = Tick /\ rc' = "SUCCESS" /\ UNCHANGED <<source, inbox>>
  BY DEF NextRound, mailVars
<1>5. \A u : NoNews(u)' <=> NoNews(u)
  BY <1>4 DEF NoNews
<1>6. \A u : Handled(u)' => NoNews(u)
  BY <1>5 DEF Handled
<1>7. \A u \in Topic \ {t} : Handled(u)' => Handled(u)
  BY <1>6 DEF Handled
<1>8. TypeOK'
  <2>1. Flags'
    BY FlagsTyped DEF IInv, Flags, gateVars, linkVars
  <2>2. \A b \in {ready, firing, reportExpired, reconnectExpired, motionExpired,
                 motionRunning, publishedMotionOn, connected}' : b \in BOOLEAN
    BY <2>1 DEF Flags
  <2>3. msg' \in Message
    BY <1>4 DEF Message
  <2>. QED BY <1>2, <1>4, <2>2, <2>3 DEF IInv, TypeOK, gateVars, linkVars
<1>9. LastNewsIsCurrent' /\ MsgIsCurrent'
  BY <1>4 DEF IInv, LastNewsIsCurrent, MsgIsCurrent
<1>a. GateIsShut'
  BY <1>4, GateStands DEF IInv, gateVars
<1>10. MotionIsCurrent' /\ OnIsRemembered'
  <2>1. CASE t = "motion"
    BY <1>4, <1>6, <2>1 DEF MotionIsCurrent
  <2>2. CASE t # "motion"
    BY <1>2, <1>4, <1>7, <2>2, TopicFacts DEF IInv, MotionIsCurrent, OnIsRemembered
  <2>. QED BY <2>1, <2>2
<1>11. DisplayIsCurrent'
  <2>1. SUFFICES ASSUME NEW u \in DisplayTopic, Handled(u)', retained'[u] # "old"
                 PROVE  retained'[u] = source[u]
    BY <1>4 DEF DisplayIsCurrent
  <2>2. CASE u = t
    <3>1. NoNews(t) /\ t # "motion"
      BY <1>6, <2>1, <2>2, TopicFacts
    <3>2. msg.value = source[t]
      BY <3>1 DEF IInv, MsgIsCurrent
    <3>. QED BY <1>3, <2>1, <2>2, <3>1, <3>2
  <2>3. CASE u # t
    BY <1>2, <1>7, <2>1, <2>3, TopicFacts DEF IInv, DisplayIsCurrent
  <2>. QED BY <2>2, <2>3
<1>. QED BY <1>8, <1>9, <1>10, <1>11, <1>a DEF IInv

LEMMA HandleSteps ==
    ASSUME IInv, HandleMotionOff \/ HandleMotionOn \/ HandleDisplay
    PROVE  IInv'
<1>1. CASE HandleMotionOff
  <2> USE <1>1 DEF HandleMotionOff
  <2>1. /\ pc = "handle" /\ msg.topic = "motion" /\ msg.value = "off" /\ NextRound
        /\ UNCHANGED <<mailVars, timerVars, linkVars>> /\ "motion" \in Topic
    BY TopicFacts
  <2>2. /\ DoPublish("motion", msg.value) \/ UNCHANGED retained
        /\ publishedMotionOn' = FALSE
    BY FlagsTyped DEF IInv, Flags, topicVars
  <2>3. OnIsRemembered'
    <3>1. CASE publishedMotionOn
      <4>1. retained'["motion"] \in {"off", "old"}
        BY <2>1, <3>1, PublishIsAboutOne DEF IInv, ValuesOf
      <4>. QED BY <4>1 DEF OnIsRemembered
    <3>2. CASE ~publishedMotionOn
      BY <3>2 DEF IInv, OnIsRemembered, topicVars
    <3>. QED BY <3>1, <3>2
  <2>4. motionExpired' \in BOOLEAN /\ motionRunning' \in BOOLEAN /\ publishedMotionOn' \in BOOLEAN
    BY <2>1, <2>2, FlagsTyped DEF IInv, Flags, timerVars, flagVars
  <2>5. UNCHANGED <<gateVars, reportExpired, reconnectExpired>>
    BY <2>1 DEF timerVars, flagVars
  <2>. QED BY <2>1, <2>2, <2>3, <2>4, <2>5, NewsStep
<1>2. CASE HandleMotionOn
  <2> USE <1>2 DEF HandleMotionOn
  <2>1. /\ pc = "handle" /\ msg.topic = "motion" /\ msg.value = "on" /\ NextRound
        /\ UNCHANGED <<mailVars, gateVars, reportExpired, reconnectExpired, linkVars>>
        /\ "motion" \in Topic
    BY TopicFacts
  <2>2. DoPublish("motion", msg.value) \/ UNCHANGED retained
    BY DEF topicVars
  <2>3. OnIsRemembered'
    BY DEF IInv, OnIsRemembered, topicVars
  <2>4. motionExpired' \in BOOLEAN /\ motionRunning' \in BOOLEAN /\ publishedMotionOn' \in BOOLEAN
    BY FlagsTyped DEF IInv, Flags, topicVars
  <2>5. NoNews("motion") => source["motion"] = "on"
    BY <2>1 DEF IInv, MsgIsCurrent
  <2>. QED BY <2>1, <2>2, <2>3, <2>4, <2>5, NewsStep
<1>3. CASE HandleDisplay
  <2>1. /\ pc = "handle" /\ msg.topic \in DisplayTopic /\ NextRound
        /\ UNCHANGED <<mailVars, timerVars, linkVars, publishedMotionOn>>
        /\ DoPublish(msg.topic, msg.value)
    BY <1>3 DEF HandleDisplay
  <2>2. msg.topic \in Topic /\ msg.topic # "motion"
    BY <2>1, TopicFacts
  <2>3. motionExpired' \in BOOLEAN /\ motionRunning' \in BOOLEAN /\ publishedMotionOn' \in BOOLEAN
    BY <2>1, FlagsTyped DEF IInv, Flags, timerVars, flagVars
  <2>4. UNCHANGED <<gateVars, reportExpired, reconnectExpired>>
    BY <2>1 DEF timerVars, flagVars
  <2>. QED BY <2>1, <2>2, <2>3, <2>4, NewsStep
<1>. QED BY <1>1, <1>2, <1>3

-----------------------------------------------------------------------------
(* The theorems.                                                           *)

\* Whatever the other threads, the broker and the network do, and however the
\* thread is interrupted, mail, publications and gate stay consistent.
THEOREM Invariance == Spec => []IInv
<1>1. IInv /\ [Next]_vars => IInv'
  <2>1. SUFFICES ASSUME IInv, Next \/ UNCHANGED vars PROVE IInv'
    OBVIOUS
  <2>2. CASE OpenGate \/ HandleTick \/ Decide
    BY <2>1, <2>2, RoundSteps
  <2>3. CASE Receive
    BY <2>1, <2>3, ReceiveStep
  <2>4. CASE HandleMotionOff \/ HandleMotionOn \/ HandleDisplay
    BY <2>1, <2>4, HandleSteps
  <2>5. CASE HandleTerminate
    BY <2>1, <2>5, TerminateStep
  <2>6. CASE \/ \E t \in Topic : \E v \in ValuesOf(t) : Broadcast(t, v)
             \/ BroadcastTerminate \/ SendTick
    BY <2>1, <2>6, MailSteps
  <2>8. CASE CheckGate
    BY <2>1, <2>8, CheckStep
  <2>7. CASE \/ ReportExpires \/ ReconnectExpires \/ MotionExpires
             \/ \E n \in {"down", "refusing", "up"} : NetChanges(n)
             \/ BrokerAnswers \/ KeepAliveExpires \/ Stopped \/ UNCHANGED vars
    BY <2>1, <2>7, OutsideSteps
  <2>. QED BY <2>1, <2>2, <2>3, <2>4, <2>5, <2>6, <2>7, <2>8 DEF Next, Thread
<1>. QED BY <1>1, InitIsGood, PTL DEF Spec

\* The state of the client has its type: no topic ever holds a value of
\* another one.
THEOREM TypeCorrect == Spec => []TypeOK
<1>1. IInv => TypeOK
  BY DEF IInv
<1>. QED BY <1>1, Invariance, PTL

\* Once the thread is through its mail in an empty room, the last it published
\* about motion, or tried to, is not `on', whatever the damper held back.
THEOREM EmptyRoomHolds == Spec => []EmptyRoomIsReported
<1>1. IInv => EmptyRoomIsReported
  BY DEF IInv, EmptyRoomIsReported, MotionIsCurrent, CaughtUp, Handled, NoNews
<1>. QED BY <1>1, Invariance, PTL

\* The retained topics tell new subscribers the truth, but for those whose
\* last publication was lost.
THEOREM SubscribersHold == Spec => []SubscribersAreToldTheTruth
<1>1. IInv => SubscribersAreToldTheTruth
  <2>1. SUFFICES ASSUME IInv, NEW t \in Topic, CaughtUp(t), retained[t] # "old"
                 PROVE  IF t = "motion" THEN retained[t] = "on" => source[t] = "on"
                                        ELSE retained[t] = source[t]
    BY DEF SubscribersAreToldTheTruth
  <2>2. Handled(t)
    BY <2>1 DEF CaughtUp, Handled, NoNews
  <2>3. CASE t = "motion"
    <3>1. source[t] \in {"on", "off"}
      BY <2>1, <2>3 DEF IInv, TypeOK, ValuesOf
    <3>. QED BY <2>1, <2>2, <2>3, <3>1 DEF IInv, MotionIsCurrent, OnIsRemembered
  <2>4. CASE t # "motion"
    BY <2>1, <2>2, <2>4, TopicFacts DEF IInv, DisplayIsCurrent
  <2>. QED BY <2>3, <2>4
<1>. QED BY <1>1, Invariance, PTL

\* However long the library works, at most the one tick that was past the gate
\* when the thread closed it comes in behind it.
THEOREM NoTicksPileUp == Spec => []TicksDoNotPileUp
<1>1. IInv => TicksDoNotPileUp
  BY DEF IInv, GateIsShut
<1>. QED BY <1>1, Invariance, PTL

\* What is published and retained keeps up with what is known, unless it was lost.
THEOREM TopicsAreCurrent == Spec => []NoTopicIsStale
<1>1. EmptyRoomIsReported /\ SubscribersAreToldTheTruth => NoTopicIsStale
  BY DEF NoTopicIsStale
<1>. QED BY <1>1, EmptyRoomHolds, SubscribersHold, PTL
=============================================================================
