-------------------------- MODULE LifecycleProofs --------------------------
(***************************************************************************)
(* Start-up and shutdown are safe for any set of cv and message threads,   *)
(* any wake-up periods and any order of the threads: nobody misses the     *)
(* Terminate message and nobody is left blocked on a tick.  That shutdown  *)
(* then completes is a liveness property, left to TLC.                     *)
(***************************************************************************)
EXTENDS Lifecycle, TLAPS

TickStopped == {"joinTick", "shutdown", "done"}

\* What main() has achieved in each of its phases.
Phases ==
    /\ mainPc \in {"precreate", "launch", "join"} => at <= Len(Order)
    /\ mainPc \in {"init", "serve", "broadcast", "stopTick", "joinTick"} => at = 1
    /\ mainPc = "precreate" => \A i \in 1 .. at - 1 : Order[i] \in DOMAIN inboxes
    /\ mainPc \in {"launch", "serve", "broadcast"} \cup AfterBroadcast =>
          DOMAIN inboxes = Thread
    /\ mainPc \in {"init", "failed", "precreate"} =>
          \A t \in Thread : pc[t] = "unborn"
    /\ mainPc = "launch" =>
          \A i \in at .. Len(Order) : pc[Order[i]] = "unborn"
    /\ mainPc = "join" =>
          \A i \in 1 .. at - 1 : Order[i] # TimerTick => pc[Order[i]] = "done"
    /\ mainPc \in {"stopTick"} \cup TickStopped => \A t \in Client : pc[t] = "done"

\* The tick thread is told to stop by main() and by nobody else.
TickStops ==
    /\ mainPc \notin TickStopped /\ TimerTick \in DOMAIN inboxes =>
          ~Holds(inboxes[TimerTick], "Terminate")
    /\ pc[TimerTick] \in {"exit", "done"} => mainPc \in TickStopped

\* A client has a tick service exactly while it is in its loop.
Services ==
    \A t \in Client :
        IF pc[t] \in {"unborn", "setup", "done"} THEN ticksLeft[t] = 0 ELSE ticksLeft[t] > 0

IInv == TypeOK /\ Phases /\ TickStops /\ Services /\ NobodyMissesTerminate

\* Facts about the sequences of messages the inboxes are.
LEMMA InboxFacts ==
    ASSUME NEW q \in Seq(Message), NEW m \in Message
    PROVE  /\ Append(q, m) \in Seq(Message)
           /\ Len(q) \in Nat
           /\ Len(Append(q, m)) = Len(q) + 1
           /\ \A i \in 1 .. Len(q) : Append(q, m)[i] = q[i]
           /\ Append(q, m)[Len(q) + 1] = m
           /\ q # <<>> => /\ Head(q) = q[1]
                          /\ Head(q) \in Message
                          /\ Len(q) >= 1
                          /\ Tail(q) \in Seq(Message)
                          /\ Len(Tail(q)) = Len(q) - 1
                          /\ \A i \in 1 .. Len(q) - 1 : Tail(q)[i] = q[i + 1]
  OBVIOUS

LEMMA HoldsFacts ==
    ASSUME NEW q \in Seq(Message), NEW m \in Message, NEW n \in Message
    PROVE  /\ Holds(Append(q, m), n) <=> Holds(q, n) \/ m = n
           /\ q # <<>> => (Holds(q, n) <=> Head(q) = n \/ Holds(Tail(q), n))
           /\ ~Holds(<<>>, n)
<1>1. Holds(Append(q, m), n) <=> Holds(q, n) \/ m = n
  BY InboxFacts DEF Holds
<1>2. ASSUME q # <<>> PROVE Holds(q, n) <=> Head(q) = n \/ Holds(Tail(q), n)
  <2>1. Holds(q, n) => Head(q) = n \/ Holds(Tail(q), n)
    <3>. SUFFICES ASSUME NEW i \in 1 .. Len(q), q[i] = n, Head(q) # n
                 PROVE  Holds(Tail(q), n)
      BY DEF Holds
    <3>1. i - 1 \in 1 .. Len(Tail(q)) /\ Tail(q)[i - 1] = n
      BY <1>2, InboxFacts
    <3>. QED BY <3>1 DEF Holds
  <2>2. Head(q) = n \/ Holds(Tail(q), n) => Holds(q, n)
    BY <1>2, InboxFacts DEF Holds
  <2>. QED BY <2>1, <2>2
<1>3. ~Holds(<<>>, n)
  BY DEF Holds
<1>. QED BY <1>1, <1>2, <1>3

\* The order of the threads has room for all of them, TimerTick at least.
LEMMA OrderFacts ==
    /\ Len(Order) \in Nat /\ Len(Order) >= 1
    /\ \A i \in 1 .. Len(Order) : Order[i] \in Thread
  BY LifecycleAssumption DEF Thread

\* The process starts out well.
LEMMA InitIInv == Init => IInv
<1>. SUFFICES ASSUME Init PROVE IInv
  OBVIOUS
<1>. USE DEF Init
<1>1. DOMAIN inboxes = {} /\ inboxes \in [DOMAIN inboxes -> Seq(Message)]
  OBVIOUS
<1>2. /\ pc \in [Thread -> {"unborn"}] /\ ticksLeft \in [Client -> Nat]
      /\ internal \in [InternalOwner -> {"null", "live", "freed"}]
  OBVIOUS
<1>3. expired \in [CvThread -> BOOLEAN] /\ ready \in BOOLEAN /\ entries \in BOOLEAN
  BY Zenon
<1>4. live \subseteq Singleton
  <2>1. ShutdownOrder[9] = "InboxRegistry" /\ 9 \in DOMAIN ShutdownOrder
    BY DEF ShutdownOrder
  <2>. QED BY <2>1 DEF Singleton
<1>5. TypeOK
  BY <1>1, <1>2, <1>3, <1>4 DEF TypeOK, Message
<1>6. Phases
  BY <1>2, OrderFacts DEF Phases, AfterBroadcast, TickStopped
<1>7. TickStops
  BY <1>1, <1>2 DEF TickStops, TickStopped, Thread
<1>8. Services /\ NobodyMissesTerminate
  BY <1>2 DEF Services, NobodyMissesTerminate, AfterBroadcast, Client, Thread
<1>. QED BY <1>5, <1>6, <1>7, <1>8 DEF IInv

\* The steps of main() keep the types.
LEMMA MainTypeOK ==
    ASSUME TypeOK, Phases, Main \/ InitializeFails \/ ServerReturns \/ PostEntry
    PROVE  TypeOK'
<1>. USE OrderFacts DEF TypeOK, AfterBroadcast, threadVars
<1>1. CASE InitializeFails \/ ServerReturns \/ JoinTimerTick
  BY <1>1 DEF InitializeFails, ServerReturns, JoinTimerTick
<1>2. CASE StartWebHandler \/ PostEntry
  <2>1. {"WebHandlerInternal", "Display", "LedStrip", "Dictionary", "TimerTick"} \subseteq Singleton
    <3>1. /\ ShutdownOrder[3] = "WebHandlerInternal" /\ ShutdownOrder[4] = "Display"
          /\ ShutdownOrder[5] = "LedStrip" /\ ShutdownOrder[7] = "Dictionary"
          /\ ShutdownOrder[8] = "TimerTick" /\ DOMAIN ShutdownOrder = 1 .. 9
      BY DEF ShutdownOrder
    <3>. QED BY <3>1 DEF Singleton
  <2>. QED BY <1>2, <2>1 DEF StartWebHandler, PostEntry
<1>3. CASE PreCreateInbox
  <2>1. Order[at] \in Thread
    BY <1>3 DEF PreCreateInbox, Phases
  <2>2. inboxes' = GetInbox(inboxes, Order[at])
    BY <1>3 DEF PreCreateInbox
  <2>3. DOMAIN inboxes' \subseteq Thread /\ inboxes' \in [DOMAIN inboxes' -> Seq(Message)]
    BY <2>1, <2>2 DEF GetInbox
  <2>. QED BY <1>3, <2>3 DEF PreCreateInbox, Advance
<1>4. CASE Launch
  BY <1>4 DEF Launch, Goto, Advance, Phases
<1>5. CASE BroadcastTerminate
  <2>1. inboxes' = Broadcast(inboxes, "Terminate", TimerTick)
    BY <1>5 DEF BroadcastTerminate
  <2>2. DOMAIN inboxes' \subseteq Thread /\ inboxes' \in [DOMAIN inboxes' -> Seq(Message)]
    BY <2>1, InboxFacts DEF Broadcast, Message
  <2>. QED BY <1>5, <2>2 DEF BroadcastTerminate
<1>6. CASE Join
  BY <1>6 DEF Join, Advance
<1>7. CASE SendTerminateToTimerTick
  <2>1. inboxes' = AddMessage(GetInbox(inboxes, TimerTick), TimerTick, "Terminate")
    BY <1>7 DEF SendTerminateToTimerTick
  <2>2. DOMAIN inboxes' \subseteq Thread /\ inboxes' \in [DOMAIN inboxes' -> Seq(Message)]
    BY <2>1, InboxFacts DEF AddMessage, GetInbox, Message, Thread
  <2>. QED BY <1>7, <2>2 DEF SendTerminateToTimerTick
<1>8. CASE Shutdown
  <2>1. Len(ShutdownOrder) = 9
    BY DEF ShutdownOrder
  <2>2. live' \subseteq Singleton
    <3>1. ShutdownOrder[8] = "TimerTick" /\ 8 \in DOMAIN ShutdownOrder
      BY DEF ShutdownOrder
    <3>. QED BY <1>8, <3>1 DEF Shutdown, Singleton
  <2>. QED BY <1>8, <2>1, <2>2 DEF Shutdown
<1>. QED BY <1>1, <1>2, <1>3, <1>4, <1>5, <1>6, <1>7, <1>8 DEF Main

\* What every step of a thread has in common: main() does not move, only the
\* thread itself does, and by then every inbox exists.
LEMMA RunFrame ==
    ASSUME TypeOK, Phases, NEW t \in Thread, Run(t)
    PROVE  /\ UNCHANGED <<mainPc, at, entries>>
           /\ DOMAIN inboxes = Thread /\ DOMAIN inboxes' = Thread
           /\ mainPc \in {"launch", "serve", "broadcast"} \cup AfterBroadcast
           /\ pc[t] \notin {"unborn", "done"}
           /\ \A u \in Thread \ {t} : pc'[u] = pc[u]
           /\ pc'[t] \in {"check", "wait", "work", "tick", "top", "receive",
                          "report", "follow", "exit", "done"}
           /\ pc' \in [Thread -> {"unborn", "setup", "check", "wait", "work", "tick", "top",
                                  "receive", "report", "follow", "exit", "done"}]
<1>1. pc[t] \notin {"unborn", "done"} /\ UNCHANGED <<mainPc, at, entries>>
  BY DEF Run, SetUp, CheckInbox, Wake, Work, DeleteInternal, Exit, OpenGate,
     Receive, ReportCheck, ReportFollow, Tick
<1>2. mainPc \in {"launch", "serve", "broadcast"} \cup AfterBroadcast
  BY <1>1 DEF TypeOK, Phases
<1>3. DOMAIN inboxes = Thread
  BY <1>2 DEF Phases
<1>4. DOMAIN inboxes' = Thread
  BY <1>3 DEF TypeOK, Run, SetUp, CheckInbox, Wake, Work, DeleteInternal, Exit, OpenGate,
     Receive, ReportCheck, ReportFollow, Tick, GetInbox, PopFront, Broadcast, Clear
<1>5. PICK w \in {"check", "wait", "work", "tick", "top", "receive",
                  "report", "follow", "exit", "done"} : pc' = [pc EXCEPT ![t] = w]
  <2>1. CASE \E w : w \in {"check", "wait", "work", "tick", "top", "receive",
                  "report", "follow", "exit", "done"} /\ Goto(t, w)
    BY <2>1 DEF Goto
  <2>2. CASE DeleteInternal(t)
    BY <2>2, <1>1 DEF DeleteInternal, TypeOK
  <2>. QED
    BY <2>1, <2>2 DEF Run, SetUp, CheckInbox, Wake, Work, Exit, OpenGate,
       Receive, ReportCheck, ReportFollow, NextRead, Tick
<1>. QED BY <1>1, <1>2, <1>3, <1>4, <1>5 DEF TypeOK

\* The steps of the threads keep the types.
LEMMA RunTypeOK ==
    ASSUME TypeOK, Phases, NEW t \in Thread, Run(t)
    PROVE  TypeOK'
<1>. USE LifecycleAssumption DEF TypeOK
<1>1. inboxes' \in [DOMAIN inboxes' -> Seq(Message)]
  <2>1. DOMAIN inboxes = Thread /\ DOMAIN inboxes' = Thread
    BY RunFrame
  <2>2. CASE inboxes' = inboxes \/ inboxes' = GetInbox(inboxes, t)
    BY <2>1, <2>2 DEF GetInbox
  <2>3. CASE inboxes' = PopFront(inboxes, t) /\ inboxes[t] # <<>>
    BY <2>1, <2>3, InboxFacts DEF PopFront
  <2>4. CASE inboxes' = Broadcast(inboxes, "Other", t)
    BY <2>1, <2>4, InboxFacts DEF Broadcast, Message
  <2>5. CASE inboxes' = Clear(inboxes, t)
    BY <2>1, <2>5 DEF Clear
  <2>6. CASE Tick
    <3>1. \A u \in Thread : inboxes'[u] \in {inboxes[u], Append(inboxes[u], "TimerTickMessage")}
      BY <2>1, <2>6 DEF Tick
    <3>. QED BY <2>1, <2>6, <3>1, InboxFacts DEF Tick, Message
  <2>. QED
    BY <2>2, <2>3, <2>4, <2>5, <2>6 DEF Run, SetUp, CheckInbox, Wake, Work,
       DeleteInternal, Exit, OpenGate, Receive, ReportCheck, ReportFollow
<1>2. ticksLeft' \in [Client -> Nat]
  <2>1. /\ ticksLeft \in [Client -> Nat]
        /\ \A u \in Client : Period[u] \in Nat
    OBVIOUS
  <2>2. CASE UNCHANGED ticksLeft
    BY <2>1, <2>2
  <2>3. CASE t \in Client /\ ticksLeft' = [ticksLeft EXCEPT ![t] = Period[t]]
    BY ONLY <2>1, <2>3
  <2>4. CASE t \in Client /\ ticksLeft' = [ticksLeft EXCEPT ![t] = 0]
    BY ONLY <2>1, <2>4
  <2>5. CASE Tick
    <3>1. \A u \in Client : ticksLeft'[u] \in {ticksLeft[u] - 1, Period[u], 0}
                            /\ (ticksLeft'[u] = ticksLeft[u] - 1 => ticksLeft[u] > 1
                                 \/ ticksLeft'[u] \in {Period[u], 0})
      BY ONLY <2>1, <2>5 DEF Tick
    <3>2. \A u \in Client : ticksLeft'[u] \in Nat
      BY ONLY <2>1, <3>1
    <3>3. ticksLeft' = [u \in Client |-> ticksLeft'[u]]
      BY ONLY <2>5 DEF Tick
    <3>. QED BY ONLY <3>2, <3>3
  <2>. QED
    BY <2>2, <2>3, <2>4, <2>5 DEF Run, SetUp, CheckInbox, Wake, Work, DeleteInternal, Exit,
       OpenGate, Receive, ReportCheck, ReportFollow
<1>3. expired' \in [CvThread -> BOOLEAN]
  <2>1. CASE UNCHANGED expired
    BY <2>1
  <2>2. CASE expired' = [expired EXCEPT ![t] = FALSE]
    BY <2>2, Zenon
  <2>3. CASE expired' = [u \in CvThread |-> expired[u] \/ Fires(u)]
    <3>1. \A u \in CvThread : (expired[u] \/ Fires(u)) \in BOOLEAN
      BY DEF Fires
    <3>. QED BY <2>3, <3>1, Zenon
  <2>. QED
    BY <2>1, <2>2, <2>3 DEF Run, SetUp, CheckInbox, Wake, Work, DeleteInternal, Exit,
       OpenGate, Receive, ReportCheck, ReportFollow, Tick
<1>4. ready' \in BOOLEAN
  BY DEF Run, SetUp, CheckInbox, Wake, Work, DeleteInternal, Exit, OpenGate,
     Receive, ReportCheck, ReportFollow, Tick
<1>5. internal' \in [InternalOwner -> {"null", "live", "freed"}]
  BY DEF Run, SetUp, CheckInbox, Wake, Work, DeleteInternal, Exit, OpenGate,
     Receive, ReportCheck, ReportFollow, Tick
<1>6. reading' \in Nat
  <2>1. reading' \in {reading, reading + 1, 0, 1}
    BY DEF Run, SetUp, CheckInbox, Wake, Work, DeleteInternal, Exit, OpenGate,
       Receive, ReportCheck, ReportFollow, NextRead, Tick
  <2>. QED BY <2>1
<1>7. live' \subseteq Singleton
  <2>1. ReportBinds \subseteq Singleton
    <3>1. /\ ShutdownOrder[1] = "LightSensor" /\ ShutdownOrder[2] = "MotionSensor"
          /\ ShutdownOrder[4] = "Display" /\ ShutdownOrder[5] = "LedStrip"
          /\ ShutdownOrder[6] = "MqttClient" /\ ShutdownOrder[7] = "Dictionary"
          /\ DOMAIN ShutdownOrder = 1 .. 9
      BY DEF ShutdownOrder
    <3>. QED BY <3>1 DEF Singleton, ReportBinds
  <2>2. Binds(t) \subseteq Singleton
    BY DEF Binds
  <2>. QED
    BY <2>1, <2>2 DEF Run, SetUp, CheckInbox, Wake, Work, DeleteInternal, Exit,
       OpenGate, Receive, ReportCheck, ReportFollow, Tick
<1>8. /\ UNCHANGED <<mainPc, at, entries>>
      /\ DOMAIN inboxes' = Thread
      /\ pc' \in [Thread -> {"unborn", "setup", "check", "wait", "work", "tick", "top",
                             "receive", "report", "follow", "exit", "done"}]
  BY RunFrame
<1>. QED BY <1>1, <1>2, <1>3, <1>4, <1>5, <1>6, <1>7, <1>8

\* The steps of main() keep the inductive invariant.
LEMMA MainIInv ==
    ASSUME IInv, Main \/ InitializeFails \/ ServerReturns \/ PostEntry
    PROVE  IInv'
<1>1. TypeOK'
  BY MainTypeOK DEF IInv
<1>. USE OrderFacts DEF IInv, TypeOK, AfterBroadcast, TickStopped
<1>2. CASE InitializeFails \/ StartWebHandler \/ ServerReturns \/ PostEntry \/ JoinTimerTick
  <2>1. UNCHANGED <<pc, inboxes, ticksLeft, at>>
    BY <1>2 DEF InitializeFails, StartWebHandler, ServerReturns, PostEntry,
       JoinTimerTick, threadVars
  <2>2. Phases'
    BY <1>2, <2>1 DEF Phases, InitializeFails, StartWebHandler, ServerReturns,
       PostEntry, JoinTimerTick
  <2>3. TickStops' /\ Services' /\ NobodyMissesTerminate'
    BY <1>2, <2>1 DEF TickStops, Services, NobodyMissesTerminate, InitializeFails,
       StartWebHandler, ServerReturns, PostEntry, JoinTimerTick
  <2>. QED BY <1>1, <2>2, <2>3
<1>3. CASE PreCreateInbox
  <2>1. inboxes' = GetInbox(inboxes, Order[at]) /\ Order[at] \in Thread
    BY <1>3 DEF PreCreateInbox, Phases
  <2>2. UNCHANGED <<pc, ticksLeft>> /\ mainPc = "precreate" /\ Advance("launch")
    BY <1>3 DEF PreCreateInbox
  <2>3. Phases'
    <3>1. \A i \in 1 .. at : Order[i] \in DOMAIN inboxes'
      BY <2>1, <2>2 DEF GetInbox, Phases
    <3>2. mainPc' = "launch" => DOMAIN inboxes' = Thread
      <4>. SUFFICES ASSUME mainPc' = "launch" PROVE Thread \subseteq DOMAIN inboxes'
        BY <1>1
      <4>1. at = Len(Order)
        BY <2>2 DEF Advance, Phases
      <4>. QED BY <3>1, <4>1, LifecycleAssumption
    <3>. QED
      BY <2>2, <3>1, <3>2 DEF Phases, Advance
  <2>4. TickStops'
    <3>1. TimerTick \in DOMAIN inboxes' => ~Holds(inboxes'[TimerTick], "Terminate")
      <4>1. ~Holds(<<>>, "Terminate")
        BY DEF Holds
      <4>2. CASE TimerTick \in DOMAIN inboxes
        <5>1. inboxes'[TimerTick] = inboxes[TimerTick]
          BY <2>1, <4>2 DEF GetInbox
        <5>. QED BY <2>2, <4>2, <5>1 DEF TickStops
      <4>3. CASE TimerTick \notin DOMAIN inboxes /\ TimerTick \in DOMAIN inboxes'
        <5>1. inboxes'[TimerTick] = <<>>
          BY <2>1, <4>3 DEF GetInbox
        <5>. QED BY <4>1, <5>1
      <4>. QED BY <4>2, <4>3
    <3>. QED BY <2>2, <3>1 DEF TickStops, Phases, Thread
  <2>5. Services' /\ NobodyMissesTerminate'
    BY <2>2 DEF Services, NobodyMissesTerminate, Advance
  <2>. QED BY <1>1, <2>3, <2>4, <2>5
<1>4. CASE Launch
  <2>1. /\ pc' = [pc EXCEPT ![Order[at]] = "setup"]
        /\ at \in 1 .. Len(Order) /\ Order[at] \in Thread
        /\ pc[Order[at]] = "unborn"
        /\ mainPc = "launch" /\ Advance("serve")
        /\ UNCHANGED <<inboxes, ticksLeft>>
    BY <1>4 DEF Launch, Goto, Phases
  <2>2. Phases'
    <3>1. CASE at < Len(Order)
      <4>1. mainPc' = "launch" /\ at' = at + 1
        BY <2>1, <3>1 DEF Advance
      <4>2. \A i \in at + 1 .. Len(Order) : pc'[Order[i]] = "unborn"
        <5>. TAKE i \in at + 1 .. Len(Order)
        <5>1. i \in at .. Len(Order) /\ i \in 1 .. Len(Order) /\ i # at
          BY <2>1
        <5>2. Order[i] # Order[at] /\ Order[i] \in Thread
          BY <2>1, <5>1, LifecycleAssumption
        <5>3. pc[Order[i]] = "unborn"
          BY <2>1, <5>1 DEF Phases
        <5>. QED BY <2>1, <5>2, <5>3
      <4>3. at' <= Len(Order)
        BY <2>1, <3>1, <4>1
      <4>. QED BY <2>1, <4>1, <4>2, <4>3 DEF Phases
    <3>2. CASE ~(at < Len(Order))
      BY <2>1, <3>2 DEF Phases, Advance
    <3>. QED BY <3>1, <3>2
  <2>3. TickStops' /\ Services' /\ NobodyMissesTerminate'
    BY <2>1 DEF TickStops, Services, NobodyMissesTerminate, Advance, Client, Thread
  <2>. QED BY <1>1, <2>2, <2>3
<1>5. CASE BroadcastTerminate
  <2>1. /\ inboxes' = Broadcast(inboxes, "Terminate", TimerTick)
        /\ mainPc = "broadcast" /\ mainPc' = "join"
        /\ UNCHANGED <<pc, ticksLeft, at>> /\ at = 1
        /\ DOMAIN inboxes = Thread
    BY <1>5 DEF BroadcastTerminate, Phases
  <2>2. Phases'
    BY <2>1 DEF Phases, Broadcast
  <2>3. TickStops' /\ Services'
    BY <2>1 DEF TickStops, Services, Broadcast
  <2>4. NobodyMissesTerminate'
    BY <2>1, HoldsFacts, LifecycleAssumption
       DEF NobodyMissesTerminate, Broadcast, Message, Thread
  <2>. QED BY <1>1, <2>2, <2>3, <2>4
<1>6. CASE Join
  <2>1. /\ mainPc = "join" /\ at \in 1 .. Len(Order)
        /\ Order[at] # TimerTick => pc[Order[at]] = "done"
        /\ Advance("stopTick") /\ UNCHANGED <<pc, inboxes, ticksLeft>>
    BY <1>6 DEF Join, threadVars, Phases
  <2>2. Phases'
    <3>1. \A i \in 1 .. at : Order[i] # TimerTick => pc[Order[i]] = "done"
      BY <2>1 DEF Phases
    <3>2. mainPc' = "stopTick" => \A t \in Client : pc[t] = "done"
      <4>. SUFFICES ASSUME mainPc' = "stopTick", NEW t \in Client PROVE pc[t] = "done"
        OBVIOUS
      <4>1. at = Len(Order) /\ t \in Thread /\ t # TimerTick
        BY <2>1, LifecycleAssumption DEF Advance, Thread
      <4>2. PICK i \in 1 .. Len(Order) : Order[i] = t
        BY <4>1, LifecycleAssumption
      <4>. QED BY <3>1, <4>1, <4>2
    <3>. QED BY <2>1, <3>1, <3>2 DEF Phases, Advance
  <2>3. TickStops' /\ Services' /\ NobodyMissesTerminate'
    BY <2>1 DEF TickStops, Services, NobodyMissesTerminate, Advance
  <2>. QED BY <1>1, <2>2, <2>3
<1>7. CASE SendTerminateToTimerTick
  <2>1. /\ inboxes' = AddMessage(GetInbox(inboxes, TimerTick), TimerTick, "Terminate")
        /\ mainPc = "stopTick" /\ mainPc' = "joinTick"
        /\ UNCHANGED <<pc, ticksLeft, at>>
    BY <1>7 DEF SendTerminateToTimerTick
  <2>2. Phases' /\ NobodyMissesTerminate'
    BY <2>1 DEF Phases, NobodyMissesTerminate, AddMessage, GetInbox, Thread
  <2>3. TickStops' /\ Services'
    BY <2>1 DEF TickStops, Services
  <2>. QED BY <1>1, <2>2, <2>3
<1>8. CASE Shutdown
  <2>1. /\ mainPc = "shutdown" /\ mainPc' \in {"shutdown", "done"}
        /\ UNCHANGED <<pc, inboxes, ticksLeft>>
    BY <1>8 DEF Shutdown, threadVars
  <2>2. Phases' /\ TickStops' /\ Services' /\ NobodyMissesTerminate'
    BY <2>1 DEF Phases, TickStops, Services, NobodyMissesTerminate
  <2>. QED BY <1>1, <2>2
<1>. QED BY <1>2, <1>3, <1>4, <1>5, <1>6, <1>7, <1>8 DEF Main

\* The steps of the threads keep the inductive invariant.
LEMMA RunIInv ==
    ASSUME IInv, NEW t \in Thread, Run(t)
    PROVE  IInv'
<1>1. TypeOK' /\ TypeOK /\ Phases
  BY RunTypeOK DEF IInv
<1>2. /\ UNCHANGED <<mainPc, at>>
      /\ DOMAIN inboxes = Thread /\ DOMAIN inboxes' = Thread
      /\ mainPc \in {"launch", "serve", "broadcast"} \cup AfterBroadcast
      /\ pc[t] \notin {"unborn", "done"}
      /\ \A u \in Thread \ {t} : pc'[u] = pc[u]
      /\ pc'[t] \in {"check", "wait", "work", "tick", "top", "receive",
                     "report", "follow", "exit", "done"}
  BY <1>1, RunFrame
<1>3. Phases'
  <2>1. mainPc \notin {"init", "failed", "precreate"}
    BY <1>2 DEF AfterBroadcast
  <2>2. \A u \in Thread : pc[u] \in {"unborn", "done"} => pc'[u] = pc[u]
    BY <1>2
  <2>3. at \in Nat \ {0}
    BY <1>1 DEF TypeOK
  <2>4. mainPc = "launch" => \A i \in at .. Len(Order) : pc'[Order[i]] = "unborn"
    BY <1>1, <2>2, <2>3, OrderFacts DEF Phases
  <2>5. mainPc = "join" =>
           \A i \in 1 .. at - 1 : Order[i] # TimerTick => pc'[Order[i]] = "done"
    BY <1>1, <2>2, <2>3, OrderFacts DEF Phases
  <2>6. mainPc \in {"stopTick"} \cup TickStopped => \A u \in Client : pc'[u] = "done"
    BY <1>1, <2>2 DEF Phases, Thread
  <2>. QED BY ONLY <1>1, <1>2, <2>1, <2>4, <2>5, <2>6 DEF Phases
<1>4. /\ pc'[t] = "exit" /\ pc[t] # "exit" =>
             inboxes[t] # <<>> /\ Head(inboxes[t]) = "Terminate"
      /\ pc'[t] = "done" => pc[t] = "exit"
  BY <1>1 DEF TypeOK, Run, SetUp, CheckInbox, Wake, Work, DeleteInternal, Exit,
     OpenGate, Receive, ReportCheck, ReportFollow, NextRead, Tick, Goto
<1>5. \A u \in Thread :
          \/ inboxes'[u] = inboxes[u]
          \/ inboxes'[u] = Append(inboxes[u], "Other")
          \/ inboxes'[u] = Append(inboxes[u], "TimerTickMessage")
          \/ u = t /\ inboxes[u] # <<>> /\ inboxes'[u] = Tail(inboxes[u])
                   /\ (Head(inboxes[u]) = "Terminate" => pc'[u] = "exit")
          \/ u = t /\ inboxes'[u] = <<>> /\ pc'[u] = "done"
  <2>. TAKE u \in Thread
  <2>1. CASE inboxes' = inboxes
    BY <2>1
  <2>2. CASE inboxes' = GetInbox(inboxes, t)
    BY <1>2, <2>2 DEF GetInbox
  <2>3. CASE inboxes' = Broadcast(inboxes, "Other", t)
    BY <1>2, <2>3 DEF Broadcast
  <2>4. CASE inboxes' = Clear(inboxes, t) /\ pc'[t] = "done"
    BY <1>2, <2>4 DEF Clear
  <2>5. CASE /\ inboxes[t] # <<>> /\ inboxes' = PopFront(inboxes, t)
             /\ Head(inboxes[t]) = "Terminate" => pc'[t] = "exit"
    BY <1>2, <2>5 DEF PopFront
  <2>6. CASE Tick
    BY <1>2, <2>6 DEF Tick
  <2>7. Exit(t) => pc'[t] = "done"
    BY <1>1 DEF Exit, Goto, TypeOK
  <2>8. /\ CheckInbox(t) /\ inboxes[t] # <<>> /\ Head(inboxes[t]) = "Terminate" => pc'[t] = "exit"
        /\ Receive(t) /\ Head(inboxes[t]) = "Terminate" => pc'[t] = "exit"
    BY <1>1 DEF CheckInbox, Receive, Goto, TypeOK
  <2>. QED
    BY <2>1, <2>2, <2>3, <2>4, <2>5, <2>6, <2>7, <2>8 DEF Run, SetUp, CheckInbox, Wake, Work,
       DeleteInternal, Exit, OpenGate, Receive, ReportCheck, ReportFollow
<1>6. \A u \in Thread :
          Holds(inboxes'[u], "Terminate") => Holds(inboxes[u], "Terminate")
  <2>. TAKE u \in Thread
  <2>1. inboxes[u] \in Seq(Message)
    BY <1>1, <1>2 DEF TypeOK
  <2>2. "Terminate" \in Message /\ "Other" \in Message /\ "TimerTickMessage" \in Message
    BY DEF Message
  <2>3. /\ Holds(Append(inboxes[u], "Other"), "Terminate") => Holds(inboxes[u], "Terminate")
        /\ Holds(Append(inboxes[u], "TimerTickMessage"), "Terminate") =>
              Holds(inboxes[u], "Terminate")
        /\ inboxes[u] # <<>> /\ Holds(Tail(inboxes[u]), "Terminate") =>
              Holds(inboxes[u], "Terminate")
        /\ ~Holds(<<>>, "Terminate")
    BY ONLY <2>1, <2>2, HoldsFacts
  <2>. QED BY ONLY <1>5, <2>3
<1>7. TickStops'
  <2>1. inboxes[t] # <<>> /\ Head(inboxes[t]) = "Terminate" =>
             Holds(inboxes[t], "Terminate")
    BY <1>1, <1>2, HoldsFacts DEF TypeOK, Message
  <2>2. TimerTick \in Thread
    BY DEF Thread
  <2>. QED BY <1>2, <1>4, <1>6, <2>1, <2>2 DEF IInv, TickStops
<1>8. Services'
  <2>1. CASE Tick /\ t = TimerTick
    <3>1. \A u \in Client : pc'[u] = pc[u]
      BY <1>2, <2>1, LifecycleAssumption DEF Thread
    <3>2. \A u \in Client : /\ ticksLeft[u] = 0 => ticksLeft'[u] = 0
                            /\ ticksLeft[u] > 0 => ticksLeft'[u] > 0
      BY <1>1, <2>1, LifecycleAssumption DEF Tick, Fires, TypeOK
    <3>. QED BY <1>1, <3>1, <3>2 DEF IInv, Services, TypeOK
  <2>2. CASE SetUp(t)
    BY SMTT(30), <1>1, <1>2, <2>2, LifecycleAssumption DEF IInv, Services, TypeOK, SetUp, Goto, Thread
  <2>3. CASE Exit(t)
    BY <1>1, <1>2, <2>3 DEF IInv, Services, TypeOK, Exit, Goto, Thread
  <2>4. CASE UNCHANGED ticksLeft /\ pc[t] # "setup" /\ pc'[t] # "done"
    BY <1>1, <1>2, <2>4 DEF IInv, Services, TypeOK, Thread
  <2>. QED
    BY <1>1, <2>1, <2>2, <2>3, <2>4 DEF TypeOK, Run, CheckInbox, Wake, Work,
       DeleteInternal, OpenGate, Receive, ReportCheck, ReportFollow, NextRead, Goto
<1>9. NobodyMissesTerminate'
  <2>. SUFFICES ASSUME mainPc \in AfterBroadcast, NEW u \in Client,
                       pc'[u] \notin {"exit", "done"}
                PROVE  Holds(inboxes'[u], "Terminate")
    BY <1>2 DEF NobodyMissesTerminate, Thread
  <2>1. u \in Thread /\ inboxes[u] \in Seq(Message)
    BY <1>1, <1>2 DEF TypeOK, Thread
  <2>2. pc[u] \notin {"exit", "done"}
    <3>1. pc[t] = "exit" => pc'[t] \in {"exit", "done"}
      BY <1>1 DEF TypeOK, Run, SetUp, CheckInbox, Wake, Work, DeleteInternal, Exit,
         OpenGate, Receive, ReportCheck, ReportFollow, Tick, Goto
    <3>. QED BY <1>2, <2>1, <3>1
  <2>3. Holds(inboxes[u], "Terminate")
    BY <1>2, <2>1, <2>2 DEF IInv, NobodyMissesTerminate
  <2>4. "Terminate" \in Message /\ "Other" \in Message /\ "TimerTickMessage" \in Message
    BY DEF Message
  <2>5. /\ Holds(Append(inboxes[u], "Other"), "Terminate")
        /\ Holds(Append(inboxes[u], "TimerTickMessage"), "Terminate")
        /\ inboxes[u] # <<>> /\ Head(inboxes[u]) # "Terminate" =>
              Holds(Tail(inboxes[u]), "Terminate")
    BY ONLY <2>1, <2>3, <2>4, HoldsFacts
  <2>. QED BY ONLY <1>5, <2>1, <2>3, <2>5, pc'[u] \notin {"exit", "done"}
<1>. QED BY <1>1, <1>3, <1>7, <1>8, <1>9 DEF IInv

\* Start-up and shutdown keep the inductive invariant.
THEOREM LifecycleSafe == Spec => []IInv
<1>1. IInv /\ [Next]_vars => IInv'
  <2>. SUFFICES ASSUME IInv, [Next]_vars PROVE IInv'
    OBVIOUS
  <2>1. CASE UNCHANGED vars
    BY <2>1 DEF vars, threadVars, IInv, TypeOK, Phases, TickStops, Services,
       NobodyMissesTerminate, Holds
  <2>. QED BY <2>1, MainIInv, RunIInv DEF Next, Over
<1>. QED BY <1>1, InitIInv, PTL DEF Spec

\* Every variable keeps its type.
THEOREM TypeCorrect == Spec => []TypeOK
<1>1. IInv => TypeOK
  BY DEF IInv
<1>. QED BY <1>1, LifecycleSafe, PTL

\* No thread can miss the Terminate broadcast, however late it starts.
THEOREM TerminateReachesAll == Spec => []NobodyMissesTerminate
<1>1. IInv => NobodyMissesTerminate
  BY DEF IInv
<1>. QED BY <1>1, LifecycleSafe, PTL

\* No thread is ever blocked on a tick that will not come.
THEOREM NoStrandedThread == Spec => []WaitersAreServed
<1>1. IInv => WaitersAreServed
  BY DEF IInv, TypeOK, Phases, TickStops, Services, WaitersAreServed, TickStopped,
     Client
<1>. QED BY <1>1, LifecycleSafe, PTL

\* A thread that has ended left no tick service registered.
THEOREM ServicesWithdrawn == Spec => []NoServiceOfDeadThread
<1>1. IInv => NoServiceOfDeadThread
  BY DEF IInv, Services, NoServiceOfDeadThread
<1>. QED BY <1>1, LifecycleSafe, PTL

-----------------------------------------------------------------------------
(* The singletons.  While threads run they are only ever created; when the *)
(* tear-down begins all threads have been joined, and what it has passed   *)
(* stays away, since only the dictionary brings another one back, and      *)
(* TimerTick comes after it.                                               *)

\* What main() has torn down is gone, and nobody is left to bring it back.
TornDown ==
    /\ mainPc \in {"shutdown", "done"} => \A t \in Thread : pc[t] = "done"
    /\ mainPc = "shutdown" =>
          /\ at <= Len(ShutdownOrder)
          /\ \A i \in 1 .. at - 1 : ShutdownOrder[i] \notin live

SInv == TornDown /\ SingletonsOutliveThreads /\ CleanExit

\* The tear-down comes to TimerTick after the dictionary that needs it.
LEMMA ShutdownFacts ==
    /\ Len(ShutdownOrder) = 9
    /\ \A i \in 1 .. 9 : ShutdownOrder[i] = "Dictionary" => i = 7
    /\ \A i \in 1 .. 9 : ShutdownOrder[i] = "TimerTick" => i = 8
  BY DEF ShutdownOrder

\* The tear-down comes to every singleton.
LEMMA ShutdownCovers == \A s \in Singleton : \E i \in 1 .. 9 : s = ShutdownOrder[i]
<1>1. DOMAIN ShutdownOrder = 1 .. 9
  BY DEF ShutdownOrder
<1>. QED BY <1>1, Zenon DEF Singleton

\* main() takes a singleton away only when every thread has been joined.
LEMMA MainSInv ==
    ASSUME IInv, SInv, Main \/ InitializeFails \/ ServerReturns \/ PostEntry
    PROVE  SInv'
<1>. USE DEF IInv, SInv
<1>1. CASE Shutdown
  <2>1. UNCHANGED pc /\ mainPc = "shutdown" /\ mainPc' \in {"shutdown", "done"}
    BY <1>1 DEF Shutdown, threadVars
  <2>2. \A t \in Thread : pc'[t] = "done"
    BY <2>1 DEF TornDown
  <2>3. SingletonsOutliveThreads'
    BY <2>2 DEF SingletonsOutliveThreads
  <2>4. at \in 1 .. 9
    BY <2>1, ShutdownFacts DEF TornDown, TypeOK
  <2>5. \A i \in 1 .. at : ShutdownOrder[i] \notin live'
    <3>. SUFFICES ASSUME NEW i \in 1 .. at PROVE ShutdownOrder[i] \notin live'
      OBVIOUS
    <3>1. i \in 1 .. 9 /\ (i = at \/ i \in 1 .. at - 1)
      BY <2>4
    <3>2. CASE i = at
      BY <1>1, <3>2 DEF Shutdown
    <3>3. CASE i \in 1 .. at - 1
      <4>1. ShutdownOrder[i] \notin live
        BY <2>1, <3>3 DEF TornDown
      <4>2. ShutdownOrder[at] = "Dictionary" => ShutdownOrder[i] # "TimerTick"
        BY <2>4, <3>1, <3>3, ShutdownFacts
      <4>. QED BY <1>1, <4>1, <4>2 DEF Shutdown
    <3>. QED BY <3>1, <3>2, <3>3
  <2>6. CASE at < 9
    <3>1. at' = at + 1 /\ mainPc' = "shutdown"
      BY <1>1, <2>6, ShutdownFacts DEF Shutdown
    <3>2. TornDown'
      BY <2>2, <2>4, <2>5, <2>6, <3>1, ShutdownFacts DEF TornDown
    <3>. QED BY <2>3, <3>1, <3>2 DEF CleanExit
  <2>7. CASE at = 9
    <3>1. mainPc' = "done"
      BY <1>1, <2>7, ShutdownFacts DEF Shutdown
    <3>2. live' \subseteq Singleton
      BY <1>1, MainTypeOK DEF TypeOK
    <3>3. live' = {}
      BY <2>5, <2>7, <3>2, ShutdownCovers
    <3>4. TornDown'
      BY <2>2, <3>1 DEF TornDown
    <3>. QED BY <2>3, <3>3, <3>4 DEF CleanExit
  <2>. QED BY <2>4, <2>6, <2>7
<1>2. CASE JoinTimerTick
  <2>1. UNCHANGED <<pc, live, at>> /\ mainPc' = "shutdown" /\ pc[TimerTick] = "done"
        /\ mainPc = "joinTick"
    BY <1>2 DEF JoinTimerTick, threadVars
  <2>2. at = 1 /\ \A t \in Thread : pc[t] = "done"
    BY <2>1 DEF Phases, TickStopped, Thread
  <2>3. TornDown'
    BY <2>1, <2>2, ShutdownFacts DEF TornDown
  <2>. QED BY <2>1, <2>3 DEF SingletonsOutliveThreads, CleanExit
<1>3. CASE Launch
  <2>1. UNCHANGED live /\ mainPc' \in {"launch", "serve"}
    BY <1>3 DEF Launch, Advance
  <2>2. \A t \in Thread : pc'[t] = pc[t] \/ pc'[t] = "setup"
    BY <1>3 DEF Launch, Goto, TypeOK
  <2>. QED BY <2>1, <2>2 DEF TornDown, SingletonsOutliveThreads, CleanExit
<1>4. CASE UNCHANGED pc /\ live \subseteq live' /\ mainPc' \notin {"shutdown", "done"}
  BY <1>4 DEF TornDown, SingletonsOutliveThreads, CleanExit
<1>. QED
  BY <1>1, <1>2, <1>3, <1>4 DEF Main, InitializeFails, ServerReturns, PostEntry,
     StartWebHandler, PreCreateInbox, BroadcastTerminate, Join,
     SendTerminateToTimerTick, Advance, threadVars

\* A thread that runs only adds singletons, those it binds among them.
LEMMA RunSInv ==
    ASSUME IInv, SInv, NEW t \in Thread, Run(t)
    PROVE  SInv'
<1>. USE DEF IInv, SInv
<1>1. /\ UNCHANGED <<mainPc, at>>
      /\ pc[t] # "done"
      /\ \A u \in Thread \ {t} : pc'[u] = pc[u]
  BY RunFrame
<1>2. mainPc \notin {"shutdown", "done"}
  BY <1>1 DEF TornDown
<1>3. live \subseteq live'
  BY DEF Run, SetUp, CheckInbox, Wake, Work, DeleteInternal, Exit, OpenGate, Receive,
     ReportCheck, ReportFollow, Tick
<1>4. /\ Binds(t) \subseteq live'
      /\ pc'[t] \in {"report", "follow"} => ReportBinds \subseteq live'
  <2>1. CASE SetUp(t)
    BY <2>1 DEF SetUp, Goto, TypeOK
  <2>2. CASE ~SetUp(t)
    <3>1. pc[t] \notin {"unborn", "setup", "done"}
      BY <2>2 DEF Run, CheckInbox, Wake, Work, DeleteInternal, Exit, OpenGate, Receive,
         ReportCheck, ReportFollow, Tick
    <3>2. pc'[t] \in {"report", "follow"} =>
             pc[t] \in {"report", "follow"} \/ ReportBinds \subseteq live'
      BY <2>2 DEF Run, CheckInbox, Wake, Work, DeleteInternal, Exit, OpenGate, Receive,
         ReportCheck, ReportFollow, NextRead, Tick, Goto, TypeOK
    <3>. QED BY <1>3, <3>1, <3>2 DEF SingletonsOutliveThreads
  <2>. QED BY <2>1, <2>2
<1>5. SingletonsOutliveThreads'
  <2>. SUFFICES ASSUME NEW u \in Thread
                PROVE  /\ pc'[u] \notin {"unborn", "setup", "done"} => Binds(u) \subseteq live'
                       /\ pc'[u] \in {"report", "follow"} => ReportBinds \subseteq live'
    BY DEF SingletonsOutliveThreads, Binds, ReportBinds
  <2>1. CASE u = t
    BY <1>4, <2>1
  <2>2. CASE u # t
    BY <1>1, <1>3, <2>2 DEF SingletonsOutliveThreads
  <2>. QED BY <2>1, <2>2
<1>. QED BY <1>1, <1>2, <1>5 DEF TornDown, CleanExit

\* Creation and tear-down of the singletons keep their invariant.
THEOREM SingletonsSafe == Spec => []SInv
<1>1. Init => SInv
  BY DEF Init, SInv, TornDown, SingletonsOutliveThreads, CleanExit
<1>2. IInv /\ SInv /\ [Next]_vars => SInv'
  <2>. SUFFICES ASSUME IInv, SInv, [Next]_vars PROVE SInv'
    OBVIOUS
  <2>1. CASE UNCHANGED vars
    BY <2>1 DEF vars, threadVars, SInv, TornDown, SingletonsOutliveThreads, CleanExit
  <2>. QED BY <2>1, MainSInv, RunSInv DEF Next, Over
<1>. QED BY <1>1, <1>2, LifecycleSafe, PTL DEF Spec

\* No singleton is torn down under a thread that works with it.
THEOREM SingletonsStay == Spec => []SingletonsOutliveThreads
<1>1. SInv => SingletonsOutliveThreads
  BY DEF SInv
<1>. QED BY <1>1, SingletonsSafe, PTL

\* The tear-down leaves nothing behind and brings nothing back.
THEOREM NothingStays == Spec => []CleanExit
<1>1. SInv => CleanExit
  BY DEF SInv
<1>. QED BY <1>1, SingletonsSafe, PTL

\* Terminate reaches every thread, and none is blocked for good on the way there,
\* for any set of threads in any order.
THEOREM NobodyStranded == Spec => []NobodyIsStranded
<1>1. NobodyMissesTerminate /\ WaitersAreServed => NobodyIsStranded
  BY DEF NobodyIsStranded
<1>. QED BY <1>1, TerminateReachesAll, NoStrandedThread, PTL

\* Services, singletons and threads go in the order in which they are needed, and
\* nothing is left or brought back.
THEOREM OrderlyTearDown == Spec => []TearDownIsOrderly
<1>1. NoServiceOfDeadThread /\ SingletonsOutliveThreads /\ CleanExit => TearDownIsOrderly
  BY DEF TearDownIsOrderly
<1>. QED BY <1>1, ServicesWithdrawn, SingletonsStay, NothingStays, PTL
=============================================================================
