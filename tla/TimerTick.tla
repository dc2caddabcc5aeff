----------------------------- MODULE TimerTick -----------------------------
(***************************************************************************)
(* The tick service of src/src/timerTick.{h,cpp}: a singleton that owns a  *)
(* registry cookie -> TimerTickService*, and a thread that, every 12 ms,   *)
(* takes the registry lock and counts every started service down, firing   *)
(* the ones that reach zero.                                               *)
(*                                                                         *)
(* The services are objects of other threads (on the stack of a thread     *)
(* loop, or inside a dictionary entry), so the registry holds raw pointers *)
(* to objects it does not own.  Owners register, start and unregister      *)
(* under the registry lock, but read and reset the fired flag without it,  *)
(* so their reads interleave with the visits of one tick.  The Terminate   *)
(* branch of the loop is in module Lifecycle.                              *)
(***************************************************************************)
EXTENDS Integers

CONSTANTS
    Service,    \* the TimerTickService objects that may ever exist
    Interval,   \* Interval[s]: the interval given to the constructor, in ms
    Periodic,   \* Periodic[s]: the periodic flag given to the constructor
    Kind,       \* Kind[s]: "bool", "cv" or "message"
    HasCond,    \* the message services constructed with a condFunction
    MaxCookie,  \* bound: the last cookie handed out
    MaxMsgs     \* bound: tick messages waiting in one inbox

ASSUME TimerTickAssumption ==
    /\ Interval \in [Service -> Int]
    /\ Periodic \in [Service -> BOOLEAN]
    /\ Kind \in [Service -> {"bool", "cv", "message"}]
    /\ HasCond \subseteq Service
    /\ MaxCookie \in Nat
    /\ MaxMsgs \in Nat
    \* as constructed throughout src/: a message service is always periodic,
    \* and so is every service a thread blocks on
    /\ \A s \in Service : Kind[s] # "bool" => Periodic[s]

nullCookie == 0
millisPerTick == 12

VARIABLES
    alive,              \* the service objects that exist
    cookie,             \* cookie[s], nullCookie when not registered
    ticksLeft,          \* ticksLeft[s], 0 when stopped or expired
    expired,            \* the latched flag of the bool and cv services
    waiting,            \* the cv services whose owner is blocked in wait()
    ready,              \* what the condFunction of s would answer
    msgs,               \* tick messages waiting in the inbox s feeds
    nextTimerTickId,    \* the next cookie
    timerTickServices,  \* the registry: cookie -> service
    ticking,            \* the loop holds instanceMutex
    toVisit,            \* cookies this tick has not visited yet
    age,                \* history: ticks that visited s since it was started
    firedAt             \* history: age at which s last fired, 0 if never

ownerVars == <<alive, waiting, ready>>
registryVars == <<cookie, nextTimerTickId, timerTickServices>>
loopVars == <<ticking, toVisit>>
countVars == <<ticksLeft, age, firedAt>>
signalVars == <<expired, msgs>>
vars == <<ownerVars, registryVars, loopVars, countVars, signalVars>>

Registered(s) == cookie[s] # nullCookie

Init ==
    /\ alive = {}
    /\ cookie = [s \in Service |-> nullCookie]
    /\ ticksLeft = [s \in Service |-> 0]
    /\ expired = [s \in Service |-> FALSE]
    /\ waiting = {}
    /\ ready = [s \in Service |-> FALSE]
    /\ msgs = [s \in Service |-> 0]
    /\ nextTimerTickId = nullCookie + 1
    /\ timerTickServices = [c \in {} |-> nullCookie]
    /\ ticking = FALSE
    /\ toVisit = {}
    /\ age = [s \in Service |-> 0]
    /\ firedAt = [s \in Service |-> 0]

-----------------------------------------------------------------------------
(* Owners of services.  A service belongs to one thread, so an owner that  *)
(* is blocked in wait() does nothing else with it.                         *)

\* A service object comes into being.  Only TimerTickServiceBool lets its
\* owner choose the initial flag (the mqtt dampers start out expired).
Construct(s) ==
    /\ s \notin alive
    /\ alive' = alive \cup {s}
    /\ \E e \in IF Kind[s] = "bool" THEN BOOLEAN ELSE {FALSE} :
          expired' = [expired EXCEPT ![s] = e]
    /\ age' = [age EXCEPT ![s] = 0]
    /\ firedAt' = [firedAt EXCEPT ![s] = 0]
    /\ UNCHANGED <<waiting, ready, registryVars, loopVars, ticksLeft, msgs>>

\* A service object goes away: every owner unregisters it first.
Destroy(s) ==
    /\ s \in alive \ waiting
    /\ ~Registered(s)
    /\ alive' = alive \ {s}
    /\ msgs' = [msgs EXCEPT ![s] = 0]
    /\ UNCHANGED <<waiting, ready, registryVars, loopVars, countVars, expired>>

\* Fault: the tick in progress is not added.
StartTicks_noRounding(s) == IF Interval[s] >= 0 THEN Interval[s] \div millisPerTick ELSE 1

\* The countdown _startTimerTickService2 stores for a service.
StartTicks(s) ==
    IF Interval[s] >= 0 THEN 1 + Interval[s] \div millisPerTick ELSE 1

StartTimerTickService2(s) ==
    /\ ticksLeft' = [ticksLeft EXCEPT ![s] = StartTicks(s)]
    /\ age' = [age EXCEPT ![s] = 0]

\* registerTimerTickService throws for a registered service; only the mqtt
\* motion damper (a bool) is registered without being started.
Register(s, start) ==
    /\ ~ticking
    /\ s \in alive \ waiting
    /\ ~Registered(s)
    /\ Kind[s] # "bool" => start
    /\ nextTimerTickId <= MaxCookie
    /\ cookie' = [cookie EXCEPT ![s] = nextTimerTickId]
    /\ nextTimerTickId' = nextTimerTickId + 1
    /\ timerTickServices' =
          [c \in DOMAIN timerTickServices \cup {nextTimerTickId} |->
              IF c = nextTimerTickId THEN s ELSE timerTickServices[c]]
    /\ IF start THEN StartTimerTickService2(s) ELSE UNCHANGED <<ticksLeft, age>>
    /\ UNCHANGED <<ownerVars, loopVars, firedAt, signalVars>>

\* startTimerTickService: an unknown cookie is answered false and ignored.
Start(c) ==
    /\ ~ticking
    /\ c \in DOMAIN timerTickServices
    /\ timerTickServices[c] \notin waiting
    /\ StartTimerTickService2(timerTickServices[c])
    /\ UNCHANGED <<ownerVars, registryVars, loopVars, firedAt, signalVars>>

\* Fault: the registry lock is not taken.
Unregister_unlocked(c) ==
    /\ c \in DOMAIN timerTickServices
    /\ timerTickServices[c] \notin waiting
    /\ cookie' = [cookie EXCEPT ![timerTickServices[c]] = nullCookie]
    /\ ticksLeft' = [ticksLeft EXCEPT ![timerTickServices[c]] = 0]
    /\ timerTickServices' =
          [d \in DOMAIN timerTickServices \ {c} |-> timerTickServices[d]]
    /\ UNCHANGED <<ownerVars, nextTimerTickId, loopVars, age, firedAt, signalVars>>

\* unregisterTimerTickService: an unknown cookie is a noop.
Unregister(c) ==
    /\ ~ticking
    /\ c \in DOMAIN timerTickServices
    /\ LET s == timerTickServices[c]
       IN  /\ s \notin waiting
           /\ cookie' = [cookie EXCEPT ![s] = nullCookie]
           /\ ticksLeft' = [ticksLeft EXCEPT ![s] = 0]
    /\ timerTickServices' =
          [d \in DOMAIN timerTickServices \ {c} |-> timerTickServices[d]]
    /\ UNCHANGED <<ownerVars, nextTimerTickId, loopVars, age, firedAt, signalVars>>

\* TimerTickServiceBool::getAndResetExpired, when the flag is up.
GetAndResetExpired(s) ==
    /\ s \in alive
    /\ Kind[s] = "bool"
    /\ expired[s]
    /\ expired' = [expired EXCEPT ![s] = FALSE]
    /\ UNCHANGED <<ownerVars, registryVars, loopVars, countVars, msgs>>

\* TimerTickServiceCv::wait: the owner blocks, then takes the latched flag.
Wait(s) ==
    /\ s \in alive \ waiting
    /\ Kind[s] = "cv"
    /\ Registered(s)
    /\ waiting' = waiting \cup {s}
    /\ UNCHANGED <<alive, ready, registryVars, loopVars, countVars, signalVars>>

WaitReturns(s) ==
    /\ s \in waiting
    /\ expired[s]
    /\ expired' = [expired EXCEPT ![s] = FALSE]
    /\ waiting' = waiting \ {s}
    /\ UNCHANGED <<alive, ready, registryVars, loopVars, countVars, msgs>>

\* The owner of a conditional message service opens or closes the gate.
SetReady(s) ==
    /\ s \in alive \cap HasCond
    /\ ready' = [ready EXCEPT ![s] = ~ready[s]]
    /\ UNCHANGED <<alive, waiting, registryVars, loopVars, countVars, signalVars>>

\* The owner takes a tick message out of its inbox.
TakeMessage(s) ==
    /\ msgs[s] > 0
    /\ msgs' = [msgs EXCEPT ![s] = @ - 1]
    /\ UNCHANGED <<ownerVars, registryVars, loopVars, countVars, expired>>

-----------------------------------------------------------------------------
(* The tick loop: one tick is TickBegin, a visit of every registered       *)
(* service in the arbitrary order of an unordered_map, and TickEnd.        *)

TickBegin ==
    /\ ~ticking
    /\ ticking' = TRUE
    /\ toVisit' = DOMAIN timerTickServices
    /\ UNCHANGED <<ownerVars, registryVars, countVars, signalVars>>

\* expireTrigger of the three kinds of service.
ExpireTrigger(s) ==
    IF Kind[s] = "message"
    THEN /\ msgs' = IF s \in HasCond => ready[s]
                    THEN [msgs EXCEPT ![s] = @ + 1] ELSE msgs
         /\ UNCHANGED expired
    ELSE /\ expired' = [expired EXCEPT ![s] = TRUE]
         /\ UNCHANGED msgs

\* Fault: a periodic service is not started again.
Fire_noRestart(s) ==
    /\ ticksLeft[s] = 1
    /\ msgs[s] < MaxMsgs
    /\ ExpireTrigger(s)
    /\ firedAt' = [firedAt EXCEPT ![s] = age[s] + 1]
    /\ ticksLeft' = [ticksLeft EXCEPT ![s] = 0]
    /\ age' = [age EXCEPT ![s] = 0]

\* The visit of a service on which the countdown reaches zero.
Fire(s) ==
    /\ ticksLeft[s] = 1
    /\ msgs[s] < MaxMsgs
    /\ ExpireTrigger(s)
    /\ firedAt' = [firedAt EXCEPT ![s] = age[s] + 1]
    /\ IF Periodic[s] /\ Registered(s)
       THEN StartTimerTickService2(s)
       ELSE /\ ticksLeft' = [ticksLeft EXCEPT ![s] = 0]
            /\ age' = [age EXCEPT ![s] = 0]

\* Fault: a copy of the count is decremented.
CountDown_copy(s) ==
    /\ ticksLeft[s] > 1
    /\ UNCHANGED <<countVars, signalVars>>

CountDown(s) ==
    /\ ticksLeft[s] > 1
    /\ ticksLeft' = [ticksLeft EXCEPT ![s] = @ - 1]
    /\ age' = [age EXCEPT ![s] = @ + 1]
    /\ UNCHANGED <<firedAt, signalVars>>

Skip(s) ==
    /\ ticksLeft[s] = 0
    /\ UNCHANGED <<countVars, signalVars>>

TickVisit(c) ==
    /\ ticking
    /\ c \in toVisit
    /\ toVisit' = toVisit \ {c}
    /\ LET s == timerTickServices[c] IN Fire(s) \/ CountDown(s) \/ Skip(s)
    /\ UNCHANGED <<ownerVars, registryVars, ticking>>

TickEnd ==
    /\ ticking
    /\ toVisit = {}
    /\ ticking' = FALSE
    /\ UNCHANGED <<ownerVars, registryVars, toVisit, countVars, signalVars>>

Tick == TickBegin \/ (\E c \in toVisit : TickVisit(c)) \/ TickEnd

Next ==
    \/ \E s \in Service :
          \/ Construct(s) \/ Destroy(s)
          \/ \E start \in BOOLEAN : Register(s, start)
          \/ GetAndResetExpired(s)
          \/ Wait(s) \/ WaitReturns(s)
          \/ SetReady(s) \/ TakeMessage(s)
    \/ \E c \in DOMAIN timerTickServices : Start(c) \/ Unregister(c)
    \/ Tick

Spec == Init /\ [][Next]_vars

\* The tick thread never blocks for good: it sleeps 12 ms and takes a lock
\* that owners hold only for the length of one call.  A thread whose wait()
\* is satisfied returns from it, and one with mail reads it.
Fairness ==
    /\ WF_vars(Tick)
    /\ \A s \in Service : WF_vars(WaitReturns(s)) /\ WF_vars(TakeMessage(s))

FairSpec == Spec /\ Fairness

-----------------------------------------------------------------------------
(* Properties.                                                             *)

\* The types of the state: registry, cookies and counts of ticks.
TypeOK ==
    /\ alive \in SUBSET Service
    /\ cookie \in [Service -> Nat]
    /\ ticksLeft \in [Service -> Nat]
    /\ expired \in [Service -> BOOLEAN]
    /\ waiting \in SUBSET Service
    /\ ready \in [Service -> BOOLEAN]
    /\ msgs \in [Service -> Nat]
    /\ nextTimerTickId \in Nat \ {0}
    /\ DOMAIN timerTickServices \subseteq Nat \ {0}
    /\ timerTickServices \in [DOMAIN timerTickServices -> Service]
    /\ ticking \in BOOLEAN
    /\ toVisit \in SUBSET Nat
    /\ age \in [Service -> Nat]
    /\ firedAt \in [Service -> Nat]

\* The registry and the cookies kept in the services describe the same
\* relation, one to one: a cookie found in the registry leads to the service
\* that carries it, a service that carries a cookie is found under it, and no
\* cookie that will be handed out later is already in use.
RegistryMatchesCookies ==
    /\ \A c \in DOMAIN timerTickServices :
          cookie[timerTickServices[c]] = c /\ c < nextTimerTickId
    /\ \A s \in Service : Registered(s) =>
          /\ cookie[s] \in DOMAIN timerTickServices
          /\ timerTickServices[cookie[s]] = s

\* The tick loop never follows a pointer to a service that was destroyed:
\* everything it has still to visit is registered, and everything registered
\* exists.
NoDanglingService ==
    /\ \A c \in DOMAIN timerTickServices : timerTickServices[c] \in alive
    /\ toVisit \subseteq DOMAIN timerTickServices

\* A service fires on the first tick by which its interval is over when the
\* ticks are counted from its (last) start: never a whole tick early, never a
\* tick late.  A negative interval fires on the next tick.
FiresOnTime ==
    \A s \in Service : firedAt[s] # 0 =>
        IF Interval[s] >= 0
        THEN /\ millisPerTick * (firedAt[s] - 1) <= Interval[s]
             /\ Interval[s] < millisPerTick * firedAt[s]
        ELSE firedAt[s] = 1

\* Whoever is blocked in TimerTickServiceCv::wait() can still be woken: the
\* wake-up is latched already, or the service is registered and counting.
WaiterWillBeWoken ==
    \A s \in waiting : expired[s] \/ (Registered(s) /\ ticksLeft[s] > 0)

\* A thread blocked in wait() gets its wake-up.
WaitReturnsEventually ==
    \A s \in Service : s \in waiting ~> s \notin waiting

\* The registry can be followed at any moment of a tick: what it points to is
\* there, and is what its owner knows under that cookie.
RegistryIsSound == RegistryMatchesCookies /\ NoDanglingService
=============================================================================
