-------------------------- MODULE TimerTickProofs --------------------------
(***************************************************************************)
(* Safety of the tick service for any set of services, any intervals and   *)
(* any bounds.  The inductive invariant adds to the checked invariants     *)
(* what ties the countdown of a service to its registration.               *)
(***************************************************************************)
EXTENDS TimerTick, TLAPS

\* What the checked invariants need to be inductive: a running countdown
\* belongs to a registered service and accounts for the ticks seen so far, a
\* registered cv or message service never stops counting, only the owner of a
\* registered cv service is ever blocked, and outside a tick nothing is left
\* to visit.
Countdowns ==
    /\ \A s \in Service : ticksLeft[s] > 0 =>
          Registered(s) /\ age[s] + ticksLeft[s] = StartTicks(s)
    /\ \A s \in Service : Registered(s) /\ Kind[s] # "bool" => ticksLeft[s] > 0
    /\ \A s \in waiting : Kind[s] = "cv" /\ Registered(s)
    /\ ~ticking => toVisit = {}

IInv ==
    /\ TypeOK
    /\ RegistryMatchesCookies
    /\ NoDanglingService
    /\ Countdowns
    /\ FiresOnTime

\* The countdown stored by _startTimerTickService2 is positive, and is the
\* number of the first 12 ms tick that ends after the interval is over.
LEMMA StartTicksIsRight ==
    ASSUME NEW s \in Service
    PROVE  /\ StartTicks(s) \in Nat \ {0}
           /\ Interval[s] >= 0 =>
                 /\ millisPerTick * (StartTicks(s) - 1) <= Interval[s]
                 /\ Interval[s] < millisPerTick * StartTicks(s)
           /\ Interval[s] < 0 => StartTicks(s) = 1
<1>1. Interval[s] \in Int
  BY TimerTickAssumption
<1>2. \A i \in Int : i >= 0 => /\ i \div 12 \in Nat
                               /\ 12 * (i \div 12) <= i
                               /\ i < 12 * (i \div 12 + 1)
  BY SMT
<1>. QED
  BY <1>1, <1>2 DEF StartTicks, millisPerTick

\* The tick service starts out well.
LEMMA InitIInv == Init => IInv
<1>. SUFFICES ASSUME Init PROVE IInv
  OBVIOUS
<1>. USE DEF Init, nullCookie
<1>1. DOMAIN timerTickServices = {}
  OBVIOUS
<1>2. TypeOK
  <2>1. expired \in [Service -> BOOLEAN] /\ ready \in [Service -> BOOLEAN]
    BY Zenon
  <2>2. timerTickServices \in [DOMAIN timerTickServices -> Service]
    BY <1>1
  <2>3. /\ cookie \in [Service -> Nat] /\ ticksLeft \in [Service -> Nat]
        /\ msgs \in [Service -> Nat] /\ age \in [Service -> Nat]
        /\ firedAt \in [Service -> Nat] /\ nextTimerTickId \in Nat \ {0}
    OBVIOUS
  <2>4. alive = {} /\ waiting = {} /\ toVisit = {} /\ ticking \in BOOLEAN
    OBVIOUS
  <2>. QED BY <1>1, <2>1, <2>2, <2>3, <2>4, Zenon DEF TypeOK
<1>3. RegistryMatchesCookies /\ NoDanglingService
  BY <1>1 DEF RegistryMatchesCookies, NoDanglingService, Registered
<1>4. Countdowns /\ FiresOnTime
  <2>1. \A s \in Service : ticksLeft[s] = 0 /\ cookie[s] = 0 /\ firedAt[s] = 0
    OBVIOUS
  <2>. QED BY <2>1 DEF Countdowns, FiresOnTime, Registered
<1>. QED BY <1>2, <1>3, <1>4 DEF IInv

\* Every step of an owner or of the tick loop keeps the inductive invariant.
LEMMA NextIInv == IInv /\ [Next]_vars => IInv'
<1>. SUFFICES ASSUME IInv, [Next]_vars PROVE IInv'
  OBVIOUS
<1>. USE TimerTickAssumption DEF nullCookie, Registered
<1>1. ASSUME NEW s \in Service, Construct(s) PROVE IInv'
  <2>1. PICK e \in BOOLEAN : expired' = [expired EXCEPT ![s] = e]
    BY <1>1 DEF Construct
  <2>2. expired' \in [Service -> BOOLEAN]
    BY <2>1 DEF IInv, TypeOK
  <2>. QED
    BY <1>1, <2>2 DEF IInv, TypeOK, RegistryMatchesCookies, NoDanglingService,
       Countdowns, FiresOnTime, Construct, registryVars, loopVars
<1>2. ASSUME NEW s \in Service, Destroy(s) PROVE IInv'
  BY <1>2 DEF IInv, TypeOK, RegistryMatchesCookies, NoDanglingService,
     Countdowns, FiresOnTime, Destroy, registryVars, loopVars, countVars
<1>3. ASSUME NEW s \in Service, NEW start \in BOOLEAN, Register(s, start)
      PROVE  IInv'
  <2>. USE DEF ownerVars, loopVars, signalVars
  <2>1. TypeOK'
    BY <1>3, StartTicksIsRight DEF IInv, TypeOK, Register, StartTimerTickService2
  <2>2. RegistryMatchesCookies'
    BY <1>3 DEF IInv, TypeOK, RegistryMatchesCookies, Register
  <2>3. NoDanglingService'
    BY <1>3 DEF IInv, TypeOK, NoDanglingService, Register
  <2>4. Countdowns'
    BY <1>3, StartTicksIsRight DEF IInv, TypeOK, Countdowns, Register,
       StartTimerTickService2, StartTicks
  <2>5. FiresOnTime'
    BY <1>3 DEF IInv, FiresOnTime, Register
  <2>. QED BY <2>1, <2>2, <2>3, <2>4, <2>5 DEF IInv
<1>4. ASSUME NEW c \in DOMAIN timerTickServices, Start(c) PROVE IInv'
  BY <1>4, StartTicksIsRight DEF IInv, TypeOK, RegistryMatchesCookies,
     NoDanglingService, Countdowns, FiresOnTime, Start, StartTimerTickService2,
     ownerVars, registryVars, loopVars, signalVars, StartTicks
<1>5. ASSUME NEW c \in DOMAIN timerTickServices, Unregister(c) PROVE IInv'
  BY <1>5 DEF IInv, TypeOK, RegistryMatchesCookies, NoDanglingService,
     Countdowns, FiresOnTime, Unregister, ownerVars, loopVars, signalVars
<1>6. ASSUME NEW s \in Service,
             \/ GetAndResetExpired(s) \/ Wait(s) \/ WaitReturns(s)
             \/ SetReady(s) \/ TakeMessage(s)
      PROVE  IInv'
  <2>1. /\ UNCHANGED <<alive, registryVars, loopVars, countVars>>
        /\ waiting' \subseteq waiting \cup {s}
        /\ s \in waiting' => s \in waiting \/ (Kind[s] = "cv" /\ Registered(s))
    BY <1>6 DEF GetAndResetExpired, Wait, WaitReturns, SetReady, TakeMessage,
       ownerVars, countVars
  <2>2. expired' \in [Service -> BOOLEAN] /\ ready' \in [Service -> BOOLEAN]
    BY <1>6 DEF IInv, TypeOK, GetAndResetExpired, Wait, WaitReturns, SetReady,
       TakeMessage, ownerVars, signalVars
  <2>3. msgs' \in [Service -> Nat]
    BY <1>6 DEF IInv, TypeOK, GetAndResetExpired, Wait, WaitReturns, SetReady,
       TakeMessage, signalVars
  <2>4. TypeOK'
    BY <2>1, <2>2, <2>3 DEF IInv, TypeOK, registryVars, loopVars, countVars
  <2>5. RegistryMatchesCookies' /\ NoDanglingService' /\ FiresOnTime'
    BY <2>1 DEF IInv, RegistryMatchesCookies, NoDanglingService, FiresOnTime,
       registryVars, loopVars, countVars
  <2>6. Countdowns'
    BY <2>1 DEF IInv, Countdowns, registryVars, loopVars, countVars
  <2>. QED BY <2>4, <2>5, <2>6 DEF IInv
<1>7. ASSUME TickBegin \/ TickEnd PROVE IInv'
  <2>1. /\ UNCHANGED <<ownerVars, registryVars, countVars, signalVars>>
        /\ toVisit' \subseteq DOMAIN timerTickServices
        /\ ticking' \in BOOLEAN
        /\ ~ticking' => toVisit' = {}
    BY <1>7 DEF TickBegin, TickEnd
  <2>2. TypeOK'
    BY <2>1 DEF IInv, TypeOK, ownerVars, registryVars, countVars, signalVars
  <2>3. RegistryMatchesCookies' /\ NoDanglingService' /\ FiresOnTime'
    BY <2>1 DEF IInv, RegistryMatchesCookies, NoDanglingService, FiresOnTime,
       ownerVars, registryVars, countVars
  <2>4. Countdowns'
    BY <2>1 DEF IInv, Countdowns, ownerVars, registryVars, countVars
  <2>. QED BY <2>2, <2>3, <2>4 DEF IInv
<1>8. ASSUME NEW c \in toVisit, TickVisit(c) PROVE IInv'
  <2>. DEFINE s == timerTickServices[c]
  <2>1. s \in Service /\ cookie[s] = c /\ c # 0
    BY DEF IInv, TypeOK, NoDanglingService, RegistryMatchesCookies
  <2>2. /\ UNCHANGED <<ownerVars, registryVars, ticking>>
        /\ toVisit' = toVisit \ {c}
        /\ ticking
    BY <1>8 DEF TickVisit
  <2>3. CASE Fire(s)
    <3>. USE <2>3 DEF Fire
    <3>1. ticksLeft' = [ticksLeft EXCEPT ![s] = IF Periodic[s] THEN StartTicks(s) ELSE 0]
          /\ age' = [age EXCEPT ![s] = 0]
      BY <2>1 DEF StartTimerTickService2
    <3>2. firedAt' = [firedAt EXCEPT ![s] = StartTicks(s)]
      <4>1. age[s] + 1 = StartTicks(s)
        BY <2>1 DEF IInv, Countdowns, TypeOK
      <4>. QED BY <4>1
    <3>3. TypeOK'
      <4>1. expired' \in [Service -> BOOLEAN]
        <5>1. expired \in [Service -> BOOLEAN]
          BY DEF IInv, TypeOK
        <5>2. expired' = expired \/ expired' = [expired EXCEPT ![s] = TRUE]
          BY DEF ExpireTrigger
        <5>. QED BY <5>1, <5>2, <2>1, Zenon
      <4>3. msgs' \in [Service -> Nat]
        BY <2>1 DEF IInv, TypeOK, ExpireTrigger
      <4>2. ticksLeft' \in [Service -> Nat] /\ firedAt' \in [Service -> Nat]
        BY <2>1, <3>1, <3>2, StartTicksIsRight DEF IInv, TypeOK
      <4>. QED
        BY <2>2, <3>1, <4>1, <4>2, <4>3 DEF IInv, TypeOK, ownerVars, registryVars
    <3>4. RegistryMatchesCookies' /\ NoDanglingService'
      BY <2>2 DEF IInv, RegistryMatchesCookies, NoDanglingService, ownerVars,
         registryVars
    <3>5. Countdowns'
      BY <2>1, <2>2, <3>1, StartTicksIsRight
         DEF IInv, TypeOK, Countdowns, StartTicks, ownerVars, registryVars
    <3>6. FiresOnTime'
      BY <2>1, <3>2, StartTicksIsRight DEF IInv, TypeOK, FiresOnTime
    <3>. QED BY <3>3, <3>4, <3>5, <3>6 DEF IInv
  <2>4. CASE CountDown(s)
    BY <2>1, <2>2, <2>4 DEF IInv, TypeOK, RegistryMatchesCookies,
       NoDanglingService, Countdowns, FiresOnTime, CountDown, StartTicks,
       ownerVars, registryVars, signalVars
  <2>5. CASE Skip(s)
    BY <2>1, <2>2, <2>5 DEF IInv, TypeOK, RegistryMatchesCookies,
       NoDanglingService, Countdowns, FiresOnTime, Skip,
       ownerVars, registryVars, countVars, signalVars
  <2>. QED BY <1>8, <2>3, <2>4, <2>5 DEF TickVisit
<1>9. ASSUME UNCHANGED vars PROVE IInv'
  BY <1>9 DEF IInv, TypeOK, RegistryMatchesCookies, NoDanglingService,
     Countdowns, FiresOnTime, vars, ownerVars, registryVars, loopVars,
     countVars, signalVars
<1>. QED
  BY <1>1, <1>2, <1>3, <1>4, <1>5, <1>6, <1>7, <1>8, <1>9 DEF Next, Tick

\* The inductive invariant holds in every behaviour of the tick service.
THEOREM TimerTickSafe == Spec => []IInv
  BY InitIInv, NextIInv, PTL DEF Spec

\* Every variable keeps its type: in particular no countdown underflows.
THEOREM TypeCorrect == Spec => []TypeOK
<1>1. IInv => TypeOK
  BY DEF IInv
<1>. QED BY <1>1, TimerTickSafe, PTL

\* The registry and the cookies of the services always agree, and a cookie
\* is never handed out twice, whatever the owners and the tick loop do.
THEOREM RegistryConsistent == Spec => []RegistryMatchesCookies
<1>1. IInv => RegistryMatchesCookies
  BY DEF IInv
<1>. QED BY <1>1, TimerTickSafe, PTL

\* The tick loop never dereferences a destroyed service, although the
\* registry holds raw pointers to objects of other threads.
THEOREM NoDangling == Spec => []NoDanglingService
<1>1. IInv => NoDanglingService
  BY DEF IInv
<1>. QED BY <1>1, TimerTickSafe, PTL

\* Every service fires on the tick its interval asks for.
THEOREM TimelyFiring == Spec => []FiresOnTime
<1>1. IInv => FiresOnTime
  BY DEF IInv
<1>. QED BY <1>1, TimerTickSafe, PTL

\* Nobody is ever blocked in wait() on a service that has stopped counting.
THEOREM NoStrandedWaiter == Spec => []WaiterWillBeWoken
<1>1. IInv => WaiterWillBeWoken
  BY DEF IInv, TypeOK, Countdowns, WaiterWillBeWoken
<1>. QED BY <1>1, TimerTickSafe, PTL

\* The tick loop may follow the registry at any moment: every pointer in it leads
\* to the service its owner registered under that cookie.
THEOREM RegistrySound == Spec => []RegistryIsSound
<1>1. RegistryMatchesCookies /\ NoDanglingService => RegistryIsSound
  BY DEF RegistryIsSound
<1>. QED BY <1>1, RegistryConsistent, NoDangling, PTL
=============================================================================
