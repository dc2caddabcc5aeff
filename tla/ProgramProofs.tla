--------------------------- MODULE ProgramProofs ---------------------------
(***************************************************************************)
(* What main() leaves behind and what its threads find, for any number of  *)
(* workers, requests, chips and pins, whichever step fails.  The invariant *)
(* says, for every place main() may be in, what exactly is allocated, open *)
(* and running there: the devices by DeviceStages, the HTTP server by      *)
(* ServerStages and WorkerStages, what is going on together by Phases.     *)
(*                                                                         *)
(* Behind that, what the functions of Forms and Status make of inputs of   *)
(* any length: forms arrive as they were sent, the status is what the host *)
(* says or zeros, and the document is JSON.                                *)
(***************************************************************************)
EXTENDS Program, FiniteSetTheorems, WellFoundedInduction, TLAPS

Alive == end = "no" /\ killed = "no"

-----------------------------------------------------------------------------
(* The devices.                                                            *)

Unopened == {"probe", "examine"}
ChipOpen == {"validate", "valuePath", "mmap", "spi", "configure", "adc", "search", "up"}
Initializing == Unopened \cup ChipOpen \cup {"failed"}
Destroying == {"destroy", "destroyGpio", "destroyValuePath", "gone"}

\* The members of the objects, by how far main() has come with them.
DeviceStages ==
    /\ dev = "examine" => candidates > 0
    /\ dev \in Unopened => chip_ = "null"
    /\ dev \in ChipOpen => chip_ = "open"
    /\ dev \in Unopened \cup {"validate", "valuePath", "mmap"} => registers_ = "null"
    /\ dev \in {"spi", "configure", "adc", "search", "up"} /\ build.mapped => registers_ = "mapped"
    /\ dev \in Unopened \cup {"validate", "valuePath", "mmap", "spi"} => fd_ = -1
    /\ dev \in {"configure"} => fd_ = 0
    /\ dev \in {"adc", "search", "up"} /\ build.spi => fd_ = 0
    /\ dev = "up" => devicePath_ = "found"
    /\ dev \in {"destroyGpio", "destroyValuePath", "gone"} => fd_ = -1
    /\ dev \in {"destroyValuePath", "gone"} =>
          chip_ = "null" /\ \A p \in Pin : lines_[p] = "none"
    /\ dev = "gone" => registers_ = "null"

\* A line has the direction of the thread it belongs to, and a thread that has
\* begun finds its device ready.
UserStages ==
    \A t \in User :
        /\ user[t] \in {"configure", "run"} => dev = "up"
        /\ \A p \in PinSet(t) : lines_[p] \in {"none", Direction(t)}
        /\ user[t] = "run" => DeviceIsReady(t)

DevInv == BackendTypeOK /\ DeviceStages /\ UserStages /\ DevicesAreOwned

-----------------------------------------------------------------------------
(* The server.                                                             *)

ParseStages == {"log", "conf", "options", "exited", "parsed"}
Starting == {"base", "sigint", "sighup", "socket", "bind"}
Serving == {"pair", "create", "dispatch"}
Stopping == {"stop", "free", "signals", "release"}
RunStages == {"new", "array", "workers", "done"} \cup Starting \cup Serving \cup Stopping
BothSignals == {"sigint", "sighup"}

\* What the main thread has allocated and opened, by how far it has come.
ServerStages ==
    /\ srv \in {"log", "conf", "options"} => i = 1
    /\ i <= workers
    /\ srv \in {"log", "done"} => heap["log"] = 0 /\ log_fd = -1
    /\ srv \notin {"log", "conf", "exited", "done"} => heap["log"] = 1
    /\ srv \in {"log", "conf", "done"} => heap["cfg"] = 0
    /\ srv \notin {"log", "conf", "exited", "done"} => heap["cfg"] = 1
    /\ heap["server"] = IF srv \in RunStages \ {"new", "done"} THEN 1 ELSE 0
    /\ heap["array"] = IF srv \in RunStages \ {"new", "array", "done"} THEN 1 ELSE 0
    /\ files["log"] = IF log_fd >= 0 THEN 1 ELSE 0
    /\ files["listen"] = 1 => fd >= 0 \/ srv = "bind"
    /\ srv = "bind" => files["listen"] = 1
    /\ fd >= 0 => srv \in Serving \cup Stopping
    /\ srv \in Serving => fd >= 0
    /\ srv = "sighup" => "sigint" \in signals
    /\ srv \in {"socket", "bind"} \cup Serving => signals = BothSignals

\* A worker is allocated from worker_new to worker_free ...
IsAllocated(k) ==
    \/ srv = "workers" /\ k < i
    \/ srv \in Starting \cup Serving \cup {"stop"} /\ k <= workers
    \/ srv = "free" /\ i <= k /\ k <= workers

\* ... and its ends of the pair are there from the moment they are made.
EndsOf(k) ==
    IF ~w[k].started THEN IF srv = "create" /\ k = i THEN {0, 1} ELSE {}
    ELSE IF w[k].thread # "done" THEN {0, 1}
    ELSE IF w[k].allocated = 1 THEN {1} ELSE {}

WorkerStage(k) ==
    /\ w[k].allocated = IF IsAllocated(k) THEN 1 ELSE 0
    /\ w[k].started =>
          /\ srv \in Serving \cup Stopping \cup {"done"} /\ k <= workers
          /\ srv \in {"pair", "create"} => k < i
          /\ srv \in {"stop", "free"} => fd >= 0 /\ signals = BothSignals
    /\ ~w[k].started => w[k].thread = "none"
    /\ Alive /\ w[k].started => w[k].thread # "none"
    /\ Alive /\ w[k].started /\ w[k].allocated = 0 => w[k].thread = "done"
    /\ Alive => w[k].stopSockets = EndsOf(k)
    /\ Alive => (w[k].request # <<>> <=> w[k].thread = "handler")
    /\ sockets[k] = IF w[k].stopSockets = {} THEN 0
                    ELSE IF w[k].stopSockets = {0, 1} THEN 2 ELSE 1
WorkerStages == \A k \in Worker : WorkerStage(k)

SrvInv == ServerTypeOK /\ ServerStages /\ WorkerStages

\* No worker is told to end before server_free, and who has taken the listening
\* socket from under the server is a worker that has ended.
NoneIsToldToEnd == \A k \in Worker : ~w[k].byte /\ ~w[k].loopexit
Listening ==
    /\ srv \in Stopping \cup {"done"} \/ NoneIsToldToEnd
    /\ Alive /\ fd >= 0 =>
          files["listen"] = 1 \/ (srv \in Stopping /\ \E l \in Worker : HasLeft(l))

-----------------------------------------------------------------------------
(* Both.                                                                   *)

WebStages ==
    IF main \in {"devices", "return"}
    THEN webHandlers = <<>> /\ \A h \in Handler : objects[h] = 0
    ELSE webHandlers = Table /\ \A h \in Handler : objects[h] = 1

Phases ==
    /\ main \in {"devices", "options", "server", "join", "shutdown", "return"}
    /\ main = "devices" => dev \in Initializing /\ srv = "log"
    /\ main = "options" => dev = "up" /\ srv \in ParseStages
    /\ main = "server" => dev = "up" /\ srv \in RunStages
    /\ main \in {"join", "shutdown"} => dev = "up" /\ srv = "done"
    /\ main = "return" => dev \in Destroying /\ srv \in {"log", "done"}
    /\ main \in {"devices", "options"} => \A t \in User : user[t] = "none"
    /\ main \in {"shutdown", "return"} => \A t \in User : user[t] \in {"none", "ended"}
    /\ ~Alive => /\ dev # "gone"
                 /\ \A t \in User : user[t] = "none"
                 /\ \A k \in Worker : w[k].thread = "none"

Stages ==
    /\ DevInv /\ SrvInv /\ WebTypeOK /\ WebStages /\ Phases
    /\ RequestsAreCounted /\ StopNeverKills

IInv == Stages /\ Listening

-----------------------------------------------------------------------------
(* The devices are initialized and destroyed.                              *)

LEMMA BuildIsBoolean == BackendTypeOK => build.mapped \in BOOLEAN /\ build.spi \in BOOLEAN
BY BackendAssumption DEF BackendTypeOK

LEMMA InitDevInv == BackendInit => DevInv
<1> SUFFICES ASSUME BackendInit PROVE DevInv
  OBVIOUS
<1> USE BackendAssumption DEF BackendInit
<1>1. BackendTypeOK
  BY DEF BackendTypeOK
<1>2. DeviceStages
  BY DEF DeviceStages, Unopened, ChipOpen
<1>3. UserStages
  BY DEF UserStages, Pin
<1>4. DevicesAreOwned
  BY DEF DevicesAreOwned, KernelAgrees, BurstPinsAreOwned, OnlyTheKernelAborts, Handle
<1>. QED BY <1>1, <1>2, <1>3, <1>4 DEF DevInv

\* The kernel's handles, one kind at a time.
HandleCounts ==
    /\ kernel["chip"] = IF chip_ = "open" \/ dev = "examine" THEN 1 ELSE 0
    /\ kernel["mapping"] = IF registers_ = "mapped" THEN 1 ELSE 0
    /\ kernel["gpiomem"] = IF registers_ = "mapped" \/ dev = "mmap" THEN 1 ELSE 0
    /\ kernel["spidev"] = IF fd_ >= 0 THEN 1 ELSE 0
    /\ kernel["directory"] = IF dev = "search" THEN 1 ELSE 0

LEMMA InitializeKeepsDevInv ==
    ASSUME DevInv, InitializeDevices, \A t \in User : user[t] = "none"
    PROVE  DevInv'
<1> USE DEF DevInv, DevicesAreOwned
<1>0. build.mapped \in BOOLEAN /\ build.spi \in BOOLEAN
  BY BuildIsBoolean
<1>a. user' = user /\ burst' = burst /\ end' = end /\ build' = build
  BY DEF InitializeDevices, OpenCandidate, ExamineCandidate, NoChip, ValidateRequiredOffsets,
         InitializeValueIo, MapRegisters, OpenStripDevice, ConfigureStripDevice,
         OpenIioDirectory, SearchIioDirectory, GpioFails
<1>b. \/ UNCHANGED <<lines_, requests>>
      \/ lines_' = [p \in Pin |-> "none"] /\ requests' = Released
  BY DEF InitializeDevices, OpenCandidate, ExamineCandidate, NoChip, ValidateRequiredOffsets,
         InitializeValueIo, MapRegisters, OpenStripDevice, ConfigureStripDevice,
         OpenIioDirectory, SearchIioDirectory, GpioFails, memberVars
<1>1. lines_' \in [Pin -> {"none", "input", "output"}] /\ requests' \in [Pin -> {0, 1}]
      /\ \A p \in Pin : requests'[p] = IF lines_'[p] = "none" THEN 0 ELSE 1
  BY <1>b DEF BackendTypeOK, KernelAgrees, Released
<1>2. UserStages'
  BY <1>a, <1>b, <1>1 DEF UserStages, Pin, Direction
<1>3. BurstPinsAreOwned' /\ OnlyTheKernelAborts'
  BY <1>a DEF BurstPinsAreOwned, OnlyTheKernelAborts, User
<1>. USE DEF BackendTypeOK, DeviceStages, Unopened, ChipOpen
<1>4. ASSUME OpenCandidate PROVE (BackendTypeOK /\ DeviceStages /\ HandleCounts)'
  BY <1>4, <1>0, <1>a, <1>1, BackendAssumption
     DEF OpenCandidate, KernelAgrees, HandleCounts, Handle, Open, Close, memberVars
<1>5. ASSUME ExamineCandidate PROVE (BackendTypeOK /\ DeviceStages /\ HandleCounts)'
  BY <1>5, <1>0, <1>a, <1>1, BackendAssumption
     DEF ExamineCandidate, KernelAgrees, HandleCounts, Handle, Open, Close, memberVars
<1>6. ASSUME NoChip PROVE (BackendTypeOK /\ DeviceStages /\ HandleCounts)'
  BY <1>6, <1>0, <1>a, <1>1, BackendAssumption
     DEF NoChip, GpioFails, KernelAgrees, HandleCounts, Handle, Open, Close, memberVars
<1>7. ASSUME ValidateRequiredOffsets PROVE (BackendTypeOK /\ DeviceStages /\ HandleCounts)'
  BY <1>7, <1>0, <1>a, <1>1, BackendAssumption
     DEF ValidateRequiredOffsets, GpioFails, KernelAgrees, HandleCounts, Handle, Open, Close, memberVars
<1>8. ASSUME InitializeValueIo PROVE (BackendTypeOK /\ DeviceStages /\ HandleCounts)'
  BY <1>8, <1>0, <1>a, <1>1, BackendAssumption
     DEF InitializeValueIo, GpioFails, KernelAgrees, HandleCounts, Handle, Open, Close, memberVars
<1>9. ASSUME MapRegisters PROVE (BackendTypeOK /\ DeviceStages /\ HandleCounts)'
  <2> USE <1>9, <1>0, <1>a, <1>1 DEF MapRegisters, KernelAgrees, HandleCounts, Handle
  <2>1. CASE registers_' = "mapped"
    BY <2>1 DEF Open
  <2>2. CASE registers_' # "mapped"
    <3>1. chip_ = "open" /\ registers_ = "null"
          /\ dev' = "failed" /\ chip_' = "null" /\ registers_' = registers_
      BY <2>2 DEF GpioFails
    <3>2. kernel' = [h \in Handle |-> IF h \in {"gpiomem", "chip"} THEN kernel[h] - 1 ELSE kernel[h]]
      BY <2>2, <3>1 DEF GpioFails, Close
    <3>. QED BY <3>1, <3>2
  <2>. QED BY <2>1, <2>2
<1>10. ASSUME OpenStripDevice PROVE (BackendTypeOK /\ DeviceStages /\ HandleCounts)'
  BY <1>10, <1>0, <1>a, <1>1, BackendAssumption
     DEF OpenStripDevice, KernelAgrees, HandleCounts, Handle, Open, Close, memberVars
<1>11. ASSUME ConfigureStripDevice PROVE (BackendTypeOK /\ DeviceStages /\ HandleCounts)'
  BY <1>11, <1>0, <1>a, <1>1, BackendAssumption
     DEF ConfigureStripDevice, KernelAgrees, HandleCounts, Handle, Open, Close, memberVars
<1>12. ASSUME OpenIioDirectory PROVE (BackendTypeOK /\ DeviceStages /\ HandleCounts)'
  BY <1>12, <1>0, <1>a, <1>1, BackendAssumption
     DEF OpenIioDirectory, KernelAgrees, HandleCounts, Handle, Open, Close, memberVars
<1>13. ASSUME SearchIioDirectory PROVE (BackendTypeOK /\ DeviceStages /\ HandleCounts)'
  BY <1>13, <1>0, <1>a, <1>1, BackendAssumption
     DEF SearchIioDirectory, KernelAgrees, HandleCounts, Handle, Open, Close, memberVars
<1>. QED
  BY <1>1, <1>2, <1>3, <1>4, <1>5, <1>6, <1>7, <1>8, <1>9, <1>10, <1>11, <1>12, <1>13
     DEF InitializeDevices, HandleCounts, KernelAgrees

LEMMA DestroyKeepsDevInv ==
    ASSUME DevInv, DestroyDevices, \A t \in User : user[t] \in {"none", "ended"}
    PROVE  DevInv'
<1> USE DEF DevInv, DevicesAreOwned
<1>a. user' = user /\ burst' = burst /\ end' = end /\ build' = build
  BY DEF DestroyDevices, DestroyStripDevice, DestroyGpio, DestroyValueIo
<1>b. \/ UNCHANGED <<lines_, requests>>
      \/ lines_' = [p \in Pin |-> "none"] /\ requests' = Released
  BY DEF DestroyDevices, DestroyStripDevice, DestroyGpio, DestroyValueIo
<1>1. lines_' \in [Pin -> {"none", "input", "output"}] /\ requests' \in [Pin -> {0, 1}]
      /\ \A p \in Pin : requests'[p] = IF lines_'[p] = "none" THEN 0 ELSE 1
  BY <1>b DEF BackendTypeOK, KernelAgrees, Released
<1>2. UserStages'
  BY <1>a, <1>b, <1>1 DEF UserStages, Pin, Direction
<1>3. BurstPinsAreOwned' /\ OnlyTheKernelAborts'
  BY <1>a DEF BurstPinsAreOwned, OnlyTheKernelAborts, User
<1>. USE DEF BackendTypeOK, DeviceStages, Unopened, ChipOpen
<1>4. ASSUME DestroyStripDevice PROVE (BackendTypeOK /\ DeviceStages /\ HandleCounts)'
  BY <1>4, <1>a, <1>1, BackendAssumption
     DEF DestroyStripDevice, KernelAgrees, HandleCounts, Handle, Close
<1>5. ASSUME DestroyGpio PROVE (BackendTypeOK /\ DeviceStages /\ HandleCounts)'
  BY <1>5, <1>a, <1>1, BackendAssumption
     DEF DestroyGpio, KernelAgrees, HandleCounts, Handle, Close
<1>6. ASSUME DestroyValueIo PROVE (BackendTypeOK /\ DeviceStages /\ HandleCounts)'
  BY <1>6, <1>a, <1>1, BackendAssumption
     DEF DestroyValueIo, KernelAgrees, HandleCounts, Handle, Close
<1>. QED
  BY <1>1, <1>2, <1>3, <1>4, <1>5, <1>6 DEF DestroyDevices, HandleCounts, KernelAgrees

-----------------------------------------------------------------------------
(* The threads use the devices.                                            *)

LEMMA PinsHaveOneOwner ==
    ASSUME NEW t \in User, NEW u \in User, NEW p \in PinSet(t), p \in PinSet(u)
    PROVE  t = u
BY BackendAssumption

LEMMA DirectionsTyped == \A t : Direction(t) \in {"input", "output"}
BY DEF Direction

LEMMA PinSetsArePins == \A t \in User : PinSet(t) \subseteq Pin
BY DEF Pin

\* What makes a line of one thread ready or not is no business of another.
LEMMA OthersStayReady ==
    ASSUME NEW t \in User, NEW u \in User, t # u, NEW p \in PinSet(t), DevInv, DeviceIsReady(u),
           UNCHANGED <<build, chip_, registers_, fd_, devicePath_>>,
           \A q \in Pin \ {p} : lines_'[q] = lines_[q]
    PROVE  DeviceIsReady(u)'
<1>1. \A q \in PinSet(u) : q \in Pin \ {p}
  BY PinsHaveOneOwner, PinSetsArePins
<1>2. \A q \in PinSet(u) : lines_'[q] = lines_[q]
  BY <1>1
<1>. QED BY <1>2 DEF DeviceIsReady, BitBangs

LEMMA ConfigureKeepsDevInv ==
    ASSUME DevInv, NEW t \in User, Configure(t)
    PROVE  DevInv'
<1> USE DEF DevInv, DevicesAreOwned
<1>1. PICK n \in DOMAIN PinsOf(t) :
          /\ IsNext(t, n)
          /\ requests' = [requests EXCEPT ![PinsOf(t)[n]] = RequestsLeft(PinsOf(t)[n]) + 1]
          /\ lines_' = [lines_ EXCEPT ![PinsOf(t)[n]] = Direction(t)]
  BY DEF Configure
<1> DEFINE p == PinsOf(t)[n]
<1>2. p \in PinSet(t) /\ p \in Pin
  BY PinSetsArePins DEF PinSet
<1>3. lines_[p] = "none" /\ requests[p] = 0
  BY <1>1, <1>2 DEF IsNext, Unconfigured, KernelAgrees
<1>4. requests' = [requests EXCEPT ![p] = 1] /\ lines_' = [lines_ EXCEPT ![p] = Direction(t)]
  BY <1>1, <1>3 DEF RequestsLeft
<1>5. user[t] = "configure" /\ dev = "up"
  BY DEF Configure, UserStages
<1>6. UNCHANGED <<build, dev, candidates, chip_, registers_, fd_, devicePath_, kernel, burst, user, end>>
  BY DEF Configure
<1> HIDE DEF p
<1>7. \A q \in Pin \ {p} : lines_'[q] = lines_[q]
  BY <1>4, <1>2 DEF BackendTypeOK
<1>8. BackendTypeOK'
  BY <1>2, <1>4, <1>6, DirectionsTyped DEF BackendTypeOK
<1>9. DeviceStages'
  BY <1>5, <1>6 DEF DeviceStages, Unopened, ChipOpen
<1>10. KernelAgrees' /\ OnlyTheKernelAborts'
  BY <1>2, <1>4, <1>6, DirectionsTyped DEF KernelAgrees, OnlyTheKernelAborts, BackendTypeOK
<1>11. BurstPinsAreOwned'
  BY <1>2, <1>3, <1>4, <1>6 DEF BurstPinsAreOwned, BackendTypeOK
<1>12. UserStages'
  <2> SUFFICES ASSUME NEW u \in User
               PROVE  /\ user'[u] \in {"configure", "run"} => dev' = "up"
                      /\ \A q \in PinSet(u) : lines_'[q] \in {"none", Direction(u)}
                      /\ user'[u] = "run" => DeviceIsReady(u)'
    BY <1>6 DEF UserStages
  <2>1. user'[u] \in {"configure", "run"} => dev' = "up"
    BY <1>5, <1>6
  <2>2. ASSUME NEW q \in PinSet(u) PROVE lines_'[q] \in {"none", Direction(u)}
    <3>1. CASE q = p
      BY <3>1, <1>2, <1>4, PinsHaveOneOwner DEF BackendTypeOK
    <3>2. CASE q # p
      BY <3>2, <1>7, PinSetsArePins DEF UserStages
    <3>. QED BY <3>1, <3>2
  <2>3. ASSUME user'[u] = "run" PROVE DeviceIsReady(u)'
    <3>1. user[u] = "run" /\ u # t
      BY <2>3, <1>5, <1>6
    <3>2. DeviceIsReady(u)
      BY <3>1 DEF UserStages
    <3>. QED BY <3>1, <3>2, <1>2, <1>6, <1>7, OthersStayReady
  <2>. QED BY <2>1, <2>2, <2>3
<1>. QED BY <1>8, <1>9, <1>10, <1>11, <1>12

\* A thread that is through with its pins finds each as it wants it.
LEMMA BeginKeepsDevInv ==
    ASSUME DevInv, NEW t \in User, Begin(t)
    PROVE  DevInv'
<1> USE DEF DevInv, DevicesAreOwned
<1>1. /\ user[t] = "configure" /\ Unconfigured(t) = {} /\ dev = "up"
      /\ burst' = IF t = "display" THEN BurstFor(PinSet(t)) ELSE burst
      /\ user' = [user EXCEPT ![t] = "run"]
      /\ UNCHANGED <<build, dev, candidates, memberVars, kernel, requests, end>>
  BY DEF Begin, UserStages
<1>2. UNCHANGED <<chip_, lines_, registers_, fd_, devicePath_>>
  BY <1>1 DEF memberVars
<1>3. chip_ = "open" /\ (build.mapped => registers_ = "mapped") /\ (build.spi => fd_ = 0)
      /\ devicePath_ = "found"
  BY <1>1 DEF DeviceStages, ChipOpen
<1>4. ASSUME BitBangs(t), NEW p \in PinSet(t) PROVE lines_[p] = Direction(t)
  <2>1. PICK n \in DOMAIN PinsOf(t) : p = PinsOf(t)[n]
    BY DEF PinSet
  <2>2. lines_[p] # "none"
    BY <2>1, <1>1, <1>4 DEF Unconfigured
  <2>. QED BY <2>2 DEF UserStages
<1>5. DeviceIsReady(t)
  BY <1>3, <1>4 DEF DeviceIsReady
<1>6. BackendTypeOK'
  BY <1>1, <1>2, PinSetsArePins DEF BackendTypeOK, BurstFor
<1>7. DeviceStages' /\ KernelAgrees' /\ OnlyTheKernelAborts'
  BY <1>1, <1>2 DEF DeviceStages, KernelAgrees, OnlyTheKernelAborts
<1>8. BurstPinsAreOwned'
  <2>1. CASE t = "display"
    BY <2>1, <1>1, <1>2, PinSetsArePins DEF BurstPinsAreOwned, BurstFor, BurstRegisters, KernelAgrees
  <2>2. CASE t # "display"
    BY <2>2, <1>1, <1>2 DEF BurstPinsAreOwned, BackendTypeOK
  <2>. QED BY <2>1, <2>2
<1>9. \A u \in User : DeviceIsReady(u) => DeviceIsReady(u)'
  BY <1>1, <1>2 DEF DeviceIsReady, BitBangs
<1>10. UserStages'
  BY <1>1, <1>2, <1>5, <1>9 DEF UserStages, BackendTypeOK
<1>. QED BY <1>6, <1>7, <1>8, <1>10

\* Threads that end, on their own or with the process, take nothing with them.
LEMMA EndKeepsDevInv ==
    ASSUME DevInv, BackendTypeOK',
           \A t \in User : user'[t] \in {user[t], "none", "ended"},
           UNCHANGED <<build, dev, candidates, memberVars, kernel, requests, burst>>, end' # "misuse"
    PROVE  DevInv'
<1> USE DEF DevInv, DevicesAreOwned
<1>1. UNCHANGED <<chip_, lines_, registers_, fd_, devicePath_>>
  BY DEF memberVars
<1>2. DeviceStages' /\ KernelAgrees' /\ OnlyTheKernelAborts'
  BY <1>1 DEF DeviceStages, KernelAgrees, OnlyTheKernelAborts
<1>3. BurstPinsAreOwned'
  BY <1>1 DEF BurstPinsAreOwned, User
<1>4. \A u \in User : DeviceIsReady(u) => DeviceIsReady(u)'
  BY <1>1 DEF DeviceIsReady, BitBangs
<1>5. UserStages'
  BY <1>1, <1>4 DEF UserStages
<1>. QED BY <1>2, <1>3, <1>5

LEMMA EndUseKeepsDevInv ==
    ASSUME DevInv, NEW t \in User, EndUse(t)
    PROVE  DevInv'
<1>1. BackendTypeOK'
  BY DEF EndUse, DevInv, BackendTypeOK, memberVars
<1>2. end' # "misuse" /\ \A u \in User : user'[u] \in {user[u], "none", "ended"}
  BY DEF EndUse, DevInv, BackendTypeOK, DevicesAreOwned, OnlyTheKernelAborts
<1>. QED BY <1>1, <1>2, EndKeepsDevInv DEF EndUse

\* A device that fails is one the kernel fails: never one that is not ready.
LEMMA UseFailsKeepsDevInv ==
    ASSUME DevInv, NEW t \in User, UseFails(t)
    PROVE  DevInv' /\ end' = "kernel" /\ user' = NoThreads
<1>1. PICK calls \in BOOLEAN : Throws(t, calls)
  BY DEF UseFails, ReadOrWriteThrows, TransferThrows, ReadAnalogThrows, CallsKernel, DevInv,
         BackendTypeOK
<1>2. user[t] = "run" /\ DeviceIsReady(t)
  BY <1>1 DEF Throws, DevInv, UserStages
<1>3. end' = "kernel" /\ user' = NoThreads
      /\ UNCHANGED <<build, dev, candidates, memberVars, kernel, requests, burst>>
  BY <1>1, <1>2 DEF Throws
<1>4. BackendTypeOK'
  BY <1>3 DEF DevInv, BackendTypeOK, memberVars, NoThreads
<1>. QED BY <1>3, <1>4, EndKeepsDevInv DEF NoThreads

LEMMA ConfigureFailsKeepsDevInv ==
    ASSUME DevInv, NEW t \in User, ConfigureFails(t)
    PROVE  DevInv' /\ end' = "kernel" /\ user' = NoThreads
<1> USE DEF DevInv, DevicesAreOwned
<1>1. user[t] = "configure" /\ dev = "up" /\ chip_ = "open"
  BY DEF ConfigureFails, UserStages, DeviceStages, ChipOpen
<1>2. PICK n \in DOMAIN PinsOf(t) :
          /\ IsNext(t, n)
          /\ requests' = [requests EXCEPT ![PinsOf(t)[n]] = RequestsLeft(PinsOf(t)[n])]
          /\ lines_' = [lines_ EXCEPT ![PinsOf(t)[n]] = "none"]
          /\ end' = "kernel"
  BY <1>1 DEF ConfigureFails
<1> DEFINE p == PinsOf(t)[n]
<1>3. p \in PinSet(t) /\ p \in Pin
  BY PinSetsArePins DEF PinSet
<1>4. lines_[p] = "none" /\ requests[p] = 0
  BY <1>2, <1>3 DEF IsNext, Unconfigured, KernelAgrees
<1>5. UNCHANGED <<requests, lines_>>
  BY <1>2, <1>3, <1>4 DEF RequestsLeft, BackendTypeOK
<1>6. user' = NoThreads /\ UNCHANGED <<build, dev, candidates, memberVars, kernel, requests, burst>>
  BY <1>5 DEF ConfigureFails, memberVars
<1>7. BackendTypeOK'
  BY <1>2, <1>6 DEF BackendTypeOK, memberVars, NoThreads
<1>. QED BY <1>2, <1>6, <1>7, EndKeepsDevInv DEF NoThreads

-----------------------------------------------------------------------------
(* The main thread in the server.                                          *)

LEMMA InitSrvInv == ServerInit => SrvInv
<1> SUFFICES ASSUME ServerInit PROVE SrvInv
  OBVIOUS
<1> USE ServerAssumption DEF ServerInit
<1>1. ServerTypeOK
  <2>1. w \in [Worker -> WorkerRecord]
    BY DEF NoWorker, WorkerRecord
  <2>2. served \in Seq(Requests) /\ Len(served) <= MaxRequests
    OBVIOUS
  <2>3. loopexit \in BOOLEAN /\ signals \subseteq {"sigint", "sighup"} /\ killed = "no" /\ result = "none"
    OBVIOUS
  <2>4. i \in Worker /\ workers \in Worker /\ heap \in [Object -> {0, 1}] /\ log_fd = -1 /\ fd = -1
        /\ srv = "log" /\ files \in [{"log", "listen"} -> {0, 1}] /\ sockets \in [Worker -> 0 .. 2]
    BY DEF Worker
  <2> HIDE DEF ServerInit
  <2>. QED BY <2>1, <2>2, <2>3, <2>4 DEF ServerTypeOK
<1>2. ServerStages
  BY DEF ServerStages, RunStages, Starting, Serving, Stopping, Object, Worker
<1>3. WorkerStages
  BY DEF WorkerStages, WorkerStage, IsAllocated, EndsOf, Starting, Serving, Stopping, NoWorker
<1>. QED BY <1>1, <1>2, <1>3 DEF SrvInv

LEMMA ParseKeepsSrvInv ==
    ASSUME SrvInv, ParseArgs, Alive, end' = end
    PROVE  SrvInv'
<1> USE DEF SrvInv, Alive, ParseStages, RunStages, Starting, Serving, Stopping
<1>1. ASSUME LogNew PROVE SrvInv'
  <2>1. ServerTypeOK' /\ ServerStages'
    BY <1>1, ServerAssumption DEF LogNew, Malloc, ServerTypeOK, ServerStages, Object, Worker
  <2>2. WorkerStages'
    BY <1>1, ServerAssumption DEF LogNew, Malloc, ServerTypeOK, ServerStages, WorkerStages, WorkerStage, IsAllocated, EndsOf, Worker
  <2>. QED BY <2>1, <2>2
<1>2. ASSUME ConfNew PROVE SrvInv'
  <2>1. ServerTypeOK' /\ ServerStages'
    BY <1>2, ServerAssumption DEF ConfNew, Malloc, ServerTypeOK, ServerStages, Object, Worker
  <2>2. WorkerStages'
    BY <1>2, ServerAssumption DEF ConfNew, Malloc, ServerTypeOK, ServerStages, WorkerStages, WorkerStage, IsAllocated, EndsOf, Worker
  <2>. QED BY <2>1, <2>2
<1>3. ASSUME LogOption PROVE SrvInv'
  <2>1. ServerTypeOK' /\ ServerStages'
    BY <1>3, ServerAssumption DEF LogOption, ServerTypeOK, ServerStages, Object, Worker
  <2>2. WorkerStages'
    BY <1>3, ServerAssumption DEF LogOption, ServerTypeOK, ServerStages, WorkerStages, WorkerStage, IsAllocated, EndsOf, Worker
  <2>. QED BY <2>1, <2>2
<1>4. ASSUME BadOption PROVE SrvInv'
  <2>1. ServerTypeOK' /\ ServerStages'
    BY <1>4, ServerAssumption DEF BadOption, ServerTypeOK, ServerStages, Object, Worker
  <2>2. WorkerStages'
    BY <1>4, ServerAssumption DEF BadOption, ServerTypeOK, ServerStages, WorkerStages, WorkerStage, IsAllocated, EndsOf, Worker
  <2>. QED BY <2>1, <2>2
<1>5. ASSUME EndOfOptions PROVE SrvInv'
  <2>1. ServerTypeOK' /\ ServerStages'
    BY <1>5, ServerAssumption DEF EndOfOptions, ServerTypeOK, ServerStages, Object, Worker
  <2>2. WorkerStages'
    BY <1>5, ServerAssumption DEF EndOfOptions, ServerTypeOK, ServerStages, WorkerStages, WorkerStage, IsAllocated, EndsOf, Worker
  <2>. QED BY <2>1, <2>2
<1>6. ASSUME \E n \in Worker : WorkersOption(n) PROVE SrvInv'
  <2>1. ServerTypeOK' /\ ServerStages'
    BY <1>6, ServerAssumption DEF WorkersOption, ServerTypeOK, ServerStages, Object, Worker
  <2>2. WorkerStages'
    BY <1>6, ServerAssumption DEF WorkersOption, ServerTypeOK, ServerStages, WorkerStages, WorkerStage, IsAllocated, EndsOf, Worker
  <2>. QED BY <2>1, <2>2
<1>. QED BY <1>1, <1>2, <1>3, <1>4, <1>5, <1>6 DEF ParseArgs

LEMMA StartKeepsSrvInv ==
    ASSUME SrvInv, Alive, end' = end,
           ServerNew \/ NewArray \/ EventBaseNew \/ AddSignals \/ SetupSocket \/ BindAndListen
             \/ Dispatch \/ DispatchFails \/ DeleteSignals \/ Release
    PROVE  SrvInv'
<1> USE DEF SrvInv, Alive, ParseStages, RunStages, Starting, Serving, Stopping, BothSignals
<1>1. ASSUME ServerNew PROVE SrvInv'
  <2>1. ServerTypeOK' /\ ServerStages'
    BY <1>1, ServerAssumption DEF ServerNew, Malloc, Free, PulsarFails, LogFree, ServerTypeOK, ServerStages, Object, Worker
  <2>2. WorkerStages'
    BY <1>1, ServerAssumption DEF ServerNew, Malloc, Free, PulsarFails, LogFree, ServerTypeOK, ServerStages, WorkerStages, WorkerStage, IsAllocated, EndsOf, Worker
  <2>. QED BY <2>1, <2>2
<1>2. ASSUME NewArray PROVE SrvInv'
  <2>1. ServerTypeOK' /\ ServerStages'
    BY <1>2, ServerAssumption DEF NewArray, Malloc, Free, PulsarFails, LogFree, ServerTypeOK, ServerStages, Object, Worker
  <2>2. WorkerStages'
    BY <1>2, ServerAssumption DEF NewArray, Malloc, Free, PulsarFails, LogFree, ServerTypeOK, ServerStages, WorkerStages, WorkerStage, IsAllocated, EndsOf, Worker
  <2>. QED BY <2>1, <2>2
<1>3. ASSUME EventBaseNew PROVE SrvInv'
  <2>1. ServerTypeOK' /\ ServerStages'
    BY <1>3, ServerAssumption DEF EventBaseNew, ServerFree, ServerTypeOK, ServerStages, Object, Worker
  <2>2. WorkerStages'
    BY <1>3, ServerAssumption DEF EventBaseNew, ServerFree, ServerTypeOK, ServerStages, WorkerStages, WorkerStage, IsAllocated, EndsOf, Worker
  <2>. QED BY <2>1, <2>2
<1>4. ASSUME AddSignals PROVE SrvInv'
  <2>1. signals' \subseteq {"sigint", "sighup"}
    BY <1>4 DEF AddSignals, AddSignal, ServerTypeOK
  <2>2. ServerTypeOK'
    BY <1>4, <2>1, ServerAssumption DEF AddSignals, AddSignal, ServerFree, ServerTypeOK, Worker
  <2>3. ServerStages'
    <3>1. CASE srv' = "stop"
      BY <1>4, <3>1, ServerAssumption
         DEF AddSignals, AddSignal, ServerFree, ServerTypeOK, ServerStages, Worker
    <3>2. CASE srv = "sigint" /\ srv' = "sighup" /\ signals' = signals \cup {"sigint"}
      BY <1>4, <3>2 DEF AddSignals, AddSignal, ServerFree, ServerStages
    <3>3. CASE srv = "sighup" /\ srv' = "socket" /\ signals' = signals \cup {"sighup"}
      <4>1. signals' = BothSignals
        BY <2>1, <3>3 DEF ServerStages
      <4>. QED BY <1>4, <3>3, <4>1 DEF AddSignals, AddSignal, ServerFree, ServerStages
    <3>. QED BY <1>4, <3>1, <3>2, <3>3 DEF AddSignals, AddSignal, ServerFree
  <2>4. WorkerStages'
    BY <1>4, ServerAssumption
       DEF AddSignals, AddSignal, ServerFree, ServerTypeOK, ServerStages, WorkerStages, WorkerStage, IsAllocated,
           EndsOf, Worker
  <2>. QED BY <2>2, <2>3, <2>4
<1>5. ASSUME SetupSocket PROVE SrvInv'
  <2>1. ServerTypeOK' /\ ServerStages'
    BY <1>5, ServerAssumption DEF SetupSocket, ServerFree, ServerTypeOK, ServerStages, Object, Worker
  <2>2. WorkerStages'
    BY <1>5, ServerAssumption DEF SetupSocket, ServerFree, ServerTypeOK, ServerStages, WorkerStages, WorkerStage, IsAllocated, EndsOf, Worker
  <2>. QED BY <2>1, <2>2
<1>6. ASSUME BindAndListen PROVE SrvInv'
  <2>1. ServerTypeOK' /\ ServerStages'
    BY <1>6, ServerAssumption DEF BindAndListen, ServerFree, ServerTypeOK, ServerStages, Object, Worker
  <2>2. WorkerStages'
    BY <1>6, ServerAssumption DEF BindAndListen, ServerFree, ServerTypeOK, ServerStages, WorkerStages, WorkerStage, IsAllocated, EndsOf, Worker
  <2>. QED BY <2>1, <2>2
<1>7. ASSUME Dispatch \/ DispatchFails PROVE SrvInv'
  <2>1. ServerTypeOK' /\ ServerStages'
    BY <1>7, ServerAssumption DEF Dispatch, DispatchFails, ServerFree, ServerTypeOK, ServerStages, Object, Worker
  <2>2. WorkerStages'
    BY <1>7, ServerAssumption DEF Dispatch, DispatchFails, ServerFree, ServerTypeOK, ServerStages, WorkerStages, WorkerStage, IsAllocated, EndsOf, Worker
  <2>. QED BY <2>1, <2>2
<1>8. ASSUME DeleteSignals PROVE SrvInv'
  <2>1. ServerTypeOK' /\ ServerStages'
    BY <1>8, ServerAssumption DEF DeleteSignals, ServerTypeOK, ServerStages, Object, Worker
  <2>2. WorkerStages'
    BY <1>8, ServerAssumption DEF DeleteSignals, ServerTypeOK, ServerStages, WorkerStages, WorkerStage, IsAllocated, EndsOf, Worker
  <2>. QED BY <2>1, <2>2
<1>9. ASSUME Release PROVE SrvInv'
  <2>1. ServerTypeOK' /\ ServerStages'
    BY <1>9, ServerAssumption DEF Release, CloseListening, Free, ServerTypeOK, ServerStages, Object, Worker
  <2>2. WorkerStages'
    BY <1>9, ServerAssumption DEF Release, Free, ServerTypeOK, ServerStages, WorkerStages, WorkerStage, IsAllocated, EndsOf, Worker
  <2>. QED BY <2>1, <2>2
<1>. QED BY <1>1, <1>2, <1>3, <1>4, <1>5, <1>6, <1>7, <1>8, <1>9

\* The ends of a pair of sockets.
LEMMA EndsAreCounted ==
    Cardinality({}) = 0 /\ Cardinality({1}) = 1 /\ Cardinality({0, 1}) = 2
<1>1. Cardinality({}) = 0 /\ Cardinality({1}) = 1 /\ IsFiniteSet({1})
  BY FS_EmptySet, FS_Singleton
<1>2. {0, 1} = {1} \cup {0} /\ 0 \notin {1}
  OBVIOUS
<1>3. Cardinality({1} \cup {0}) = Cardinality({1}) + 1
  BY <1>1, <1>2, FS_AddElement
<1>. QED BY <1>1, <1>2, <1>3

\* All that matters of a worker but one field is as before.
KeptBut(k, field) ==
    /\ field # "allocated" => w'[k].allocated = w[k].allocated
    /\ field # "started" => w'[k].started = w[k].started
    /\ field # "thread" => w'[k].thread = w[k].thread
    /\ field # "stopSockets" => w'[k].stopSockets = w[k].stopSockets
    /\ field # "request" => w'[k].request = w[k].request

\* The workers are allocated one after the other; if one cannot be, those
\* before it are freed.
LEMMA WorkerNewKeepsSrvInv ==
    ASSUME SrvInv, Alive, end' = end, WorkerNew
    PROVE  SrvInv'
<1> USE ServerAssumption
        DEF SrvInv, Alive, ParseStages, RunStages, Starting, Serving, Stopping, BothSignals
<1>1. srv = "workers" /\ i \in Worker /\ i <= workers /\ w \in [Worker -> WorkerRecord]
      /\ \A k \in Worker : ~w[k].started /\ w[k].allocated = IF k < i THEN 1 ELSE 0
  BY DEF WorkerNew, ServerTypeOK, ServerStages, WorkerStages, WorkerStage, IsAllocated
<1>2. CASE w' = [w EXCEPT ![i].allocated = @ + 1]
           /\ i' = (IF i = workers THEN 1 ELSE i + 1)
           /\ srv' = (IF i = workers THEN "base" ELSE srv)
           /\ UNCHANGED <<heap, log_fd, files, result>>
  <2>a. w[i].allocated = 0
    BY <1>1 DEF Worker
  <2>2. w' = [w EXCEPT ![i] = [w[i] EXCEPT !.allocated = 1]]
    BY <1>2, <2>a
  <2>0. w' \in [Worker -> WorkerRecord]
    BY <1>1, <2>2 DEF WorkerRecord
  <2>1. \A k \in Worker : /\ w'[k].allocated = (IF k <= i THEN 1 ELSE 0) /\ KeptBut(k, "allocated")
    BY <1>1, <2>2 DEF Worker, WorkerRecord, KeptBut
  <2>3. ServerTypeOK' /\ ServerStages'
    BY <1>1, <1>2, <2>0 DEF WorkerNew, ServerTypeOK, ServerStages, Worker
  <2>4. WorkerStages'
    BY <1>1, <1>2, <2>1 DEF WorkerNew, ServerTypeOK, WorkerStages, WorkerStage, IsAllocated, EndsOf, Worker, KeptBut
  <2>. QED BY <2>3, <2>4
<1>3. CASE w' = [k \in Worker |-> IF k < i THEN [w[k] EXCEPT !.allocated = @ - 1] ELSE w[k]]
           /\ PulsarFails({"server", "array"}) /\ UNCHANGED i
  <2>0. \A k \in Worker : w'[k] = IF k < i THEN [w[k] EXCEPT !.allocated = 0] ELSE w[k]
    BY <1>1, <1>3 DEF Worker
  <2>1. \A k \in Worker : w'[k] \in WorkerRecord /\ w'[k].allocated = 0 /\ KeptBut(k, "allocated")
    <3> SUFFICES ASSUME NEW k \in Worker
                 PROVE  w'[k] \in WorkerRecord /\ w'[k].allocated = 0 /\ KeptBut(k, "allocated")
      OBVIOUS
    <3>1. w[k] \in WorkerRecord /\ w[k].allocated = IF k < i THEN 1 ELSE 0
      BY <1>1
    <3>2. CASE k < i
      BY <2>0, <3>1, <3>2 DEF WorkerRecord, KeptBut
    <3>3. CASE ~(k < i)
      BY <2>0, <3>1, <3>3 DEF KeptBut
    <3>. QED BY <3>2, <3>3
  <2>2. w' \in [Worker -> WorkerRecord]
    BY <1>3, <2>1
  <2>3. ServerTypeOK' /\ ServerStages'
    BY <1>1, <1>3, <2>2 DEF WorkerNew, PulsarFails, LogFree, Free, ServerTypeOK, ServerStages, Object, Worker
  <2>4. WorkerStages'
    BY <1>1, <1>3, <2>1
       DEF WorkerNew, PulsarFails, ServerTypeOK, WorkerStages, WorkerStage, IsAllocated, EndsOf, Worker, KeptBut
  <2>. QED BY <2>3, <2>4
<1>. QED BY <1>2, <1>3 DEF WorkerNew

\* worker_start makes the pair and then the thread, or closes the pair again.
LEMMA WorkerStartKeepsSrvInv ==
    ASSUME SrvInv, Alive, end' = end, SocketPair \/ CreateWorker
    PROVE  SrvInv'
<1> USE ServerAssumption
        DEF SrvInv, Alive, ParseStages, RunStages, Starting, Serving, Stopping, BothSignals
<1>0. srv \in {"pair", "create"} /\ i \in Worker /\ i <= workers /\ w \in [Worker -> WorkerRecord]
      /\ fd >= 0 /\ signals = BothSignals
  BY DEF SocketPair, CreateWorker, ServerTypeOK, ServerStages
<1>1. w[i] \in WorkerRecord /\ ~w[i].started /\ w[i].thread = "none" /\ w[i].request = <<>>
      /\ \A k \in Worker : k # i => k < i \/ ~w[k].started
  BY <1>0 DEF WorkerStages, WorkerStage, Worker
<1>2. CASE SocketPair
  <2>1. CASE srv' = "create"
    <3>1. w' = [w EXCEPT ![i] = [w[i] EXCEPT !.stopSockets = {0, 1}]]
          /\ sockets' = [sockets EXCEPT ![i] = 2] /\ i' = i
      BY <1>2, <2>1 DEF SocketPair, ServerFree
    <3>2. w' \in [Worker -> WorkerRecord] /\ w'[i].stopSockets = {0, 1} /\ KeptBut(i, "stopSockets")
          /\ \A k \in Worker : k # i => w'[k] = w[k]
      BY <1>0, <1>1, <3>1 DEF WorkerRecord, KeptBut
    <3>a. sockets' \in [Worker -> 0 .. 2] /\ sockets'[i] = 2
          /\ \A k \in Worker : k # i => sockets'[k] = sockets[k]
      BY <1>0, <3>1 DEF ServerTypeOK
    <3>c. UNCHANGED <<i, workers, heap, log_fd, fd, files, signals, loopexit, result, killed, served>>
      BY <1>2, <2>1 DEF SocketPair, ServerFree
    <3>b. ServerTypeOK'
      BY <2>1, <3>2, <3>a, <3>c DEF ServerTypeOK
    <3>3. ServerStages'
      BY <1>0, <1>2, <2>1, <3>1 DEF SocketPair, ServerStages
    <3>4. WorkerStages'
      BY <1>0, <1>1, <1>2, <2>1, <3>1, <3>2, <3>a
         DEF SocketPair, WorkerStages, WorkerStage, IsAllocated, EndsOf, KeptBut
    <3>. QED BY <3>b, <3>3, <3>4
  <2>2. CASE srv' = "stop"
    <3>1. ServerTypeOK' /\ ServerStages'
      BY <1>0, <1>2, <2>2 DEF SocketPair, ServerFree, ServerTypeOK, ServerStages, Worker
    <3>2. WorkerStages'
      BY <1>0, <1>2, <2>2 DEF SocketPair, ServerFree, ServerTypeOK, WorkerStages, WorkerStage, IsAllocated, EndsOf
    <3>. QED BY <3>1, <3>2
  <2>. QED BY <1>2, <2>1, <2>2 DEF SocketPair, ServerFree
<1>3. CASE CreateWorker
  <2>1. CASE srv' # "stop"
    <3>1. w' = [w EXCEPT ![i] = [w[i] EXCEPT !.started = TRUE, !.thread = "main"]]
          /\ i' = (IF i = workers THEN i ELSE i + 1)
          /\ srv' = (IF i = workers THEN "dispatch" ELSE "pair")
          /\ sockets' = sockets
      BY <1>3, <2>1 DEF CreateWorker, ServerFree
    <3>2. /\ w' \in [Worker -> WorkerRecord] /\ w'[i].started /\ w'[i].thread = "main"
          /\ w'[i].allocated = w[i].allocated /\ w'[i].stopSockets = w[i].stopSockets
          /\ w'[i].request = <<>>
          /\ \A k \in Worker : k # i => w'[k] = w[k]
      BY <1>0, <1>1, <3>1 DEF WorkerRecord
    <3>a. i' \in Worker /\ i' <= workers
      BY <1>0, <3>1 DEF ServerTypeOK, Worker
    <3>c. UNCHANGED <<workers, heap, log_fd, fd, files, sockets, signals, loopexit, result, killed, served>>
      BY <1>3, <2>1 DEF CreateWorker, ServerFree
    <3>d. srv' \in {"dispatch", "pair"}
      BY <3>1
    <3>b. ServerTypeOK'
      BY <3>2, <3>a, <3>c, <3>d DEF ServerTypeOK
    <3>3. ServerStages'
      BY <1>0, <1>3, <3>1, <3>a DEF CreateWorker, ServerStages
    <3>4. WorkerStages'
      BY SMTT(30), <1>0, <1>1, <1>3, <3>1, <3>2
         DEF CreateWorker, ServerTypeOK, WorkerStages, WorkerStage, IsAllocated, EndsOf, Worker
    <3>. QED BY <3>b, <3>3, <3>4
  <2>2. CASE srv' = "stop"
    <3>1. w' = [w EXCEPT ![i] = [w[i] EXCEPT !.stopSockets = {}]]
          /\ sockets' = [sockets EXCEPT ![i] = 0] /\ i' = 1
      BY <1>3, <2>2 DEF CreateWorker, ServerFree
    <3>2. w' \in [Worker -> WorkerRecord] /\ w'[i].stopSockets = {} /\ KeptBut(i, "stopSockets")
          /\ \A k \in Worker : k # i => w'[k] = w[k]
      BY <1>0, <1>1, <3>1 DEF WorkerRecord, KeptBut
    <3>3. ServerTypeOK' /\ ServerStages'
      BY <1>0, <1>3, <2>2, <3>1, <3>2 DEF CreateWorker, ServerFree, ServerTypeOK, ServerStages, Worker
    <3>4. WorkerStages'
      BY <1>0, <1>1, <1>3, <2>2, <3>1, <3>2
         DEF CreateWorker, ServerFree, ServerTypeOK, WorkerStages, WorkerStage, IsAllocated, EndsOf, KeptBut
    <3>. QED BY <3>3, <3>4
  <2>. QED BY <2>1, <2>2
<1>. QED BY <1>2, <1>3

\* worker_stop leaves the workers where they are ...
LEMMA WorkerStopKeepsSrvInv ==
    ASSUME SrvInv, Alive, end' = end, WorkerStop
    PROVE  SrvInv'
<1> USE ServerAssumption
        DEF SrvInv, Alive, ParseStages, RunStages, Starting, Serving, Stopping, BothSignals
<1>1. srv = "stop" /\ i \in Worker /\ i <= workers /\ w \in [Worker -> WorkerRecord]
  BY DEF WorkerStop, ServerTypeOK, ServerStages
<1>2. w' \in [Worker -> WorkerRecord]
      /\ \A k \in Worker : /\ w'[k].allocated = w[k].allocated /\ w'[k].started = w[k].started
                           /\ w'[k].thread = w[k].thread /\ w'[k].stopSockets = w[k].stopSockets
                           /\ w'[k].request = w[k].request
  <2> DEFINE r == [w[i] EXCEPT !.stopRequested = TRUE, !.byte = TRUE]
  <2>1. w[i] \in WorkerRecord
    BY <1>1
  <2>2. r \in WorkerRecord /\ r.allocated = w[i].allocated /\ r.started = w[i].started
        /\ r.thread = w[i].thread /\ r.stopSockets = w[i].stopSockets /\ r.request = w[i].request
    BY <2>1 DEF WorkerRecord
  <2>3. w' = w \/ w' = [w EXCEPT ![i] = r]
    BY DEF WorkerStop
  <2> HIDE DEF r
  <2>. QED BY <1>1, <2>2, <2>3
<1>3. ServerTypeOK' /\ ServerStages'
  BY <1>1, <1>2 DEF WorkerStop, ServerTypeOK, ServerStages, Worker
<1>4. WorkerStages'
  BY SMTT(30), <1>1, <1>2 DEF WorkerStop, ServerTypeOK, WorkerStages, WorkerStage, IsAllocated, EndsOf, Worker
<1>. QED BY <1>3, <1>4

\* ... and worker_free takes one that has ended.
LEMMA WorkerFreeKeepsSrvInv ==
    ASSUME SrvInv, Alive, end' = end, WorkerFree
    PROVE  SrvInv'
<1> USE ServerAssumption
        DEF SrvInv, Alive, ParseStages, RunStages, Starting, Serving, Stopping, BothSignals
<1>0. srv = "free" /\ i \in Worker /\ i <= workers /\ w \in [Worker -> WorkerRecord]
      /\ sockets \in [Worker -> 0 .. 2]
  BY DEF WorkerFree, ServerTypeOK, ServerStages
<1>1. w[i] \in WorkerRecord /\ w[i].allocated = 1 /\ (w[i].started => w[i].thread = "done")
  BY <1>0 DEF WorkerFree, WorkerStages, WorkerStage, IsAllocated, Worker
<1>2. ASSUME w[i].started PROVE sockets[i] - Cardinality(w[i].stopSockets) = 0
  <2>1. w[i].stopSockets = {1}
    BY <1>0, <1>1, <1>2 DEF WorkerStages, WorkerStage, EndsOf
  <2>2. sockets[i] = 1
    BY <1>0, <2>1 DEF WorkerStages, WorkerStage
  <2>. QED BY <2>1, <2>2, EndsAreCounted
<1>3. ASSUME ~w[i].started PROVE sockets[i] - Cardinality(w[i].stopSockets) = 0
  <2>1. w[i].stopSockets = {}
    BY <1>0, <1>1, <1>3 DEF WorkerStages, WorkerStage, EndsOf
  <2>2. sockets[i] = 0
    BY <1>0, <2>1 DEF WorkerStages, WorkerStage
  <2>. QED BY <2>1, <2>2, EndsAreCounted
<1>4. sockets[i] - Cardinality(w[i].stopSockets) = 0
  BY <1>2, <1>3
<1>5. sockets' = [sockets EXCEPT ![i] = 0]
  BY <1>4 DEF WorkerFree
<1>6. /\ w' \in [Worker -> WorkerRecord] /\ w'[i].stopSockets = {} /\ w'[i].allocated = 0
      /\ w'[i].started = w[i].started /\ w'[i].thread = w[i].thread /\ w'[i].request = w[i].request
      /\ \A k \in Worker : k # i => w'[k] = w[k]
  BY <1>0, <1>1 DEF WorkerFree, WorkerRecord
<1>a. i' \in Worker /\ i' <= workers
  BY <1>0 DEF WorkerFree, ServerTypeOK, Worker
<1>7. ServerTypeOK' /\ ServerStages'
  BY <1>0, <1>5, <1>6 DEF WorkerFree, ServerTypeOK, ServerStages, Worker
<1>b. /\ i' = (IF i = workers THEN 1 ELSE i + 1) /\ srv' = (IF i = workers THEN "signals" ELSE "free")
      /\ UNCHANGED <<workers, fd, signals, killed>> /\ workers \in Worker
  BY <1>0 DEF WorkerFree, ServerTypeOK
<1>8. WorkerStages'
  <2> SUFFICES ASSUME NEW k \in Worker PROVE WorkerStage(k)'
    BY DEF WorkerStages
  <2>1. CASE k = i
    BY <2>1, <1>0, <1>1, <1>5, <1>6 DEF WorkerFree, WorkerStages, WorkerStage, IsAllocated, EndsOf, ServerTypeOK, Worker
  <2>2. CASE k # i
    <3>1. w'[k] = w[k] /\ sockets'[k] = sockets[k] /\ WorkerStage(k)
      BY <2>2, <1>0, <1>5, <1>6 DEF WorkerStages
    <3>2. IsAllocated(k)' <=> IsAllocated(k)
      BY <2>2, <1>0, <1>b DEF IsAllocated, Worker
    <3>. QED BY <3>1, <3>2, <1>0, <1>b DEF WorkerStage, EndsOf
  <2>. QED BY <2>1, <2>2
<1>. QED BY <1>7, <1>8

-----------------------------------------------------------------------------
(* The workers.                                                            *)

\* A worker that runs was started and is not freed, since worker_free joins it:
\* so all that server_free takes down after the workers is still there.
LEMMA RunningWorker ==
    ASSUME SrvInv, NEW k \in Worker, Runs(k), Alive
    PROVE  /\ w[k].started /\ w[k].allocated = 1 /\ w[k].stopSockets = {0, 1} /\ sockets[k] = 2
           /\ srv \in Serving \cup {"stop", "free"} /\ fd >= 0 /\ signals = BothSignals
           /\ heap["server"] = 1 /\ heap["cfg"] = 1 /\ heap["log"] = 1
<1> USE DEF SrvInv
<1>1. WorkerStage(k) /\ w[k] \in WorkerRecord /\ w[k].thread \notin {"none", "done"}
  BY DEF WorkerStages, ServerTypeOK, Runs
<1>2. w[k].started /\ w[k].allocated = 1
  BY <1>1 DEF WorkerStage, WorkerRecord
<1>3. w[k].stopSockets = {0, 1} /\ sockets[k] = 2
  BY <1>1, <1>2 DEF WorkerStage, EndsOf
<1>4. IsAllocated(k)
  BY <1>1, <1>2 DEF WorkerStage
<1>5. srv \in Serving \cup {"stop", "free"}
  BY <1>1, <1>2, <1>4 DEF WorkerStage, IsAllocated, Serving, Stopping, Starting
<1>6. fd >= 0 /\ signals = BothSignals
  BY <1>1, <1>2, <1>5 DEF WorkerStage, ServerStages, Serving
<1>7. heap["server"] = 1 /\ heap["cfg"] = 1 /\ heap["log"] = 1
  BY <1>5, <1>6 DEF ServerStages, Serving, RunStages, Stopping, ServerTypeOK
<1>. QED BY <1>2, <1>3, <1>5, <1>6, <1>7

\* A worker that goes on, with its record r.
LEMMA WorkerGoesOn ==
    ASSUME SrvInv, Alive, Alive', NEW k \in Worker, Runs(k), NEW r \in WorkerRecord,
           w' = [w EXCEPT ![k] = r], UNCHANGED <<mainVars, sockets>>,
           files' = files \/ files' = CloseListening(files),
           r.allocated = w[k].allocated, r.started = w[k].started,
           r.stopSockets = w[k].stopSockets, r.thread \notin {"none", "done"},
           r.request # <<>> <=> r.thread = "handler",
           loopexit' \in BOOLEAN, served' \in Seq(Requests), Len(served') <= MaxRequests
    PROVE  SrvInv'
<1> USE DEF SrvInv, mainVars
<1>1. w' \in [Worker -> WorkerRecord] /\ w'[k] = r /\ \A l \in Worker : l # k => w'[l] = w[l]
  BY DEF ServerTypeOK
<1>a. srv # "bind" /\ files \in [{"log", "listen"} -> {0, 1}]
  BY RunningWorker DEF Serving, ServerTypeOK
<1>b. /\ files' \in [{"log", "listen"} -> {0, 1}] /\ files'["log"] = files["log"]
      /\ files'["listen"] = 1 => files["listen"] = 1
  BY <1>a DEF CloseListening
<1>2. ServerTypeOK'
  BY <1>1, <1>b DEF ServerTypeOK, Alive
<1>3. ServerStages'
  BY <1>a, <1>b DEF ServerStages
<1>4. ASSUME NEW l \in Worker PROVE WorkerStage(l)'
  <2>1. WorkerStage(l)
    BY DEF WorkerStages
  <2>2. IsAllocated(l)' <=> IsAllocated(l)
    BY DEF IsAllocated
  <2>3. CASE l # k
    BY <1>1, <2>1, <2>2, <2>3 DEF WorkerStage, EndsOf
  <2>4. CASE l = k
    BY <1>1, <2>1, <2>2, <2>4, RunningWorker DEF WorkerStage, EndsOf
  <2>. QED BY <2>3, <2>4
<1>. QED BY <1>2, <1>3, <1>4 DEF WorkerStages

\* A process that ends takes the threads with it, and leaves the rest as it is.
LEMMA DeathKeepsSrvInv ==
    ASSUME SrvInv, w' = NoWorkerThreads, UNCHANGED <<mainVars, files, sockets, served>>, ~Alive',
           loopexit' \in BOOLEAN, killed' \in {"no", "user", "stop", "assertion"}
    PROVE  SrvInv' /\ \A k \in Worker : w'[k].thread = "none" /\ w'[k].request = w[k].request
<1> USE DEF SrvInv, mainVars
<1>1. \A k \in Worker : w'[k] \in WorkerRecord /\ KeptBut(k, "thread") /\ w'[k].thread = "none"
  BY DEF ServerTypeOK, WorkerRecord, NoWorkerThreads, KeptBut
<1>2. w' \in [Worker -> WorkerRecord]
  BY <1>1 DEF NoWorkerThreads
<1>3. ServerTypeOK'
  BY <1>2 DEF ServerTypeOK
<1>4. ServerStages'
  BY DEF ServerStages
<1>5. ASSUME NEW k \in Worker PROVE WorkerStage(k)'
  <2>1. WorkerStage(k)
    BY DEF WorkerStages
  <2>2. IsAllocated(k)' <=> IsAllocated(k)
    BY DEF IsAllocated
  <2>. QED BY <1>1, <2>1, <2>2 DEF WorkerStage, KeptBut
<1>. QED BY <1>1, <1>3, <1>4, <1>5 DEF WorkerStages, KeptBut

\* The end of a worker: what is left of its pair is for worker_free.
LEMMA CloseKeepsSrvInv ==
    ASSUME SrvInv, Alive, Alive', NEW k \in Worker, CloseOwnSocket(k)
    PROVE  SrvInv'
<1> USE DEF SrvInv, mainVars
<1>0. w[k] \in WorkerRecord /\ w[k].thread = "closing" /\ Runs(k)
  BY DEF ServerTypeOK, CloseOwnSocket, Runs
<1>1. w[k].started /\ w[k].allocated = 1 /\ w[k].stopSockets = {0, 1} /\ sockets[k] = 2
  BY <1>0, RunningWorker
<1>2. w' = [w EXCEPT ![k] = [w[k] EXCEPT !.thread = "done", !.stopSockets = {1}]]
  <2>1. {0, 1} \ {0} = {1}
    OBVIOUS
  <2>. QED BY <1>1, <2>1 DEF CloseOwnSocket
<1>3. /\ w' \in [Worker -> WorkerRecord] /\ w'[k].stopSockets = {1} /\ w'[k].thread = "done"
      /\ w'[k].started = w[k].started /\ w'[k].allocated = w[k].allocated /\ w'[k].request = w[k].request
      /\ \A l \in Worker : l # k => w'[l] = w[l]
  BY <1>0, <1>2 DEF ServerTypeOK, WorkerRecord
<1>4. sockets' = [sockets EXCEPT ![k] = 1]
  BY <1>1 DEF CloseOwnSocket
<1>5. UNCHANGED <<mainVars, files, loopexit, killed, served>>
  BY DEF CloseOwnSocket
<1>6. sockets' \in [Worker -> 0 .. 2] /\ sockets'[k] = 1
      /\ \A l \in Worker : l # k => sockets'[l] = sockets[l]
  BY <1>4 DEF ServerTypeOK
<1>7. ServerTypeOK'
  BY <1>3, <1>5, <1>6 DEF ServerTypeOK
<1>8. ServerStages'
  BY <1>5 DEF ServerStages
<1>9. ASSUME NEW l \in Worker PROVE WorkerStage(l)'
  <2>1. WorkerStage(l)
    BY DEF WorkerStages
  <2>2. IsAllocated(l)' <=> IsAllocated(l)
    BY <1>5 DEF IsAllocated
  <2>3. CASE l # k
    BY <1>3, <1>5, <1>6, <2>1, <2>2, <2>3 DEF WorkerStage, EndsOf
  <2>4. CASE l = k
    BY <1>0, <1>1, <1>3, <1>5, <1>6, <2>1, <2>2, <2>4 DEF WorkerStage, EndsOf
  <2>. QED BY <2>3, <2>4
<1>. QED BY <1>7, <1>8, <1>9 DEF WorkerStages

-----------------------------------------------------------------------------
(* The handlers and their hits.                                            *)

LEMMA TableHasDefaults ==
    /\ uriNotFound \in DOMAIN Table /\ Table[uriNotFound] = uriNotFound
    /\ uriHead \in DOMAIN Table /\ Table[uriHead] = uriHead
    /\ \A k \in DOMAIN Table : Table[k] \in Handler
<1>1. /\ uriNotFound \in DOMAIN Table /\ Table[uriNotFound] = uriNotFound
      /\ uriHead \in DOMAIN Table /\ Table[uriHead] = uriHead
  BY DEF Table, Key, uriNotFound, uriHead
<1>2. \A k \in DOMAIN Table : Table[k] \in Handler
  BY DEF Handler
<1>. QED BY <1>1, <1>2

LEMMA TableIsNotEmpty == Table # <<>>
BY TableHasDefaults

LEMMA HandlersFound == \A r : HandlerFor(r) \in Handler
BY TableHasDefaults DEF HandlerFor

\* The first of the keys that is in the table is the one of the request, or
\* that of any HEAD, or that of what is not found.
LEMMA LookupFindsHandler ==
    ASSUME webHandlers = Table, NEW r
    PROVE  FindWebHandler(r) = HandlerFor(r)
<1> DEFINE keys == Lookups(r)
           found == {n \in DOMAIN keys : keys[n] \in DOMAIN webHandlers}
           first == CHOOSE n \in found : \A m \in found : n <= m
<1>1. FindWebHandler(r) = webHandlers[keys[first]]
  BY DEF FindWebHandler
<1>2. ASSUME NEW n \in found, \A m \in found : n <= m PROVE first = n
  <2>1. first \in found /\ \A m \in found : first <= m
    BY <1>2
  <2>2. found \subseteq Nat
    BY DEF Lookups
  <2> HIDE DEF found, first
  <2>. QED BY <1>2, <2>1, <2>2
<1>3. CASE r \in DOMAIN Table
  <2>1. 1 \in found /\ keys[1] = r /\ \A m \in found : 1 <= m
    BY <1>3 DEF Lookups
  <2>2. first = 1
    BY <2>1, <1>2
  <2>. QED BY <1>1, <1>3, <2>1, <2>2 DEF HandlerFor
<1>4. CASE r \notin DOMAIN Table /\ r[1] = "head"
  <2>1. 2 \in found /\ keys[2] = uriHead /\ \A m \in found : 2 <= m
    BY <1>4, TableHasDefaults DEF Lookups
  <2>2. first = 2
    BY <2>1, <1>2
  <2>. QED BY <1>1, <1>4, <2>1, <2>2, TableHasDefaults DEF HandlerFor
<1>5. CASE r \notin DOMAIN Table /\ r[1] # "head"
  <2>1. 2 \in found /\ keys[2] = uriNotFound /\ \A m \in found : 2 <= m
    BY <1>5, TableHasDefaults DEF Lookups
  <2>2. first = 2
    BY <2>1, <1>2
  <2>. QED BY <1>1, <1>5, <2>1, <2>2, TableHasDefaults DEF HandlerFor
<1>. QED BY <1>3, <1>4, <1>5

\* Nothing that leaves the requests and the hits alone changes the count.
LEMMA CountsStand ==
    ASSUME RequestsAreCounted, UNCHANGED <<served, hits>>,
           \A k \in Worker : w'[k].request = w[k].request
    PROVE  RequestsAreCounted'
<1> SUFFICES ASSUME NEW h \in Handler
             PROVE  hits'[h] = Cardinality(Accepted(h)') - Cardinality(InProgress(h)')
  BY DEF RequestsAreCounted
<1>1. Accepted(h)' = Accepted(h) /\ InProgress(h)' = InProgress(h)
  BY DEF Accepted, InProgress
<1>. QED BY <1>1 DEF RequestsAreCounted

LEMMA CountsAreFinite ==
    ASSUME ServerTypeOK, NEW h
    PROVE  IsFiniteSet(Accepted(h)) /\ IsFiniteSet(InProgress(h))
<1>1. Accepted(h) \in SUBSET (1 .. Len(served)) /\ Len(served) \in Int
  BY DEF ServerTypeOK, Accepted
<1>2. InProgress(h) \in SUBSET (1 .. MaxWorkers) /\ MaxWorkers \in Int
  BY ServerAssumption DEF InProgress, Worker
<1>3. IsFiniteSet(1 .. Len(served)) /\ IsFiniteSet(1 .. MaxWorkers)
  BY <1>1, <1>2, FS_Interval
<1>. QED BY <1>1, <1>2, <1>3, FS_Subset

LEMMA RequestsAreNotEmpty == <<>> \notin Requests
BY WebAssumption

\* A request that is accepted is not counted yet ...
LEMMA AcceptKeepsCount ==
    ASSUME ServerTypeOK, RequestsAreCounted, NEW k \in Worker, NEW request \in Requests,
           w[k].request = <<>>, served' = Append(served, request), hits' = hits,
           w'[k].request = request, \A l \in Worker : l # k => w'[l].request = w[l].request
    PROVE  RequestsAreCounted'
<1> SUFFICES ASSUME NEW h \in Handler
             PROVE  hits'[h] = Cardinality(Accepted(h)') - Cardinality(InProgress(h)')
  BY DEF RequestsAreCounted
<1> DEFINE n == Len(served) + 1
<1>0. /\ served \in Seq(Requests) /\ n \in Nat /\ n \notin DOMAIN served
      /\ DOMAIN served' = DOMAIN served \cup {n} /\ served'[n] = request
      /\ \A m \in DOMAIN served : served'[m] = served[m]
  BY DEF ServerTypeOK
<1>f. IsFiniteSet(Accepted(h)) /\ IsFiniteSet(InProgress(h))
  BY CountsAreFinite
<1>1. CASE HandlerFor(request) = h
  <2>1. Accepted(h)' = Accepted(h) \cup {n} /\ n \notin Accepted(h)
    BY <1>0, <1>1 DEF Accepted, HandlerFor
  <2>2. InProgress(h)' = InProgress(h) \cup {k} /\ k \notin InProgress(h)
    BY <1>1, RequestsAreNotEmpty DEF InProgress, HandlerFor
  <2>3. Cardinality(Accepted(h)') = Cardinality(Accepted(h)) + 1
        /\ Cardinality(InProgress(h)') = Cardinality(InProgress(h)) + 1
    BY <1>f, <2>1, <2>2, FS_AddElement
  <2>4. Cardinality(Accepted(h)) \in Nat /\ Cardinality(InProgress(h)) \in Nat
    BY <1>f, FS_CardinalityType
  <2>. QED BY <2>3, <2>4 DEF RequestsAreCounted
<1>2. CASE HandlerFor(request) # h
  <2>1. Accepted(h)' = Accepted(h)
    BY <1>0, <1>2 DEF Accepted, HandlerFor
  <2>2. InProgress(h)' = InProgress(h)
    BY <1>2, RequestsAreNotEmpty DEF InProgress, HandlerFor
  <2>. QED BY <2>1, <2>2 DEF RequestsAreCounted
<1>. QED BY <1>1, <1>2

\* ... until it is answered, by the handler it is for.
LEMMA AnswerKeepsCount ==
    ASSUME ServerTypeOK, WebTypeOK, RequestsAreCounted, NEW k \in Worker,
           w[k].request # <<>>, served' = served,
           hits' = [hits EXCEPT ![HandlerFor(w[k].request)] = @ + 1],
           w'[k].request = <<>>, \A l \in Worker : l # k => w'[l].request = w[l].request
    PROVE  RequestsAreCounted'
<1> SUFFICES ASSUME NEW h \in Handler
             PROVE  hits'[h] = Cardinality(Accepted(h)') - Cardinality(InProgress(h)')
  BY DEF RequestsAreCounted
<1>0. Accepted(h)' = Accepted(h) /\ IsFiniteSet(Accepted(h)) /\ IsFiniteSet(InProgress(h))
  BY CountsAreFinite DEF Accepted, HandlerFor
<1>1. CASE HandlerFor(w[k].request) = h
  <2>1. InProgress(h)' = InProgress(h) \ {k} /\ k \in InProgress(h)
    BY <1>1 DEF InProgress, HandlerFor
  <2>2. Cardinality(InProgress(h)') = Cardinality(InProgress(h)) - 1
    BY <1>0, <2>1, FS_RemoveElement
  <2>3. hits'[h] = hits[h] + 1
    BY <1>1 DEF WebTypeOK
  <2>4. Cardinality(Accepted(h)) \in Nat /\ Cardinality(InProgress(h)) \in Nat
    BY <1>0, FS_CardinalityType
  <2>. QED BY <1>0, <2>2, <2>3, <2>4 DEF RequestsAreCounted
<1>2. CASE HandlerFor(w[k].request) # h
  <2>1. InProgress(h)' = InProgress(h)
    BY <1>2 DEF InProgress, HandlerFor
  <2>2. hits'[h] = hits[h]
    BY <1>2 DEF WebTypeOK
  <2>. QED BY <1>0, <2>1, <2>2 DEF RequestsAreCounted
<1>. QED BY <1>1, <1>2

-----------------------------------------------------------------------------
(* What a worker, a client or a signal does.                               *)

\* What a step of the workers or the clients has to show: it leaves the main
\* thread where it is, and the table, and if it ends the process no thread is
\* left.
StepKeeps ==
    /\ SrvInv' /\ RequestsAreCounted' /\ killed' # "stop"
    /\ UNCHANGED <<mainVars, webHandlers, objects>> /\ hits' \in [Handler -> Nat]
    /\ killed' # "no" => \A k \in Worker : w'[k].thread = "none"

LEMMA WorkerMainKeeps ==
    ASSUME SrvInv, WebTypeOK, RequestsAreCounted, Alive, end' = end, NEW k \in Worker, WorkerMain(k)
    PROVE  StepKeeps
<1>0. w[k] \in WorkerRecord /\ Runs(k) /\ w[k].thread = "main" /\ WorkerStage(k)
  BY DEF SrvInv, ServerTypeOK, WorkerMain, Runs, WorkerStages
<1>1. UNCHANGED <<mainVars, files, sockets, loopexit, killed, served, webHandlers, objects, hits>>
  BY DEF WorkerMain, webVars
<1>t. hits' \in [Handler -> Nat] /\ served \in Seq(Requests) /\ Len(served) <= MaxRequests
      /\ loopexit \in BOOLEAN /\ w \in [Worker -> WorkerRecord]
  BY <1>1 DEF WebTypeOK, SrvInv, ServerTypeOK
<1> DEFINE r == [w[k] EXCEPT !.thread = "loop"]
<1>2. w' = [w EXCEPT ![k] = r]
  BY DEF WorkerMain
<1>3. r \in WorkerRecord /\ r.thread = "loop" /\ r.request = w[k].request
      /\ r.allocated = w[k].allocated /\ r.started = w[k].started /\ r.stopSockets = w[k].stopSockets
  BY <1>0 DEF WorkerRecord
<1>4. w[k].request = <<>> /\ killed' = "no" /\ Alive'
  BY <1>0, <1>1 DEF WorkerStage, Alive
<1> HIDE DEF r
<1>5. SrvInv'
  BY <1>0, <1>1, <1>t, <1>2, <1>3, <1>4, WorkerGoesOn
<1>6. \A l \in Worker : w'[l].request = w[l].request
  BY <1>t, <1>2, <1>3
<1>7. RequestsAreCounted'
  BY <1>1, <1>6, CountsStand
<1>. QED BY <1>1, <1>t, <1>4, <1>5, <1>7 DEF StepKeeps

\* An assertion that fails ends the process.
LEMMA AssertionKeeps ==
    ASSUME SrvInv, WebTypeOK, RequestsAreCounted, Alive, end' = end, NEW k \in Worker,
           AssertionFails(k)
    PROVE  StepKeeps
<1>1. UNCHANGED <<mainVars, files, sockets, loopexit, served, webHandlers, objects, hits>>
  BY DEF AssertionFails, webVars
<1>t. hits' \in [Handler -> Nat] /\ loopexit' \in BOOLEAN
  BY <1>1 DEF WebTypeOK, SrvInv, ServerTypeOK
<1>2. killed' = "assertion" /\ w' = NoWorkerThreads /\ ~Alive'
  BY DEF AssertionFails, Alive
<1>3. SrvInv' /\ \A l \in Worker : w'[l].thread = "none" /\ w'[l].request = w[l].request
  BY <1>1, <1>t, <1>2, DeathKeepsSrvInv
<1>4. RequestsAreCounted'
  BY <1>1, <1>3, CountsStand
<1>. QED BY <1>1, <1>t, <1>2, <1>3, <1>4 DEF StepKeeps

LEMMA AcceptKeeps ==
    ASSUME SrvInv, WebTypeOK, RequestsAreCounted, Alive, end' = end, NEW k \in Worker,
           NEW request \in Requests, Accept(k, request)
    PROVE  StepKeeps
<1>0. w[k] \in WorkerRecord /\ Runs(k) /\ w[k].thread = "loop" /\ WorkerStage(k)
  BY DEF SrvInv, ServerTypeOK, Accept, Runs, WorkerStages
<1>1. UNCHANGED <<mainVars, files, sockets, loopexit, killed, webHandlers, objects, hits>>
      /\ served' = Append(served, request) /\ Len(served) < MaxRequests
  BY DEF Accept, webVars
<1>t. /\ hits' \in [Handler -> Nat] /\ served' \in Seq(Requests) /\ Len(served') <= MaxRequests
      /\ loopexit' \in BOOLEAN /\ w \in [Worker -> WorkerRecord]
  BY <1>1, ServerAssumption DEF WebTypeOK, SrvInv, ServerTypeOK
<1> DEFINE r == [w[k] EXCEPT !.thread = "handler", !.request = request]
<1>2. w' = [w EXCEPT ![k] = r]
  BY DEF Accept
<1>3. r \in WorkerRecord /\ r.thread = "handler" /\ r.request = request
      /\ r.allocated = w[k].allocated /\ r.started = w[k].started /\ r.stopSockets = w[k].stopSockets
  BY <1>0 DEF WorkerRecord
<1>4. w[k].request = <<>> /\ killed' = "no" /\ Alive' /\ request # <<>>
  BY <1>0, <1>1, RequestsAreNotEmpty DEF WorkerStage, Alive
<1> HIDE DEF r
<1>5. SrvInv'
  BY <1>0, <1>1, <1>t, <1>2, <1>3, <1>4, WorkerGoesOn
<1>6. w'[k].request = request /\ \A l \in Worker : l # k => w'[l].request = w[l].request
  BY <1>t, <1>2, <1>3
<1>7. RequestsAreCounted'
  BY <1>1, <1>4, <1>6, AcceptKeepsCount DEF SrvInv
<1>. QED BY <1>1, <1>t, <1>4, <1>5, <1>7 DEF StepKeeps

\* server_stop meets an event for its signal: the worker that calls it runs.
LEMMA HandlerKeeps ==
    ASSUME SrvInv, WebTypeOK, RequestsAreCounted, webHandlers = Table, Alive, end' = end,
           NEW k \in Worker, WorkerHandler(k)
    PROVE  StepKeeps
<1>0. w[k] \in WorkerRecord /\ Runs(k) /\ w[k].thread = "handler" /\ WorkerStage(k)
  BY DEF SrvInv, ServerTypeOK, WorkerHandler, Runs, WorkerStages
<1>1. w[k].request # <<>> /\ "sighup" \in signals
  BY <1>0, RunningWorker DEF WorkerStage, BothSignals
<1>2. /\ UNCHANGED <<mainVars, files, sockets, served, webHandlers, objects>>
      /\ w \in [Worker -> WorkerRecord] /\ served \in Seq(Requests) /\ Len(served) <= MaxRequests
  BY DEF WorkerHandler, SrvInv, ServerTypeOK
<1>3. hits' = [hits EXCEPT ![HandlerFor(w[k].request)] = @ + 1]
  BY LookupFindsHandler, TableIsNotEmpty DEF WorkerHandler, Available
<1>4. killed' = killed /\ loopexit' \in {loopexit, TRUE}
  BY <1>1 DEF WorkerHandler, Raise
<1>a. hits' \in [Handler -> Nat]
  BY <1>3, HandlersFound DEF WebTypeOK
<1>b. loopexit' \in BOOLEAN
  BY <1>4 DEF SrvInv, ServerTypeOK
<1>t. loopexit' \in BOOLEAN /\ hits' \in [Handler -> Nat] /\ killed' = "no" /\ Alive'
  BY <1>4, <1>a, <1>b DEF Alive
<1> DEFINE r == [w[k] EXCEPT !.thread = "loop", !.request = <<>>]
<1>5. w' = [w EXCEPT ![k] = r]
  BY DEF WorkerHandler
<1>6. r \in WorkerRecord /\ r.thread = "loop" /\ r.request = <<>>
      /\ r.allocated = w[k].allocated /\ r.started = w[k].started /\ r.stopSockets = w[k].stopSockets
  BY <1>0 DEF WorkerRecord
<1> HIDE DEF r
<1>7. SrvInv'
  BY <1>0, <1>2, <1>t, <1>5, <1>6, WorkerGoesOn
<1>8. w'[k].request = <<>> /\ \A l \in Worker : l # k => w'[l].request = w[l].request
  BY <1>2, <1>5, <1>6
<1>9. RequestsAreCounted'
  BY <1>1, <1>2, <1>3, <1>8, AnswerKeepsCount DEF SrvInv
<1>. QED BY <1>2, <1>t, <1>7, <1>9 DEF StepKeeps

\* The end of a worker's loop.
LEMMA LoopEndKeeps ==
    ASSUME SrvInv, WebTypeOK, RequestsAreCounted, Alive, end' = end, NEW k \in Worker,
           WorkerStopHandler(k) \/ LeaveLoop(k)
    PROVE  StepKeeps
<1>0. w[k] \in WorkerRecord /\ Runs(k) /\ w[k].thread = "loop" /\ WorkerStage(k)
  BY DEF SrvInv, ServerTypeOK, WorkerStopHandler, LeaveLoop, Runs, WorkerStages
<1>1. /\ UNCHANGED <<mainVars, sockets, loopexit, killed, served, webHandlers, objects, hits>>
      /\ files' = files \/ files' = CloseListening(files)
  BY DEF WorkerStopHandler, LeaveLoop, webVars
<1>t. /\ hits' \in [Handler -> Nat] /\ served' \in Seq(Requests) /\ Len(served') <= MaxRequests
      /\ loopexit' \in BOOLEAN /\ w \in [Worker -> WorkerRecord]
  BY <1>1 DEF WebTypeOK, SrvInv, ServerTypeOK
<1>2. w[k].request = <<>> /\ killed' = "no" /\ Alive'
  BY <1>0, <1>1 DEF WorkerStage, Alive
<1>3. PICK r \in WorkerRecord :
        /\ w' = [w EXCEPT ![k] = r] /\ r.thread \in {"loop", "closing"} /\ r.request = w[k].request
        /\ r.allocated = w[k].allocated /\ r.started = w[k].started /\ r.stopSockets = w[k].stopSockets
  <2>1. CASE WorkerStopHandler(k)
    <3> DEFINE r == [w[k] EXCEPT !.byte = FALSE, !.loopexit = TRUE]
    <3>1. w' = [w EXCEPT ![k] = r]
      BY <2>1 DEF WorkerStopHandler
    <3>2. r \in WorkerRecord /\ r.thread = "loop" /\ r.request = w[k].request
          /\ r.allocated = w[k].allocated /\ r.started = w[k].started /\ r.stopSockets = w[k].stopSockets
      BY <1>0 DEF WorkerRecord
    <3> HIDE DEF r
    <3>. QED BY <3>1, <3>2
  <2>2. CASE LeaveLoop(k)
    <3> DEFINE r == [w[k] EXCEPT !.thread = "closing"]
    <3>1. w' = [w EXCEPT ![k] = r]
      BY <2>2 DEF LeaveLoop
    <3>2. r \in WorkerRecord /\ r.thread = "closing" /\ r.request = w[k].request
          /\ r.allocated = w[k].allocated /\ r.started = w[k].started /\ r.stopSockets = w[k].stopSockets
      BY <1>0 DEF WorkerRecord
    <3> HIDE DEF r
    <3>. QED BY <3>1, <3>2
  <2>. QED BY <2>1, <2>2
<1>4. SrvInv'
  BY <1>0, <1>1, <1>t, <1>2, <1>3, WorkerGoesOn
<1>5. \A l \in Worker : w'[l].request = w[l].request
  BY <1>t, <1>3
<1>6. RequestsAreCounted'
  BY <1>1, <1>5, CountsStand
<1>. QED BY <1>1, <1>t, <1>2, <1>4, <1>6 DEF StepKeeps

LEMMA CloseKeeps ==
    ASSUME SrvInv, WebTypeOK, RequestsAreCounted, Alive, end' = end, NEW k \in Worker,
           CloseOwnSocket(k)
    PROVE  StepKeeps
<1>1. UNCHANGED <<mainVars, loopexit, killed, served, webHandlers, objects, hits>>
  BY DEF CloseOwnSocket, webVars
<1>2. SrvInv' /\ killed' = "no"
  BY <1>1, CloseKeepsSrvInv DEF Alive
<1>3. \A l \in Worker : w'[l].request = w[l].request
  BY DEF CloseOwnSocket, SrvInv, ServerTypeOK, WorkerRecord
<1>4. RequestsAreCounted'
  BY <1>1, <1>3, CountsStand
<1>. QED BY <1>1, <1>2, <1>4 DEF StepKeeps, WebTypeOK

\* A signal ends the loop of the main thread or the process.
LEMMA SignalKeeps ==
    ASSUME SrvInv, WebTypeOK, RequestsAreCounted, Alive, end' = end, NEW sig, Signal(sig)
    PROVE  StepKeeps
<1>1. UNCHANGED <<mainVars, files, sockets, served, webHandlers, objects, hits>>
  BY DEF Signal, webVars
<1>t. hits' \in [Handler -> Nat] /\ loopexit \in BOOLEAN
  BY <1>1 DEF WebTypeOK, SrvInv, ServerTypeOK
<1>2. CASE sig \in signals
  <2>1. killed' = "no" /\ w' = w /\ loopexit' = TRUE /\ Alive'
    BY <1>2 DEF Signal, Raise, Alive
  <2>2. ServerTypeOK' /\ ServerStages'
    BY <1>1, <2>1 DEF SrvInv, ServerTypeOK, ServerStages, mainVars
  <2>3. WorkerStages'
    BY <1>1, <2>1 DEF SrvInv, WorkerStages, WorkerStage, IsAllocated, EndsOf, mainVars, Alive
  <2>4. RequestsAreCounted'
    BY <1>1, <2>1, CountsStand
  <2>. QED BY <1>1, <1>t, <2>1, <2>2, <2>3, <2>4 DEF StepKeeps, SrvInv
<1>3. CASE sig \notin signals
  <2>1. killed' = "user" /\ w' = NoWorkerThreads /\ loopexit' = loopexit /\ ~Alive'
    BY <1>3 DEF Signal, Raise, Alive
  <2>2. SrvInv' /\ \A l \in Worker : w'[l].thread = "none" /\ w'[l].request = w[l].request
    BY <1>1, <1>t, <2>1, DeathKeepsSrvInv
  <2>3. RequestsAreCounted'
    BY <1>1, <2>2, CountsStand
  <2>. QED BY <1>1, <1>t, <2>1, <2>2, <2>3 DEF StepKeeps
<1>. QED BY <1>2, <1>3

-----------------------------------------------------------------------------
(* The steps of main().                                                    *)

LEMMA RunServerKeeps ==
    ASSUME SrvInv, Alive, end' = end, RunServer \/ DispatchFails
    PROVE  /\ SrvInv' /\ srv' \in RunStages /\ killed' = killed /\ served' = served
           /\ \A k \in Worker : w'[k].request = w[k].request
<1>1. SrvInv'
  BY StartKeepsSrvInv, WorkerNewKeepsSrvInv, WorkerStartKeepsSrvInv, WorkerStopKeepsSrvInv,
     WorkerFreeKeepsSrvInv DEF RunServer
<1>2. srv' \in RunStages /\ killed' = killed /\ served' = served
  BY DEF RunServer, ServerNew, NewArray, WorkerNew, EventBaseNew, AddSignals, AddSignal, SetupSocket,
         BindAndListen, SocketPair, CreateWorker, Dispatch, DispatchFails, WorkerStop, WorkerFree,
         DeleteSignals, Release, ServerFree, PulsarFails, RunStages, Starting, Serving, Stopping
<1>3. w \in [Worker -> WorkerRecord] /\ i \in Worker
  BY DEF SrvInv, ServerTypeOK
<1>4. \A k \in Worker : w'[k].request = w[k].request
  <2>1. CASE WorkerNew
    BY <1>3, <2>1 DEF WorkerNew, WorkerRecord
  <2>2. CASE SocketPair \/ CreateWorker
    BY <1>3, <2>2 DEF SocketPair, CreateWorker, WorkerRecord
  <2>3. CASE WorkerStop \/ WorkerFree
    BY <1>3, <2>3 DEF WorkerStop, WorkerFree, WorkerRecord
  <2>4. CASE w' = w
    BY <2>4
  <2>. QED BY <2>1, <2>2, <2>3, <2>4
           DEF RunServer, ServerNew, NewArray, EventBaseNew, AddSignals, AddSignal, SetupSocket,
               BindAndListen, Dispatch, DispatchFails, DeleteSignals, Release
<1>. QED BY <1>1, <1>2, <1>4

LEMMA SrvInvStands ==
    ASSUME SrvInv, UNCHANGED <<serverVars, end>>
    PROVE  SrvInv'
<1> USE DEF SrvInv, serverVars
<1>1. ServerTypeOK' /\ ServerStages'
  BY DEF ServerTypeOK, ServerStages
<1>2. WorkerStages'
  BY DEF WorkerStages, WorkerStage, IsAllocated, EndsOf, Alive
<1>. QED BY <1>1, <1>2

LEMMA DevInvStands ==
    ASSUME DevInv, UNCHANGED backendVars
    PROVE  DevInv'
<1> USE DEF DevInv, backendVars, memberVars
<1>1. BackendTypeOK' /\ DeviceStages'
  BY DEF BackendTypeOK, DeviceStages
<1>2. UserStages'
  BY DEF UserStages, DeviceIsReady, BitBangs
<1>3. DevicesAreOwned'
  BY DEF DevicesAreOwned, KernelAgrees, BurstPinsAreOwned, OnlyTheKernelAborts
<1>. QED BY <1>1, <1>2, <1>3

LEMMA InitStages == Init => Stages
<1> SUFFICES ASSUME Init PROVE Stages
  OBVIOUS
<1> USE DEF Init
<1>1. DevInv /\ SrvInv
  BY InitDevInv, InitSrvInv
<1>2. WebTypeOK /\ WebStages
  BY DEF WebInit, WebTypeOK, WebStages
<1>3. Phases
  BY DEF BackendInit, ServerInit, Phases, Initializing, Unopened, Alive
<1>4. RequestsAreCounted
  <2> SUFFICES ASSUME NEW h \in Handler
               PROVE  hits[h] = Cardinality(Accepted(h)) - Cardinality(InProgress(h))
    BY DEF RequestsAreCounted
  <2>1. Accepted(h) = {} /\ InProgress(h) = {} /\ hits[h] = 0
    BY DEF Accepted, InProgress, ServerInit, WebInit, NoWorker
  <2>. QED BY <2>1, EndsAreCounted
<1>. QED BY <1>1, <1>2, <1>3, <1>4 DEF Stages, ServerInit, StopNeverKills

LEMMA RunningIsAlive == Running => Alive /\ dev # "gone"
BY DEF Running, Alive

\* Up to the server: the devices, the web handlers, the options, the threads.
LEMMA InitializeDeviceKeeps ==
    ASSUME Stages, Running, InitializeDevice
    PROVE  Stages'
<1> USE DEF Stages, InitializeDevice
<1>1. DevInv'
  BY InitializeKeepsDevInv DEF Phases
<1>2. end' = end /\ user' = user /\ dev' \in Initializing
  BY DEF InitializeDevices, OpenCandidate, ExamineCandidate, NoChip, ValidateRequiredOffsets,
         InitializeValueIo, MapRegisters, OpenStripDevice, ConfigureStripDevice,
         OpenIioDirectory, SearchIioDirectory, GpioFails, Initializing, Unopened, ChipOpen
<1>3. SrvInv'
  BY <1>2, SrvInvStands
<1>4. UNCHANGED <<served, hits, w, killed, srv, webHandlers, objects>>
  BY DEF serverVars, webVars
<1>5. RequestsAreCounted' /\ StopNeverKills'
  BY <1>4, CountsStand DEF StopNeverKills
<1>6. WebTypeOK' /\ WebStages'
  BY <1>4 DEF WebTypeOK, WebStages
<1>7. Phases'
  BY <1>2, <1>4, RunningIsAlive DEF Phases, Alive
<1>. QED BY <1>1, <1>3, <1>5, <1>6, <1>7

\* main() returns: with what it has, and without a thread that uses it.
LEMMA ReturnKeepsDevInv ==
    ASSUME DevInv, dev \in {"failed", "up"}, dev' = "destroy",
           \A t \in User : user[t] \in {"none", "ended"},
           UNCHANGED <<build, candidates, memberVars, kernel, requests, burst, user, end>>
    PROVE  DevInv'
<1> USE DEF DevInv, memberVars
<1>1. BackendTypeOK' /\ DeviceStages'
  BY DEF BackendTypeOK, DeviceStages, Unopened, ChipOpen
<1>2. UserStages'
  BY DEF UserStages
<1>3. DevicesAreOwned'
  BY DEF DevicesAreOwned, KernelAgrees, BurstPinsAreOwned, OnlyTheKernelAborts
<1>. QED BY <1>1, <1>2, <1>3

LEMMA DeviceFailedKeeps ==
    ASSUME Stages, Running, DeviceFailed
    PROVE  Stages'
<1> USE DEF Stages, DeviceFailed
<1>1. DevInv'
  BY ReturnKeepsDevInv DEF Phases
<1>2. SrvInv'
  BY SrvInvStands
<1>3. UNCHANGED <<served, hits, w, killed, srv, webHandlers, objects>>
  BY DEF serverVars, webVars
<1>4. RequestsAreCounted' /\ StopNeverKills'
  BY <1>3, CountsStand DEF StopNeverKills
<1>5. WebTypeOK' /\ WebStages'
  BY <1>3 DEF WebTypeOK, WebStages
<1>6. Phases'
  BY <1>3, RunningIsAlive DEF Phases, Alive, Destroying
<1>. QED BY <1>1, <1>2, <1>4, <1>5, <1>6

LEMMA StartHandlersKeeps ==
    ASSUME Stages, Running, StartHandlers
    PROVE  Stages'
<1> USE DEF Stages, StartHandlers
<1>1. DevInv' /\ SrvInv'
  BY DevInvStands, SrvInvStands DEF backendVars
<1>2. UNCHANGED <<dev, user, end, served, hits, w, killed, srv>>
  BY DEF backendVars, serverVars, StartWeb
<1>3. RequestsAreCounted' /\ StopNeverKills'
  BY <1>2, CountsStand DEF StopNeverKills
<1>4. webHandlers' = Table /\ objects' = [h \in Handler |-> 1]
  BY DEF StartWeb, WebTypeOK, WebStages
<1>5. WebTypeOK' /\ WebStages'
  BY <1>2, <1>4 DEF WebTypeOK, WebStages
<1>6. Phases'
  BY <1>2, RunningIsAlive DEF Phases, Alive, ParseStages
<1>. QED BY <1>1, <1>3, <1>5, <1>6

LEMMA ReadOptionsKeeps ==
    ASSUME Stages, Running, ReadOptions
    PROVE  Stages'
<1> USE DEF Stages, ReadOptions
<1>1. UNCHANGED <<dev, user, end, webHandlers, objects, hits>>
  BY DEF backendVars, webVars
<1>2. UNCHANGED <<served, w, killed>> /\ srv' \in ParseStages
  BY DEF ParseArgs, LogNew, ConfNew, WorkersOption, LogOption, BadOption, EndOfOptions, ParseStages
<1>3. DevInv' /\ SrvInv'
  BY <1>1, DevInvStands, ParseKeepsSrvInv, RunningIsAlive
<1>4. RequestsAreCounted' /\ StopNeverKills'
  BY <1>1, <1>2, CountsStand DEF StopNeverKills
<1>5. WebTypeOK' /\ WebStages'
  BY <1>1 DEF WebTypeOK, WebStages
<1>6. Phases'
  BY <1>1, <1>2, RunningIsAlive DEF Phases, Alive
<1>. QED BY <1>3, <1>4, <1>5, <1>6

\* The light sensor has nothing to configure, and its device was found.
LEMMA StartThreadsKeeps ==
    ASSUME Stages, Running, StartThreads
    PROVE  Stages'
<1> USE DEF Stages, StartThreads
<1>0. dev = "up" /\ dev' = dev /\ \A t \in User : user[t] = "none"
  BY DEF Phases
<1>1. /\ \A t \in User \ {"light"} : user'[t] = "configure"
      /\ user' \in [User -> {"none", "configure", "run", "ended"}]
  BY DEF User
<1>a. user'["display"] = "configure"
  BY <1>1 DEF User
<1>2. BackendTypeOK' /\ DeviceStages'
  BY <1>1 DEF DevInv, BackendTypeOK, DeviceStages, memberVars
<1>3. DeviceIsReady("light")
  BY <1>0 DEF DeviceIsReady, BitBangs, DevInv, DeviceStages
<1>4. DeviceIsReady("light")'
  BY <1>3 DEF DeviceIsReady, BitBangs, memberVars
<1>5. UserStages'
  BY <1>0, <1>1, <1>4 DEF DevInv, UserStages, memberVars
<1>6. DevicesAreOwned'
  BY <1>0, <1>a DEF DevInv, DevicesAreOwned, KernelAgrees, BurstPinsAreOwned, OnlyTheKernelAborts,
                    memberVars
<1>7. ServerTypeOK' /\ ServerStages'
  BY DEF SrvInv, ServerTypeOK, ServerStages, RunStages, Starting, Serving, Stopping
<1>8. WorkerStages'
  BY DEF SrvInv, WorkerStages, WorkerStage, IsAllocated, EndsOf, Alive, Starting, Serving, Stopping
<1>9. UNCHANGED <<served, w, killed, end, webHandlers, objects, hits>>
  BY DEF webVars
<1>b. RequestsAreCounted' /\ StopNeverKills'
  BY <1>9, CountsStand DEF StopNeverKills
<1>c. WebTypeOK' /\ WebStages'
  BY <1>9 DEF WebTypeOK, WebStages
<1>d. Phases'
  BY <1>0, <1>9, RunningIsAlive DEF Phases, Alive, RunStages
<1>. QED BY <1>2, <1>5, <1>6, <1>7, <1>8, <1>b, <1>c, <1>d DEF DevInv, SrvInv

LEMMA ServerStepKeeps ==
    ASSUME Stages, Running, main = "server", RunServer \/ DispatchFails,
           UNCHANGED <<main, backendVars, webVars>>
    PROVE  Stages'
<1> USE DEF Stages
<1>1. UNCHANGED <<dev, user, end, webHandlers, objects, hits>>
  BY DEF backendVars, webVars
<1>2. /\ SrvInv' /\ srv' \in RunStages /\ killed' = killed /\ served' = served
      /\ \A k \in Worker : w'[k].request = w[k].request
  BY <1>1, RunServerKeeps, RunningIsAlive
<1>3. DevInv'
  BY DevInvStands
<1>4. RequestsAreCounted' /\ StopNeverKills'
  BY <1>1, <1>2, CountsStand DEF StopNeverKills
<1>5. WebTypeOK' /\ WebStages'
  BY <1>1 DEF WebTypeOK, WebStages
<1>6. Phases'
  BY <1>1, <1>2, RunningIsAlive DEF Phases, Alive
<1>. QED BY <1>2, <1>3, <1>4, <1>5, <1>6

\* The end: every thread is told to end, and joined.
LEMMA JoinKeeps ==
    ASSUME Stages, Running, BroadcastTerminate \/ JoinThreads
    PROVE  Stages'
<1> USE DEF Stages, BroadcastTerminate, JoinThreads
<1>1. UNCHANGED <<dev, user, end, served, w, killed, srv, webHandlers, objects, hits>>
  BY DEF backendVars, serverVars, webVars
<1>2. DevInv' /\ SrvInv'
  BY <1>1, DevInvStands, SrvInvStands
<1>3. RequestsAreCounted' /\ StopNeverKills'
  BY <1>1, CountsStand DEF StopNeverKills
<1>4. WebTypeOK' /\ WebStages'
  BY <1>1 DEF WebTypeOK, WebStages
<1>5. Phases'
  BY <1>1, RunningIsAlive DEF Phases, Alive
<1>. QED BY <1>2, <1>3, <1>4, <1>5

LEMMA HandlersAreInTheTable == Handler = {Table[k] : k \in DOMAIN Table}
BY DEF Handler

LEMMA ShutdownKeeps ==
    ASSUME Stages, Running, ShutdownAndReturn
    PROVE  Stages'
<1> USE DEF Stages, ShutdownAndReturn
<1>1. DevInv'
  BY ReturnKeepsDevInv DEF Phases
<1>2. SrvInv'
  BY SrvInvStands
<1>3. UNCHANGED <<served, hits, w, killed, srv>>
  BY DEF serverVars, ShutdownWeb
<1>4. RequestsAreCounted' /\ StopNeverKills'
  BY <1>3, CountsStand DEF StopNeverKills
<1>5. webHandlers = Table /\ \A h \in Handler : objects[h] = 1
  BY DEF WebStages
<1>6. webHandlers' = <<>> /\ objects' = [h \in Handler |-> 0]
  BY <1>5, HandlersAreInTheTable DEF ShutdownWeb
<1>7. WebTypeOK' /\ WebStages'
  BY <1>3, <1>6 DEF WebTypeOK, WebStages
<1>8. Phases'
  BY <1>3, RunningIsAlive DEF Phases, Alive, Destroying
<1>. QED BY <1>1, <1>2, <1>4, <1>7, <1>8

LEMMA DestroyKeeps ==
    ASSUME Stages, Running, Destroy
    PROVE  Stages'
<1> USE DEF Stages, Destroy
<1>1. end' = end /\ user' = user /\ dev' \in Destroying
  BY DEF DestroyDevices, DestroyStripDevice, DestroyGpio, DestroyValueIo, Destroying
<1>2. DevInv' /\ SrvInv'
  BY <1>1, DestroyKeepsDevInv, SrvInvStands DEF Phases
<1>3. UNCHANGED <<served, hits, w, killed, srv, webHandlers, objects>>
  BY DEF serverVars, webVars
<1>4. RequestsAreCounted' /\ StopNeverKills'
  BY <1>3, CountsStand DEF StopNeverKills
<1>5. WebTypeOK' /\ WebStages'
  BY <1>3 DEF WebTypeOK, WebStages
<1>6. Phases'
  BY <1>1, <1>3, RunningIsAlive DEF Phases, Alive
<1>. QED BY <1>2, <1>4, <1>5, <1>6

-----------------------------------------------------------------------------
(* The steps of the others.                                                *)

\* What a thread does with its device.
LEMMA UserThreadKeeps ==
    ASSUME Stages, Running, NEW t \in User, UserThread(t)
    PROVE  Stages'
<1> USE DEF Stages, UserThread
<1>1. DevInv'
  BY ConfigureKeepsDevInv, BeginKeepsDevInv, EndUseKeepsDevInv
<1>2. UNCHANGED <<served, hits, w, killed, srv, webHandlers, objects, main>>
  BY DEF serverVars, webVars
<1>3. UNCHANGED <<dev, end>>
  BY DEF Configure, Begin, EndUse
<1>4. user[t] \in {"configure", "run"}
  BY DEF Configure, Begin, EndUse
<1>5. main \notin {"devices", "options", "shutdown", "return"}
  BY <1>4 DEF Phases
<1>6. SrvInv'
  BY <1>3, SrvInvStands
<1>7. RequestsAreCounted' /\ StopNeverKills'
  BY <1>2, CountsStand DEF StopNeverKills
<1>8. WebTypeOK' /\ WebStages'
  BY <1>2 DEF WebTypeOK, WebStages
<1>9. Phases'
  BY <1>2, <1>3, <1>5, RunningIsAlive DEF Phases, Alive
<1>. QED BY <1>1, <1>6, <1>7, <1>8, <1>9

\* An exception that leaves a thread ends the process.
LEMMA DeviceThrowsKeeps ==
    ASSUME Stages, Running, NEW t \in User, DeviceThrows(t)
    PROVE  Stages'
<1> USE DEF Stages, DeviceThrows
<1>1. DevInv' /\ end' = "kernel" /\ user' = NoThreads
  BY ConfigureFailsKeepsDevInv, UseFailsKeepsDevInv
<1>2. UNCHANGED <<mainVars, files, sockets, served, hits, killed, srv, webHandlers, objects, main,
                  loopexit>>
  BY DEF mainVars, webVars
<1>3. dev' = dev
  BY DEF ConfigureFails, UseFails, ReadOrWriteThrows, TransferThrows, ReadAnalogThrows, Throws
<1>4. /\ ~Alive' /\ w' = NoWorkerThreads /\ loopexit' \in BOOLEAN
      /\ killed' \in {"no", "user", "stop", "assertion"}
  BY <1>1, <1>2 DEF Alive, SrvInv, ServerTypeOK
<1>5. SrvInv' /\ \A k \in Worker : w'[k].thread = "none" /\ w'[k].request = w[k].request
  BY <1>2, <1>4, DeathKeepsSrvInv
<1>6. RequestsAreCounted' /\ StopNeverKills'
  BY <1>2, <1>5, CountsStand DEF StopNeverKills
<1>7. WebTypeOK' /\ WebStages'
  BY <1>2 DEF WebTypeOK, WebStages
<1>8. \A u \in User : user'[u] = "none"
  BY <1>1 DEF NoThreads
<1>9. Phases'
  BY <1>2, <1>3, <1>5, <1>8, RunningIsAlive DEF Phases
<1>. QED BY <1>1, <1>5, <1>6, <1>7, <1>9

\* What the workers and the clients do leaves the devices alone.
LEMMA OthersKeep ==
    ASSUME Stages, Running, StepKeeps, OthersUnlessKilled
    PROVE  Stages'
<1> USE DEF Stages, StepKeeps, OthersUnlessKilled
<1>1. UNCHANGED <<build, dev, candidates, memberVars, kernel, requests, burst, end, main, srv>>
  BY DEF mainVars
<1>2. \A t \in User : user'[t] \in {user[t], "none", "ended"}
  BY DEF NoThreads
<1>3. user' \in [User -> {"none", "configure", "run", "ended"}]
  BY DEF DevInv, BackendTypeOK, NoThreads
<1>4. BackendTypeOK'
  BY <1>1, <1>3 DEF DevInv, BackendTypeOK, memberVars
<1>5. DevInv'
  BY <1>1, <1>2, <1>4, EndKeepsDevInv DEF DevInv, DevicesAreOwned, OnlyTheKernelAborts
<1>6. StopNeverKills'
  BY DEF StopNeverKills
<1>7. WebTypeOK' /\ WebStages'
  BY <1>1 DEF WebTypeOK, WebStages
<1>8. killed' = "no" => user' = user
  OBVIOUS
<1>9. killed' # "no" => \A t \in User : user'[t] = "none"
  BY DEF NoThreads
<1>a. Phases'
  BY <1>1, <1>8, <1>9, RunningIsAlive DEF Phases, Alive
<1>. QED BY <1>5, <1>6, <1>7, <1>a

\* A worker runs only while main() is in the server, so the table is there.
LEMMA WorkerThreadKeeps ==
    ASSUME Stages, Running, NEW k \in Worker, WorkerThread(k)
    PROVE  Stages'
<1> USE DEF Stages, WorkerThread
<1>1. Alive /\ end' = end
  BY RunningIsAlive DEF OthersUnlessKilled
<1>2. Runs(k)
  BY DEF WorkerStep, WorkerMain, WorkerHandler, WorkerStopHandler, LeaveLoop, CloseOwnSocket, Runs
<1>3. srv \in Serving \cup {"stop", "free"}
  BY <1>1, <1>2, RunningWorker
<1>4. webHandlers = Table
  BY <1>3 DEF Phases, WebStages, ParseStages, Serving
<1>5. StepKeeps
  BY <1>1, <1>4, WorkerMainKeeps, HandlerKeeps, LoopEndKeeps, CloseKeeps DEF WorkerStep
<1>. QED BY <1>5, OthersKeep

LEMMA ClientKeeps ==
    ASSUME Stages, Running, Client
    PROVE  Stages'
<1>1. Alive /\ end' = end
  BY RunningIsAlive DEF Client, OthersUnlessKilled
<1>2. StepKeeps
  BY <1>1, AcceptKeeps, SignalKeeps DEF Stages, Client
<1>. QED BY <1>2, OthersKeep DEF Client

LEMMA EventsFailKeeps ==
    ASSUME Stages, Running, EventsFail
    PROVE  Stages'
<1>1. CASE main = "server" /\ DispatchFails /\ UNCHANGED <<main, backendVars, webVars>>
  BY <1>1, ServerStepKeeps
<1>2. ASSUME NEW k \in Worker, AssertionFails(k), OthersUnlessKilled PROVE Stages'
  <2>1. Alive /\ end' = end
    BY <1>2, RunningIsAlive DEF OthersUnlessKilled
  <2>2. StepKeeps
    BY <1>2, <2>1, AssertionKeeps DEF Stages
  <2>. QED BY <1>2, <2>2, OthersKeep
<1>. QED BY <1>1, <1>2 DEF EventsFail

LEMMA StagesAreKept == Stages /\ [Next]_vars => Stages'
<1> SUFFICES ASSUME Stages, [Next]_vars PROVE Stages'
  OBVIOUS
<1>1. CASE Running /\ MainThread
  BY <1>1, InitializeDeviceKeeps, DeviceFailedKeeps, StartHandlersKeeps, ReadOptionsKeeps,
     StartThreadsKeeps, ServerStepKeeps, JoinKeeps, ShutdownKeeps, DestroyKeeps DEF MainThread, PulsarMain
<1>2. ASSUME Running, NEW t \in User, UserThread(t) PROVE Stages'
  BY <1>2, UserThreadKeeps
<1>3. ASSUME Running, NEW k \in Worker, WorkerThread(k) PROVE Stages'
  BY <1>3, WorkerThreadKeeps
<1>4. ASSUME Running, NEW t \in User, DeviceThrows(t) PROVE Stages'
  BY <1>4, DeviceThrowsKeeps
<1>5. CASE Running /\ Client
  BY <1>5, ClientKeeps
<1>7. CASE Running /\ EventsFail
  BY <1>7, EventsFailKeeps
<1>6. CASE UNCHANGED vars
  <2> USE <1>6 DEF Stages, vars
  <2>1. UNCHANGED <<dev, user, end, served, w, killed, srv, webHandlers, objects, hits, main>>
    BY DEF backendVars, serverVars, webVars
  <2>2. DevInv' /\ SrvInv'
    BY <2>1, DevInvStands, SrvInvStands
  <2>3. RequestsAreCounted' /\ StopNeverKills'
    BY <2>1, CountsStand DEF StopNeverKills
  <2>4. WebTypeOK' /\ WebStages' /\ Phases'
    BY <2>1 DEF WebTypeOK, WebStages, Phases, Alive
  <2>. QED BY <2>2, <2>3, <2>4
<1>. QED BY <1>1, <1>2, <1>3, <1>4, <1>5, <1>6, <1>7 DEF Next, Thread, Over

-----------------------------------------------------------------------------
(* The listening socket.                                                   *)

\* Who leaves the socket and the workers alone, or ends the process.
LEMMA ListeningStands ==
    ASSUME Listening, UNCHANGED <<srv, fd, files>>,
           \A k \in Worker : w'[k].byte = w[k].byte /\ w'[k].loopexit = w[k].loopexit,
           Alive' => Alive /\ \A k \in Worker : HasLeft(k) => w'[k].thread \in {"closing", "done"}
    PROVE  Listening'
BY DEF Listening, NoneIsToldToEnd, HasLeft

\* Up to the server there is no socket.
LEMMA NoSocketYet ==
    ASSUME Listening, fd < 0, fd' = fd, fd \in {-1, 0}, w' = w,
           srv \notin Stopping \cup {"done"}
    PROVE  Listening'
BY DEF Listening, NoneIsToldToEnd

\* The server makes the socket before the first worker, and tells no worker to
\* end before server_free.
LEMMA ServerKeepsListening ==
    ASSUME SrvInv, Listening, Alive, end' = end, RunServer \/ DispatchFails
    PROVE  Listening'
<1>0. /\ fd \in {-1, 0} /\ files \in [{"log", "listen"} -> {0, 1}] /\ i \in Worker
      /\ w \in [Worker -> WorkerRecord]
  BY DEF SrvInv, ServerTypeOK
<1>1. CASE ServerNew \/ NewArray \/ EventBaseNew \/ AddSignals \/ SetupSocket
  <2>1. srv \notin Serving \cup Stopping \cup {"done"} /\ fd' = fd /\ w' = w
    BY <1>1 DEF ServerNew, NewArray, EventBaseNew, AddSignals, AddSignal, SetupSocket, Serving, Stopping
  <2>2. fd < 0
    BY <2>1, <1>0 DEF SrvInv, ServerStages
  <2>. QED BY <1>0, <2>1, <2>2, NoSocketYet
<1>2. CASE WorkerNew
  <2>1. /\ srv = "workers" /\ fd' = fd
        /\ \A k \in Worker : w'[k].byte = w[k].byte /\ w'[k].loopexit = w[k].loopexit
    BY <1>0, <1>2 DEF WorkerNew, WorkerRecord
  <2>2. ~(fd >= 0)
    BY <2>1, <1>0 DEF SrvInv, ServerStages, Serving, Stopping
  <2>. QED BY <2>1, <2>2 DEF Listening, NoneIsToldToEnd, Stopping
<1>3. CASE BindAndListen
  <2>1. srv = "bind" /\ w' = w /\ files["listen"] = 1
    BY <1>3 DEF BindAndListen, SrvInv, ServerStages
  <2>2. ~(fd >= 0)
    BY <2>1, <1>0 DEF SrvInv, ServerStages, Serving, Stopping
  <2>. QED BY <1>3, <2>1, <2>2 DEF BindAndListen, Listening, NoneIsToldToEnd, Stopping
<1>4. CASE SocketPair \/ CreateWorker \/ Dispatch \/ DispatchFails
  <2>1. /\ srv \in Serving /\ UNCHANGED <<fd, files>>
        /\ \A k \in Worker : w'[k].byte = w[k].byte /\ w'[k].loopexit = w[k].loopexit
    <3>1. CASE SocketPair
      BY <1>0, <3>1 DEF SocketPair, WorkerRecord, Serving
    <3>2. CASE CreateWorker
      BY <1>0, <3>2 DEF CreateWorker, WorkerRecord, Serving
    <3>3. CASE Dispatch \/ DispatchFails
      BY <3>3 DEF Dispatch, DispatchFails, Serving
    <3>. QED BY <1>4, <3>1, <3>2, <3>3
  <2>2. fd >= 0 => files["listen"] = 1
    BY <2>1 DEF Listening, Serving, Stopping
  <2>. QED BY <2>1, <2>2 DEF Listening, NoneIsToldToEnd, Serving, Stopping
<1>5. CASE WorkerStop \/ WorkerFree
  <2>1. /\ srv \in Stopping /\ srv' \in Stopping /\ UNCHANGED <<fd, files>>
        /\ \A k \in Worker : w'[k].thread = w[k].thread
    <3>1. CASE WorkerStop
      BY <1>0, <3>1 DEF WorkerStop, WorkerRecord, Stopping
    <3>2. CASE WorkerFree
      BY <1>0, <3>2 DEF WorkerFree, WorkerRecord, Stopping
    <3>. QED BY <1>5, <3>1, <3>2
  <2>. QED BY <2>1 DEF Listening, HasLeft
<1>6. CASE DeleteSignals
  BY <1>6 DEF DeleteSignals, Listening, HasLeft, Stopping
<1>7. CASE Release
  BY <1>7 DEF Release, Listening
<1>. QED BY <1>1, <1>2, <1>3, <1>4, <1>5, <1>6, <1>7 DEF RunServer

\* A worker that is told to end takes the socket along.
LEMMA WorkerKeepsListening ==
    ASSUME SrvInv, Listening, Alive, end' = end, NEW k \in Worker, WorkerStep(k)
    PROVE  Listening'
<1>0. w \in [Worker -> WorkerRecord] /\ fd \in {-1, 0}
  BY DEF SrvInv, ServerTypeOK
<1>1. UNCHANGED <<srv, fd>>
  BY DEF WorkerStep, WorkerMain, WorkerHandler, WorkerStopHandler, LeaveLoop, CloseOwnSocket, mainVars
<1>2. CASE WorkerMain(k)
  <2>1. /\ files' = files
        /\ \A l \in Worker : /\ w'[l].byte = w[l].byte /\ w'[l].loopexit = w[l].loopexit
                             /\ HasLeft(l) => w'[l].thread \in {"closing", "done"}
    BY <1>0, <1>2 DEF WorkerMain, WorkerRecord, HasLeft
  <2>. QED BY <1>1, <2>1, ListeningStands
<1>3. CASE WorkerHandler(k)
  <2>1. /\ files' = files
        /\ \A l \in Worker : /\ w'[l].byte = w[l].byte /\ w'[l].loopexit = w[l].loopexit
                             /\ HasLeft(l) => w'[l].thread \in {"closing", "done"}
    BY <1>0, <1>3 DEF WorkerHandler, WorkerRecord, HasLeft
  <2>. QED BY <1>1, <2>1, ListeningStands
<1>4. CASE WorkerStopHandler(k)
  <2>1. w[k].byte /\ files' = files /\ \A l \in Worker : w'[l].thread = w[l].thread
    BY <1>0, <1>4 DEF WorkerStopHandler, WorkerRecord
  <2>2. srv \in Stopping \cup {"done"}
    BY <2>1 DEF Listening, NoneIsToldToEnd
  <2>. QED BY <1>1, <2>1, <2>2 DEF Listening, HasLeft
<1>5. CASE LeaveLoop(k)
  <2>1. w[k].loopexit /\ w'[k].thread = "closing" /\ Runs(k)
    BY <1>0, <1>5 DEF LeaveLoop, WorkerRecord, Runs
  <2>2. srv \in Stopping \cup {"done"} /\ srv \in Serving \cup {"stop", "free"}
    BY <2>1, RunningWorker DEF Listening, NoneIsToldToEnd
  <2>3. srv \in Stopping
    BY <2>2 DEF Serving, Stopping
  <2>. QED BY <1>1, <2>1, <2>3 DEF Listening, HasLeft
<1>6. CASE CloseOwnSocket(k)
  <2>1. /\ files' = files
        /\ \A l \in Worker : /\ w'[l].byte = w[l].byte /\ w'[l].loopexit = w[l].loopexit
                             /\ HasLeft(l) => w'[l].thread \in {"closing", "done"}
    BY <1>0, <1>6 DEF CloseOwnSocket, WorkerRecord, HasLeft
  <2>. QED BY <1>1, <2>1, ListeningStands
<1>. QED BY <1>2, <1>3, <1>4, <1>5, <1>6 DEF WorkerStep

\* What ends the process leaves the socket to the kernel.
LEMMA DeathKeepsListening ==
    ASSUME SrvInv, Listening, w' = NoWorkerThreads, UNCHANGED <<srv, fd, files>>, ~Alive'
    PROVE  Listening'
<1>1. \A k \in Worker : w'[k].byte = w[k].byte /\ w'[k].loopexit = w[k].loopexit
  BY DEF SrvInv, ServerTypeOK, WorkerRecord, NoWorkerThreads
<1>. QED BY <1>1, ListeningStands

LEMMA ClientKeepsListening ==
    ASSUME SrvInv, Listening, Alive, Client
    PROVE  Listening'
<1>0. w \in [Worker -> WorkerRecord] /\ end' = end
  BY DEF SrvInv, ServerTypeOK, Client, OthersUnlessKilled
<1>1. ASSUME NEW k \in Worker, NEW request \in Requests, Accept(k, request) PROVE Listening'
  <2>1. /\ UNCHANGED <<srv, fd, files>>
        /\ \A l \in Worker : /\ w'[l].byte = w[l].byte /\ w'[l].loopexit = w[l].loopexit
                             /\ HasLeft(l) => w'[l].thread \in {"closing", "done"}
    BY <1>0, <1>1 DEF Accept, WorkerRecord, HasLeft, mainVars
  <2>. QED BY <2>1, ListeningStands
<1>2. ASSUME NEW sig, Signal(sig) PROVE Listening'
  <2>1. UNCHANGED <<srv, fd, files>>
    BY <1>2 DEF Signal, mainVars
  <2>2. CASE sig \in signals
    <3>1. w' = w
      BY <1>2, <2>2 DEF Signal
    <3>. QED BY <2>1, <3>1, ListeningStands DEF HasLeft
  <2>3. CASE sig \notin signals
    <3>1. w' = NoWorkerThreads /\ ~Alive'
      BY <1>2, <2>3 DEF Signal, Raise, Alive
    <3>. QED BY <2>1, <3>1, DeathKeepsListening
  <2>. QED BY <2>2, <2>3
<1>. QED BY <1>1, <1>2 DEF Client

LEMMA ListeningIsKept ==
    ASSUME IInv, [Next]_vars
    PROVE  Listening'
<1> USE DEF IInv
<1>0. SrvInv /\ fd \in {-1, 0}
  BY DEF Stages, SrvInv, ServerTypeOK
<1>1. CASE UNCHANGED <<serverVars, end>>
  <2>1. UNCHANGED <<srv, fd, files, w>> /\ (Alive' <=> Alive)
    BY <1>1 DEF serverVars, Alive
  <2>. QED BY <2>1, ListeningStands DEF HasLeft
<1>2. CASE Running /\ MainThread
  <2>1. CASE ReadOptions \/ StartThreads
    <3>1. srv \in ParseStages /\ fd' = fd /\ w' = w
      BY <2>1 DEF ReadOptions, StartThreads, ParseArgs, LogNew, ConfNew, WorkersOption, LogOption,
                  BadOption, EndOfOptions, ParseStages
    <3>2. fd < 0 /\ srv \notin Stopping \cup {"done"}
      BY <1>0, <3>1 DEF SrvInv, ServerStages, ParseStages, Serving, Stopping
    <3>. QED BY <1>0, <3>1, <3>2, NoSocketYet
  <2>2. CASE PulsarMain
    <3>1. Alive /\ end' = end /\ RunServer
      BY <1>2, <2>2, RunningIsAlive DEF PulsarMain, backendVars
    <3>. QED BY <1>0, <3>1, ServerKeepsListening
  <2>3. CASE InitializeDevice \/ Destroy
    <3>1. end' = end
      BY <2>3 DEF InitializeDevice, InitializeDevices, OpenCandidate, ExamineCandidate, NoChip,
                  ValidateRequiredOffsets, InitializeValueIo, MapRegisters, OpenStripDevice,
                  ConfigureStripDevice, OpenIioDirectory, SearchIioDirectory, GpioFails, Destroy,
                  DestroyDevices, DestroyStripDevice, DestroyGpio, DestroyValueIo
    <3>. QED BY <1>1, <2>3, <3>1 DEF InitializeDevice, Destroy
  <2>4. CASE DeviceFailed \/ StartHandlers \/ BroadcastTerminate \/ JoinThreads \/ ShutdownAndReturn
    BY <1>1, <2>4 DEF DeviceFailed, StartHandlers, BroadcastTerminate, JoinThreads, ShutdownAndReturn,
                      backendVars
  <2>. QED BY <1>2, <2>1, <2>2, <2>3, <2>4 DEF MainThread
<1>3. ASSUME NEW t \in User, UserThread(t) PROVE Listening'
  BY <1>1, <1>3 DEF UserThread, Configure, Begin, EndUse
<1>4. ASSUME Running, NEW k \in Worker, WorkerThread(k) PROVE Listening'
  BY <1>0, <1>4, RunningIsAlive, WorkerKeepsListening DEF WorkerThread, OthersUnlessKilled
<1>5. ASSUME Running, NEW t \in User, DeviceThrows(t) PROVE Listening'
  <2>1. Stages /\ DevInv' /\ end' = "kernel"
    BY <1>5, ConfigureFailsKeepsDevInv, UseFailsKeepsDevInv DEF Stages, DeviceThrows
  <2>. QED BY <1>0, <1>5, <2>1, DeathKeepsListening DEF DeviceThrows, Alive
<1>6. CASE Running /\ EventsFail
  <2>1. CASE DispatchFails /\ UNCHANGED <<main, backendVars, webVars>>
    <3>1. Alive /\ end' = end
      BY <1>6, <2>1, RunningIsAlive DEF backendVars
    <3>. QED BY <1>0, <2>1, <3>1, ServerKeepsListening
  <2>2. ASSUME NEW k \in Worker, AssertionFails(k) PROVE Listening'
    <3>1. w' = NoWorkerThreads /\ ~Alive' /\ UNCHANGED <<srv, fd, files>>
      BY <2>2 DEF AssertionFails, Alive, mainVars
    <3>. QED BY <1>0, <3>1, DeathKeepsListening
  <2>. QED BY <1>6, <2>1, <2>2 DEF EventsFail
<1>7. CASE Running /\ Client
  BY <1>0, <1>7, RunningIsAlive, ClientKeepsListening
<1>8. CASE UNCHANGED vars
  BY <1>1, <1>8 DEF vars, backendVars
<1>. QED BY <1>2, <1>3, <1>4, <1>5, <1>6, <1>7, <1>8 DEF Next, Thread, Over

LEMMA InitInv == Init => IInv
<1>1. Init => Listening
  BY DEF Init, ServerInit, NoWorker, Listening, NoneIsToldToEnd
<1>. QED BY <1>1, InitStages DEF IInv

LEMMA InvIsInductive == IInv /\ [Next]_vars => IInv'
BY StagesAreKept, ListeningIsKept DEF IInv

-----------------------------------------------------------------------------
(* The theorems.                                                           *)

\* The invariant holds of every behaviour of the program, whatever fails.
THEOREM Invariance == Spec => []IInv
BY InitInv, InvIsInductive, PTL DEF Spec

\* Nothing is allocated, opened, requested or freed twice, and nothing is closed
\* twice but the listening socket, which the first worker that ends closes and the
\* others and the server close again: every count of the kernel's and the heap's
\* is 0 or 1, whichever step of main(), of the server or of a thread fails.
THEOREM TypeCorrect == Spec => []TypeOK
<1>1. IInv => TypeOK
  BY DEF IInv, Stages, DevInv, SrvInv, Phases, TypeOK
<1>. QED BY <1>1, Invariance, PTL

\* What the kernel holds is what the device objects will give back, writes
\* through the registers go to lines that are held, and no thread meets a device
\* that is not ready for it.
THEOREM DevicesStayOwned == Spec => []DevicesAreOwned
<1>1. IInv => DevicesAreOwned
  BY DEF IInv, Stages, DevInv
<1>. QED BY <1>1, Invariance, PTL

\* No worker that runs meets what server_free or a failed start has taken away,
\* nor a web handler that was deleted, for any number of workers; the listening
\* socket is gone under it only when server_free stops the workers and another of
\* them has already ended.
THEOREM WorkersAreSafe == Spec => []WorkersFindWhatTheyUse
<1>1. IInv => WorkersFindWhatTheyUse
  <2> SUFFICES ASSUME IInv, NEW k \in Worker, Runs(k)
               PROVE  /\ w[k].allocated = 1 /\ heap["server"] = 1 /\ heap["cfg"] = 1 /\ heap["log"] = 1
                      /\ fd >= 0
                      /\ \/ files["listen"] = 1
                         \/ srv \in {"stop", "free"} /\ \E l \in Worker : HasLeft(l)
                      /\ 0 \in w[k].stopSockets /\ sockets[k] = 2
                      /\ Available /\ \A h \in Handler : objects[h] = 1
    BY DEF WorkersFindWhatTheyUse
  <2>1. Alive
    BY DEF IInv, Stages, Phases, Runs
  <2>2. /\ w[k].allocated = 1 /\ w[k].stopSockets = {0, 1} /\ sockets[k] = 2
        /\ srv \in Serving \cup {"stop", "free"} /\ fd >= 0
        /\ heap["server"] = 1 /\ heap["cfg"] = 1 /\ heap["log"] = 1
    BY <2>1, RunningWorker DEF IInv, Stages
  <2>3. Available /\ \A h \in Handler : objects[h] = 1
    BY <2>2, TableIsNotEmpty DEF IInv, Stages, Phases, WebStages, ParseStages, Serving, Available
  <2>4. files["listen"] = 1 \/ (srv \in {"stop", "free"} /\ \E l \in Worker : HasLeft(l))
    BY <2>1, <2>2 DEF IInv, Listening, Serving, Stopping
  <2>. QED BY <2>2, <2>3, <2>4
<1>. QED BY <1>1, Invariance, PTL

\* Every request that was answered was counted once, by the handler it is for.
THEOREM RequestsStayCounted == Spec => []RequestsAreCounted
<1>1. IInv => RequestsAreCounted
  BY DEF IInv, Stages
<1>. QED BY <1>1, Invariance, PTL

\* The signal a request to stop raises always meets a main thread that handles it.
THEOREM StopIsSafe == Spec => []StopNeverKills
<1>1. IInv => StopNeverKills
  BY DEF IInv, Stages
<1>. QED BY <1>1, Invariance, PTL

\* A process that returns from main() has given everything back.
THEOREM EverythingIsGivenBack == Spec => []NothingIsLeft
<1>1. IInv => NothingIsLeft
  <2> SUFFICES ASSUME IInv, dev = "gone" PROVE NothingIsLeft
    BY DEF NothingIsLeft
  <2> USE DEF IInv, Stages
  <2>0. main = "return" /\ Alive /\ srv \in {"log", "done"}
    BY DEF Phases, Initializing, Unopened, ChipOpen
  <2>1. chip_ = "null" /\ registers_ = "null" /\ fd_ = -1 /\ \A p \in Pin : lines_[p] = "none"
    BY DEF DevInv, DeviceStages
  <2>2. \A h \in Handle : kernel[h] = 0
    BY <2>1 DEF DevInv, DevicesAreOwned, KernelAgrees, Handle
  <2>3. \A p \in Pin : requests[p] = 0
    BY <2>1 DEF DevInv, DevicesAreOwned, KernelAgrees
  <2>4. \A f \in DOMAIN files : files[f] = 0
    BY <2>0 DEF SrvInv, ServerTypeOK, ServerStages, Serving, Stopping
  <2>5. \A o \in Object : heap[o] = 0
    BY <2>0 DEF SrvInv, ServerStages, Object, RunStages, Starting, Serving, Stopping
  <2>6. ASSUME NEW k \in Worker PROVE sockets[k] = 0 /\ w[k].allocated = 0 /\ ~Runs(k)
    <3>1. WorkerStage(k) /\ ~IsAllocated(k) /\ w[k] \in WorkerRecord
      BY <2>0 DEF SrvInv, ServerTypeOK, WorkerStages, IsAllocated, Starting, Serving
    <3>2. w[k].allocated = 0
      BY <3>1 DEF WorkerStage
    <3>3. ~Runs(k) /\ w[k].stopSockets = {}
      BY <2>0, <3>1, <3>2 DEF WorkerStage, EndsOf, Runs
    <3>. QED BY <3>1, <3>2, <3>3 DEF WorkerStage
  <2>7. \A h \in Handler : objects[h] = 0
    BY <2>0 DEF WebStages
  <2>8. \A t \in User : user[t] \in {"none", "ended"}
    BY <2>0 DEF Phases
  <2>. QED BY <2>2, <2>3, <2>4, <2>5, <2>6, <2>7, <2>8 DEF NothingIsLeft
<1>. QED BY <1>1, Invariance, PTL

-----------------------------------------------------------------------------
(* Induction over numbers.                                                 *)

\* A set of naturals that is not empty has a least element: what the proofs
\* by a least counterexample below rest on.
LEMMA LeastNatural ==
    ASSUME NEW T \in SUBSET Nat, T # {}
    PROVE  \E n \in T : \A m \in T : n <= m
<1> DEFINE R == {ss \in Nat \X Nat : ss[1] < ss[2]}
<1>1. IsWellFoundedOn(R, Nat)
  BY NatLessThanWellFounded DEF OpToRel
<1>2. \E n \in T : \A m \in T : ~(<<m, n>> \in R)
  <2> HIDE DEF R
  <2>. QED BY <1>1, WFMin
<1>3. PICK n \in T : \A m \in T : ~(<<m, n>> \in R)
  BY <1>2
<1>4. \A m \in T : n <= m
  <2> SUFFICES ASSUME NEW m \in T, m < n PROVE FALSE
    OBVIOUS
  <2>1. <<m, n>> \in R
    OBVIOUS
  <2>. QED BY <2>1, <1>3
<1>. QED BY <1>4

\* Induction up to n, for a set: one with 0 and with the successors, up to n,
\* of its members is all of 0 .. n.
LEMMA InductionUpTo ==
    ASSUME NEW n \in Nat, NEW G, 0 \in G, \A k \in 1 .. n : k - 1 \in G => k \in G
    PROVE  \A k \in 0 .. n : k \in G
<1> DEFINE T == {k \in 0 .. n : k \notin G}
<1>1. ASSUME T # {} PROVE FALSE
  <2>1. T \in SUBSET Nat
    OBVIOUS
  <2>2. PICK m \in T : \A k \in T : m <= k
    BY <1>1, <2>1, LeastNatural
  <2>3. m \in 1 .. n /\ m - 1 \in 0 .. n /\ m \notin G
    BY <2>2
  <2>4. m - 1 \notin T
    <3> HIDE DEF T
    <3>. QED BY <2>2, <2>3
  <2>. QED BY <2>3, <2>4
<1>. QED BY <1>1

\* A function that is defined by its value at 0 and by a step from k - 1 to k
\* exists, if the step stays in a set: all the recursive functions below are
\* what they are declared to be.
StepsIn(S, n) == [1 .. n -> [S -> S]]
RunsIn(S, n) == [0 .. n -> S]
IsRecursive(f, init, n, step) == f[0] = init /\ \A k \in 1 .. n : f[k] = step[k][f[k - 1]]

\* A first value and a step for every number determine a function.
LEMMA RecursionExists ==
    ASSUME NEW S, NEW init \in S, NEW n \in Nat, NEW step \in StepsIn(S, n)
    PROVE  \E f \in RunsIn(S, n) : IsRecursive(f, init, n, step)
<1> USE DEF StepsIn, RunsIn, IsRecursive
<1> DEFINE Is(f, m) == /\ f \in [0 .. m -> S]
                       /\ f[0] = init /\ \A k \in 1 .. m : f[k] = step[k][f[k - 1]]
           T == {m \in 0 .. n : ~ \E f : Is(f, m)}
<1>1. T \in SUBSET Nat
  OBVIOUS
<1>2. ASSUME T # {} PROVE FALSE
  <2>1. PICK m \in T : \A l \in T : m <= l
    BY <1>1, <1>2, LeastNatural
  <2>2. m # 0
    <3>1. Is([k \in 0 .. 0 |-> init], 0)
      OBVIOUS
    <3>. QED BY <3>1, <2>1
  <2>3. m \in Nat /\ m \in 1 .. n /\ m - 1 \in 0 .. n /\ m - 1 \notin T
    <3>1. m \in Nat /\ m \in 1 .. n /\ m - 1 \in 0 .. n
      BY <2>2
    <3>2. m - 1 \notin T
      <4> HIDE DEF T
      <4>. QED BY <2>1, <3>1
    <3>. QED BY <3>1, <3>2
  <2>4. PICK f : Is(f, m - 1)
    BY <2>3
  <2> DEFINE g == [k \in 0 .. m |-> IF k = m THEN step[m][f[m - 1]] ELSE f[k]]
  <2>5. f[m - 1] \in S /\ step[m][f[m - 1]] \in S
    <3>1. f[m - 1] \in S
      BY <2>3, <2>4
    <3>2. step[m] \in [S -> S]
      BY <2>3
    <3>. QED BY <3>1, <3>2
  <2>6. g \in [0 .. m -> S]
    <3> SUFFICES ASSUME NEW k \in 0 .. m PROVE g[k] \in S
      OBVIOUS
    <3>1. CASE k = m
      BY <2>5, <3>1
    <3>2. CASE k # m
      BY <2>3, <2>4, <3>2
    <3>. QED BY <3>1, <3>2
  <2>7. \A k \in 1 .. m : g[k] = step[k][g[k - 1]]
    <3> SUFFICES ASSUME NEW k \in 1 .. m PROVE g[k] = step[k][g[k - 1]]
      OBVIOUS
    <3>0. k \in 0 .. m /\ k - 1 \in 0 .. m /\ k - 1 # m
      BY <2>3
    <3>1. g[k - 1] = f[k - 1]
      BY <3>0
    <3>2. CASE k = m
      BY <3>0, <3>1, <3>2
    <3>3. CASE k # m
      <4>1. k \in 1 .. m - 1 /\ g[k] = f[k]
        BY <2>3, <3>0, <3>3
      <4>. QED BY <2>4, <3>1, <4>1
    <3>. QED BY <3>2, <3>3
  <2>8. g[0] = init
    BY <2>2, <2>3, <2>4
  <2>9. Is(g, m)
    BY <2>6, <2>7, <2>8
  <2>. QED BY <2>1, <2>9
<1>3. n \notin T
  <2> HIDE DEF T
  <2>. QED BY <1>2
<1>4. n \in 0 .. n
  OBVIOUS
<1>5. \E f : Is(f, n)
  BY <1>3, <1>4
<1>. QED BY <1>5

-----------------------------------------------------------------------------
(* What is put together piece by piece.                                    *)

\* FlattenSeq puts one piece behind the other.
IsFlattened(flat, seqs, S) ==
    /\ flat \in [0 .. Len(seqs) -> Seq(S)]
    /\ flat[0] = <<>> /\ flat[Len(seqs)] = FlattenSeq(seqs)
    /\ \A k \in 1 .. Len(seqs) : flat[k] = flat[k - 1] \o seqs[k]

\* Sequences can be joined one after the other.
LEMMA FlattenGrows ==
    ASSUME NEW S, NEW seqs \in Seq(Seq(S))
    PROVE  \E flat : IsFlattened(flat, seqs, S)
<1> DEFINE n == Len(seqs)
           T == Seq(S)
           step == [k \in 1 .. n |-> [x \in T |-> x \o seqs[k]]]
           fl[k \in 1 .. n] == IF k = 1 THEN seqs[k] ELSE fl[k - 1] \o seqs[k]
<1>0. n \in Nat /\ <<>> \in T /\ \A k \in 1 .. n : seqs[k] \in T
  OBVIOUS
<1>1. CASE n = 0
  <2>1. FlattenSeq(seqs) = <<>>
    BY <1>1 DEF FlattenSeq
  <2> DEFINE flat == [k \in 0 .. n |-> <<>>]
  <2>2. IsFlattened(flat, seqs, S)
    BY <1>0, <1>1, <2>1 DEF IsFlattened
  <2>. QED BY <2>2
<1>2. CASE n # 0
  <2>1. FlattenSeq(seqs) = fl[n]
    BY <1>2 DEF FlattenSeq
  <2> HIDE DEF fl
  <2>2. step \in StepsIn(T, n)
    <3>1. \A x \in T, y \in T : x \o y \in T
      OBVIOUS
    <3> HIDE DEF T
    <3>. QED BY <1>0, <3>1 DEF StepsIn
  <2>3. PICK f \in RunsIn(T, n) : IsRecursive(f, <<>>, n, step)
    <3> HIDE DEF step, T, n
    <3>. QED BY <1>0, <2>2, RecursionExists
  <2>4. f \in [0 .. n -> T] /\ f[0] = <<>>
    BY <2>3 DEF RunsIn, IsRecursive
  <2>5. ASSUME NEW k \in 1 .. n PROVE f[k] = f[k - 1] \o seqs[k]
    <3>1. k - 1 \in 0 .. n
      BY <1>0
    <3>2. f[k - 1] \in T
      BY <2>4, <3>1
    <3>3. f[k] = step[k][f[k - 1]]
      BY <2>3 DEF IsRecursive
    <3> HIDE DEF T
    <3>. QED BY <3>2, <3>3
  <2>6. fl = [k \in 1 .. n |-> IF k = 1 THEN seqs[k] ELSE fl[k - 1] \o seqs[k]]
    <3> DEFINE g == [k \in 1 .. n |-> f[k]]
    <3>1. ASSUME NEW k \in 1 .. n PROVE g[k] = IF k = 1 THEN seqs[k] ELSE g[k - 1] \o seqs[k]
      <4>1. CASE k = 1
        <5>1. f[1] = f[0] \o seqs[1]
          <6>1. f[k] = f[k - 1] \o seqs[k]
            BY <2>5
          <6>2. k - 1 = 0
            BY <4>1
          <6> HIDE DEF n, g, T, step
          <6>. QED BY <4>1, <6>1, <6>2
        <5>2. seqs[1] \in Seq(S)
          BY <1>0, <4>1
        <5>. QED BY <2>4, <4>1, <5>1, <5>2
      <4>2. CASE k # 1
        <5>1. k - 1 \in 1 .. n
          BY <1>0, <4>2
        <5>. QED BY <2>5, <4>2, <5>1
      <4>. QED BY <4>1, <4>2
    <3>2. g = [k \in 1 .. n |-> IF k = 1 THEN seqs[k] ELSE g[k - 1] \o seqs[k]]
      BY <3>1
    <3> HIDE DEF g
    <3>. QED BY <3>2 DEF fl
  <2> DEFINE flat == [k \in 0 .. n |-> IF k = 0 THEN <<>> ELSE fl[k]]
  <2>7. ASSUME NEW k \in 1 .. n PROVE flat[k] = flat[k - 1] \o seqs[k]
    <3>1. flat[k] = fl[k] /\ k - 1 \in 0 .. n
      BY <1>0
    <3>2. CASE k = 1
      <4>1. fl[1] = seqs[1]
        BY <2>6, <3>2
      <4>2. seqs[1] \in Seq(S)
        BY <1>0, <3>2
      <4>3. flat[0] = <<>>
        BY <1>0
      <4>. QED BY <3>1, <3>2, <4>1, <4>2, <4>3
    <3>3. CASE k # 1
      <4>1. flat[k - 1] = fl[k - 1]
        BY <1>0, <3>1, <3>3
      <4>2. fl[k] = fl[k - 1] \o seqs[k]
        BY <2>6, <3>3
      <4>. QED BY <3>1, <4>1, <4>2
    <3>. QED BY <3>2, <3>3
  <2> DEFINE G == {k \in 0 .. n : flat[k] \in T}
  <2>8. \A k \in 0 .. n : k \in G
    <3>1. 0 \in G
      BY <1>0
    <3>2. ASSUME NEW k \in 1 .. n, k - 1 \in G PROVE k \in G
      <4>1. flat[k - 1] \in Seq(S) /\ seqs[k] \in Seq(S)
        BY <1>0, <3>2
      <4>2. flat[k] \in Seq(S)
        <5> HIDE DEF flat
        <5>1. flat[k] = flat[k - 1] \o seqs[k]
          BY <2>7
        <5>. QED BY <4>1, <5>1
      <4>. QED BY <1>0, <4>2
    <3> HIDE DEF G, n
    <3>. QED BY <1>0, <3>1, <3>2, InductionUpTo
  <2>9. flat \in [0 .. n -> Seq(S)] /\ flat[0] = <<>> /\ flat[n] = fl[n]
    BY <1>0, <1>2, <2>8
  <2> HIDE DEF flat
  <2>. QED BY <2>1, <2>7, <2>9 DEF IsFlattened
<1>. QED BY <1>1, <1>2

\* Where the pieces are in the whole: the k-th begins behind pos[k - 1].
IsPlaced(pos, seqs, whole) ==
    /\ pos \in [0 .. Len(seqs) -> Nat] /\ pos[0] = 0 /\ pos[Len(seqs)] = Len(whole)
    /\ \A k \in 1 .. Len(seqs) :
          /\ pos[k] = pos[k - 1] + Len(seqs[k]) /\ pos[k] <= Len(whole)
          /\ \A j \in 1 .. Len(seqs[k]) : whole[pos[k - 1] + j] = seqs[k][j]
    /\ \A m \in 1 .. Len(whole) : \E k \in 1 .. Len(seqs) : m - pos[k - 1] \in 1 .. Len(seqs[k])

\* FlattenSeq joins its sequences: each has its place in the result.
LEMMA FlattenPlaces ==
    ASSUME NEW S, NEW seqs \in Seq(Seq(S))
    PROVE  /\ FlattenSeq(seqs) \in Seq(S)
           /\ \E pos : IsPlaced(pos, seqs, FlattenSeq(seqs))
<1> DEFINE n == Len(seqs)
           whole == FlattenSeq(seqs)
<1>0. n \in Nat /\ \A k \in 1 .. n : seqs[k] \in Seq(S)
  OBVIOUS
<1>1. PICK flat : IsFlattened(flat, seqs, S)
  BY FlattenGrows
<1>2. flat \in [0 .. n -> Seq(S)] /\ flat[0] = <<>> /\ flat[n] = whole
  BY <1>1 DEF IsFlattened
<1> HIDE DEF n, whole
<1> DEFINE pos == [k \in 0 .. n |-> Len(flat[k])]
<1>3. \A k \in 0 .. n : flat[k] \in Seq(S) /\ Len(flat[k]) \in Nat /\ pos[k] = Len(flat[k])
  BY <1>2
<1>a. pos \in [0 .. n -> Nat]
  BY <1>3
<1> HIDE DEF pos
<1>4. ASSUME NEW k \in 1 .. n
      PROVE  /\ k \in Nat /\ k - 1 \in 0 .. n /\ k \in 0 .. n
             /\ pos[k] \in Nat /\ pos[k - 1] \in Nat /\ Len(seqs[k]) \in Nat
             /\ pos[k] = pos[k - 1] + Len(seqs[k])
             /\ \A m \in 1 .. pos[k - 1] : flat[k][m] = flat[k - 1][m]
             /\ \A j \in 1 .. Len(seqs[k]) : flat[k][pos[k - 1] + j] = seqs[k][j]
  <2>1. k \in Nat /\ k - 1 \in 0 .. n /\ k \in 0 .. n
    BY <1>0
  <2>2. flat[k - 1] \in Seq(S) /\ seqs[k] \in Seq(S)
    BY <1>0, <1>3, <2>1
  <2>3. flat[k] = flat[k - 1] \o seqs[k]
    BY <1>1 DEF IsFlattened, n
  <2>4. pos[k] = Len(flat[k]) /\ pos[k - 1] = Len(flat[k - 1])
    BY <1>3, <2>1
  <2> DEFINE x == flat[k - 1]
             y == seqs[k]
             z == flat[k]
  <2>5. x \in Seq(S) /\ y \in Seq(S) /\ z = x \o y
    BY <2>2, <2>3
  <2> HIDE DEF x, y, z
  <2>6. /\ Len(x) \in Nat /\ Len(y) \in Nat /\ Len(z) = Len(x) + Len(y)
        /\ \A m \in 1 .. Len(x) : z[m] = x[m]
    BY <2>5
  <2>7. ASSUME NEW j \in 1 .. Len(y) PROVE z[Len(x) + j] = y[j]
    BY <2>5, <2>6
  <2>8. /\ pos[k] \in Nat /\ pos[k - 1] \in Nat /\ Len(seqs[k]) \in Nat
        /\ pos[k] = pos[k - 1] + Len(seqs[k])
    <3>1. pos[k] = Len(z) /\ pos[k - 1] = Len(x) /\ Len(seqs[k]) = Len(y)
      BY <2>4 DEF x, y, z
    <3>. QED BY <2>6, <3>1
  <2>9. \A m \in 1 .. pos[k - 1] : flat[k][m] = flat[k - 1][m]
    BY <2>4, <2>6 DEF x, z
  <2>10. \A j \in 1 .. Len(seqs[k]) : flat[k][pos[k - 1] + j] = seqs[k][j]
    BY <2>4, <2>7 DEF x, y, z
  <2>. QED BY <2>1, <2>8, <2>9, <2>10
<1> DEFINE Ext(k) == \A l \in 0 .. k : pos[l] <= pos[k] /\ \A m \in 1 .. pos[l] : flat[k][m] = flat[l][m]
           G == {k \in 0 .. n : Ext(k)}
<1>5. \A k \in 0 .. n : k \in G
  <2>1. 0 \in G
    BY <1>0, <1>a
  <2>2. ASSUME NEW k \in 1 .. n, k - 1 \in G PROVE k \in G
    <3>1. Ext(k - 1)
      BY <2>2
    <3>2. /\ k \in Nat /\ k \in 0 .. n /\ pos[k - 1] \in Nat /\ pos[k] \in Nat
          /\ pos[k - 1] <= pos[k]
      <4>1. /\ k \in Nat /\ k \in 0 .. n /\ pos[k - 1] \in Nat /\ pos[k] \in Nat
            /\ Len(seqs[k]) \in Nat /\ pos[k] = pos[k - 1] + Len(seqs[k])
        BY <1>4
      <4>. QED BY <4>1
    <3>3. ASSUME NEW l \in 0 .. k
          PROVE  pos[l] <= pos[k] /\ \A m \in 1 .. pos[l] : flat[k][m] = flat[l][m]
      <4>1. CASE l = k
        BY <3>2, <4>1
      <4>2. CASE l # k
        <5>1. l \in 0 .. k - 1 /\ l \in 0 .. n
          BY <1>0, <3>2, <4>2
        <5>2. pos[l] \in Nat /\ pos[l] <= pos[k - 1]
          BY <1>a, <3>1, <5>1
        <5>3. pos[l] <= pos[k]
          BY <3>2, <5>2
        <5>4. ASSUME NEW m \in 1 .. pos[l] PROVE flat[k][m] = flat[l][m]
          <6>1. m \in 1 .. pos[k - 1]
            BY <3>2, <5>2
          <6>2. flat[k][m] = flat[k - 1][m]
            BY <1>4, <6>1
          <6>3. flat[k - 1][m] = flat[l][m]
            BY <3>1, <5>1
          <6>. QED BY <6>2, <6>3
        <5>. QED BY <5>3, <5>4
      <4>. QED BY <4>1, <4>2
    <3>4. Ext(k)
      BY <3>3
    <3>. QED BY <3>2, <3>4
  <2> HIDE DEF G
  <2>. QED BY <1>0, <2>1, <2>2, InductionUpTo
<1>6. Ext(n)
  BY <1>0, <1>5
<1> HIDE DEF Ext, G
<1> DEFINE Has(k) == \A m \in 1 .. pos[k] : \E l \in 1 .. n : m - pos[l - 1] \in 1 .. Len(seqs[l])
           H == {k \in 0 .. n : Has(k)}
<1>b. pos[0] = 0
  <2>1. 0 \in 0 .. n /\ Len(<<>>) = 0
    BY <1>0
  <2>. QED BY <1>2, <1>3, <2>1
<1>7. \A k \in 0 .. n : k \in H
  <2>1. 0 \in H
    BY <1>0, <1>b
  <2>2. ASSUME NEW k \in 1 .. n, k - 1 \in H PROVE k \in H
    <3>1. /\ k \in 0 .. n /\ pos[k - 1] \in Nat /\ Len(seqs[k]) \in Nat
          /\ pos[k] = pos[k - 1] + Len(seqs[k])
      BY <1>4
    <3>2. ASSUME NEW m \in 1 .. pos[k]
          PROVE  \E l \in 1 .. n : m - pos[l - 1] \in 1 .. Len(seqs[l])
      <4>1. CASE m <= pos[k - 1]
        <5>1. m \in 1 .. pos[k - 1] /\ Has(k - 1)
          BY <2>2, <3>1, <4>1
        <5>. QED BY <5>1
      <4>2. CASE m > pos[k - 1]
        <5>1. m - pos[k - 1] \in 1 .. Len(seqs[k])
          BY <3>1, <4>2
        <5>. QED BY <5>1
      <4>. QED BY <3>1, <4>1, <4>2
    <3>. QED BY <3>1, <3>2
  <2> HIDE DEF H
  <2>. QED BY <1>0, <2>1, <2>2, InductionUpTo
<1>8. Has(n)
  BY <1>0, <1>7
<1>9. whole \in Seq(S) /\ n \in 0 .. n /\ pos[n] = Len(whole)
  BY <1>0, <1>2, <1>3
<1>10. ASSUME NEW k \in 1 .. n
       PROVE  /\ pos[k] = pos[k - 1] + Len(seqs[k]) /\ pos[k] <= Len(whole)
              /\ \A j \in 1 .. Len(seqs[k]) : whole[pos[k - 1] + j] = seqs[k][j]
  <2>1. /\ pos[k - 1] \in Nat /\ Len(seqs[k]) \in Nat /\ pos[k] = pos[k - 1] + Len(seqs[k])
    BY <1>4
  <2>2. pos[k] <= Len(whole) /\ \A m \in 1 .. pos[k] : whole[m] = flat[k][m]
    BY <1>2, <1>4, <1>6, <1>9 DEF Ext
  <2>3. ASSUME NEW j \in 1 .. Len(seqs[k]) PROVE whole[pos[k - 1] + j] = seqs[k][j]
    <3>1. pos[k - 1] + j \in 1 .. pos[k]
      BY <2>1
    <3>2. flat[k][pos[k - 1] + j] = seqs[k][j]
      BY <1>4
    <3>. QED BY <2>2, <3>1, <3>2
  <2>. QED BY <2>1, <2>2, <2>3
<1>11. \A m \in 1 .. Len(whole) : \E k \in 1 .. n : m - pos[k - 1] \in 1 .. Len(seqs[k])
  BY <1>8, <1>9
<1>12. IsPlaced(pos, seqs, whole)
  BY <1>a, <1>b, <1>9, <1>10, <1>11 DEF IsPlaced, n
<1>. QED BY <1>9, <1>12 DEF whole

\* The elements of two sequences put together.
LEMMA ConcatLaw ==
    ASSUME NEW S, NEW a \in Seq(S), NEW b \in Seq(S)
    PROVE  /\ a \o b \in Seq(S) /\ Len(a) \in Nat /\ Len(b) \in Nat /\ Len(a \o b) = Len(a) + Len(b)
           /\ \A j \in 1 .. Len(a) : (a \o b)[j] = a[j]
           /\ \A j \in 1 .. Len(b) : (a \o b)[Len(a) + j] = b[j]
<1>1. a \o b \in Seq(S) /\ Len(a) \in Nat /\ Len(b) \in Nat /\ Len(a \o b) = Len(a) + Len(b)
  OBVIOUS
<1>2. \A j \in 1 .. Len(a) : (a \o b)[j] = a[j]
  OBVIOUS
<1>3. \A j \in 1 .. Len(b) : (a \o b)[Len(a) + j] = b[j]
  OBVIOUS
<1>. QED BY <1>1, <1>2, <1>3

\* Two sequences of the same elements are one.
LEMMA SameSequence ==
    ASSUME NEW S, NEW s \in Seq(S), NEW t \in Seq(S), Len(s) = Len(t), \A j \in 1 .. Len(s) : s[j] = t[j]
    PROVE  s = t
OBVIOUS

-----------------------------------------------------------------------------
(* parsePost().                                                            *)

PostValues == UNION {[names -> Seq(Byte)] : names \in SUBSET Seq(Byte)}
Bytes == Seq(Byte)
Skips == 0 .. 2
ParseState == [gettingValuePortion : BOOLEAN, key : Bytes, part : Bytes, offset : Nat,
               top : Nat, skip : Skips, stopped : BOOLEAN, postValues : PostValues,
               code : {"ok", "internal error"}]

\* A string is cut at its first zero, and is whole without one.
LEMMA CStringTyped ==
    ASSUME NEW s \in Seq(Byte)
    PROVE  CString(s) \in Seq(Byte) /\ (s \in Seq(Byte \ {0}) => CString(s) = s)
<1> DEFINE zeros == {n \in DOMAIN s : s[n] = 0}
<1>0. Len(s) \in Nat /\ DOMAIN s = 1 .. Len(s)
  OBVIOUS
<1>1. CASE zeros = {}
  BY <1>1 DEF CString
<1>2. CASE zeros # {}
  <2>1. zeros \in SUBSET Nat
    BY <1>0
  <2>2. \E n \in zeros : \A m \in zeros : n <= m
    <3> HIDE DEF zeros
    <3>. QED BY <1>2, <2>1, LeastNatural
  <2> DEFINE first == CHOOSE n \in zeros : \A m \in zeros : n <= m
  <2>3. first \in zeros
    BY <2>2
  <2>4. CString(s) = SubSeq(s, 1, first - 1)
    BY <1>2 DEF CString
  <2> HIDE DEF first
  <2>5. first \in 1 .. Len(s) /\ s[first] = 0
    BY <1>0, <2>3
  <2>6. s \notin Seq(Byte \ {0})
    BY <2>5
  <2>7. SubSeq(s, 1, first - 1) \in Seq(Byte)
    BY <1>0, <2>5
  <2>. QED BY <2>4, <2>6, <2>7
<1>. QED BY <1>1, <1>2

\* A map with one more value is a map.
LEMMA PutTyped ==
    ASSUME NEW values \in PostValues, NEW key \in Seq(Byte), NEW value \in Seq(Byte)
    PROVE  Put(values, key, value) \in PostValues
<1> DEFINE Str == Seq(Byte)
<1>1. PICK names \in SUBSET Str : values \in [names -> Str]
  BY DEF PostValues
<1>2. key \in Str /\ value \in Str
  OBVIOUS
<1> HIDE DEF Str
<1>3. Put(values, key, value) \in [names \cup {key} -> Str]
  BY <1>1, <1>2 DEF Put
<1>4. names \cup {key} \in SUBSET Str
  BY <1>1, <1>2
<1>. QED BY <1>3, <1>4 DEF PostValues, Str

\* What is added at a delimiter or at the end.
LEMMA AddValueTyped ==
    ASSUME NEW st \in ParseState
    PROVE  AddValue(st) \in PostValues
<1>1. st.key \in Seq(Byte) /\ st.part \in Seq(Byte) /\ st.postValues \in PostValues
  BY DEF ParseState, Bytes
<1>2. CString(st.key) \in Seq(Byte) /\ CString(st.part) \in Seq(Byte)
  BY <1>1, CStringTyped
<1>. QED BY <1>1, <1>2, PutTyped DEF AddValue

\* An escape stands for a byte.
LEMMA EscapeTyped ==
    ASSUME NEW c \in HexDigit, NEW d \in HexDigit
    PROVE  16 * HexValue(c) + HexValue(d) \in Byte
<1>1. \A x \in HexDigit : HexValue(x) \in 0 .. 15
  BY DEF HexDigit, HexValue, Digits
<1>. QED BY <1>1 DEF Byte

\* One character: the type of the state, and how far the buffer is used.
Bounded(st, n) == st.offset <= n /\ st.top <= n

\* A bound of the writes holds for any larger one.
LEMMA BoundedGrows ==
    ASSUME NEW st \in ParseState, NEW n \in Nat
    PROVE  Bounded(st, n) => Bounded(st, n + 1)
<1>1. st.offset \in Nat /\ st.top \in Nat
  BY DEF ParseState
<1>. QED BY <1>1 DEF Bounded

\* A character collected moves the writes on by one.
LEMMA CollectTyped ==
    ASSUME NEW st \in ParseState, NEW c \in Byte, NEW n \in Nat
    PROVE  /\ Collect(st, c) \in ParseState /\ Collect(st, c).skip = st.skip
           /\ Bounded(st, n) => Bounded(Collect(st, c), n + 1)
<1>1. st.part \in Bytes /\ st.offset \in Nat /\ st.top \in Nat
  BY DEF ParseState
<1>2. Append(st.part, c) \in Bytes /\ st.offset + 1 \in Nat
  BY <1>1 DEF Bytes
<1>3. Larger(st.top, st.offset) \in Nat
  BY <1>1 DEF Larger
<1>4. Collect(st, c) \in ParseState /\ Collect(st, c).skip = st.skip
  BY <1>1, <1>2, <1>3 DEF Collect, ParseState
<1>5. Collect(st, c).offset = st.offset + 1 /\ Collect(st, c).top = Larger(st.top, st.offset)
  BY DEF Collect, ParseState
<1>6. Bounded(st, n) => Bounded(Collect(st, c), n + 1)
  BY <1>1, <1>5 DEF Bounded, Larger
<1>. QED BY <1>4, <1>6

\* So does a `=', which writes the end of the key and of the empty value.
LEMMA NameDelimiterTyped ==
    ASSUME NEW st \in ParseState, NEW n \in Nat
    PROVE  /\ NameDelimiter(st) \in ParseState
           /\ Bounded(st, n) => Bounded(NameDelimiter(st), n + 1)
<1>1. st.part \in Bytes /\ st.key \in Bytes /\ st.offset \in Nat /\ st.top \in Nat
  BY DEF ParseState
<1>2. Larger(st.top, st.offset + 1) \in Nat /\ st.offset + 1 \in Nat /\ <<>> \in Bytes
  BY <1>1 DEF Larger, Bytes
<1>3. NameDelimiter(st) \in ParseState
  BY <1>1, <1>2 DEF NameDelimiter, ParseState
<1>4. /\ NameDelimiter(st).offset = st.offset + 1
      /\ NameDelimiter(st).top = Larger(st.top, st.offset + 1)
  BY DEF NameDelimiter, ParseState
<1>5. Bounded(st, n) => Bounded(NameDelimiter(st), n + 1)
  BY <1>1, <1>4 DEF Bounded, Larger
<1>. QED BY <1>3, <1>5

\* So does a `&', which goes back to the begin of the buffer.
LEMMA ValueDelimiterTyped ==
    ASSUME NEW st \in ParseState, NEW n \in Nat
    PROVE  /\ ValueDelimiter(st) \in ParseState
           /\ Bounded(st, n) => Bounded(ValueDelimiter(st), n + 1)
<1>1. st.offset \in Nat /\ st.top \in Nat /\ AddValue(st) \in PostValues
  BY AddValueTyped DEF ParseState
<1> DEFINE top == IF HasValue(st) THEN Larger(st.top, st.offset) ELSE st.top
<1>2. top \in Nat /\ <<>> \in Bytes
  BY <1>1 DEF Larger, Bytes
<1>3. ValueDelimiter(st) = [st EXCEPT !.postValues = AddValue(st), !.key = <<>>, !.part = <<>>,
                                      !.top = top, !.offset = 0, !.gettingValuePortion = FALSE]
  BY DEF ValueDelimiter
<1>4. Bounded(st, n) => top <= n
  BY <1>1 DEF Bounded, Larger
<1> HIDE DEF top
<1>5. ValueDelimiter(st) \in ParseState
  <2> DEFINE x == [st EXCEPT !.postValues = AddValue(st), !.key = <<>>, !.part = <<>>]
  <2>1. x \in ParseState
    BY <1>1, <1>2 DEF ParseState
  <2> DEFINE y == [x EXCEPT !.top = top, !.offset = 0]
  <2>2. ValueDelimiter(st) = [y EXCEPT !.gettingValuePortion = FALSE]
    BY <1>3
  <2> HIDE DEF x
  <2>3. y \in ParseState
    BY <1>2, <2>1 DEF ParseState
  <2> HIDE DEF y
  <2>. QED BY <2>2, <2>3 DEF ParseState
<1>6. ValueDelimiter(st).offset = 0 /\ ValueDelimiter(st).top = top
  BY <1>3 DEF ParseState
<1>. QED BY <1>2, <1>4, <1>5, <1>6 DEF Bounded

\* So does an escape, although it takes three characters of the body.
LEMMA EscapeStateTyped ==
    ASSUME NEW st \in ParseState, NEW body \in Seq(Byte), NEW at \in 1 .. Len(body), NEW n \in Nat
    PROVE  /\ Escape(st, body, at) \in ParseState
           /\ Bounded(st, n) => Bounded(Escape(st, body, at), n + 1)
<1>0. Bounded(st, n) => Bounded(st, n + 1)
  BY BoundedGrows
<1>1. CASE at >= Len(body) - 1
  <2>1. Escape(st, body, at) = [st EXCEPT !.stopped = TRUE]
    BY <1>1 DEF Escape
  <2>2. [st EXCEPT !.stopped = TRUE] \in ParseState
    BY DEF ParseState
  <2>3. Bounded(st, n + 1) => Bounded([st EXCEPT !.stopped = TRUE], n + 1)
    BY DEF ParseState, Bounded
  <2>. QED BY <1>0, <2>1, <2>2, <2>3
<1>2. CASE ~(at >= Len(body) - 1) /\ ~({body[at + 1], body[at + 2]} \subseteq HexDigit)
  <2>1. Escape(st, body, at) = [st EXCEPT !.stopped = TRUE, !.code = "internal error"]
    BY <1>2 DEF Escape
  <2>2. [st EXCEPT !.stopped = TRUE, !.code = "internal error"] \in ParseState
    BY DEF ParseState
  <2>3. Bounded(st, n + 1) => Bounded([st EXCEPT !.stopped = TRUE, !.code = "internal error"], n + 1)
    BY DEF ParseState, Bounded
  <2>. QED BY <1>0, <2>1, <2>2, <2>3
<1>3. CASE ~(at >= Len(body) - 1) /\ {body[at + 1], body[at + 2]} \subseteq HexDigit
  <2> DEFINE c == 16 * HexValue(body[at + 1]) + HexValue(body[at + 2])
  <2>1. Escape(st, body, at) = [Collect(st, c) EXCEPT !.skip = 2]
    BY <1>3 DEF Escape
  <2>2. c \in Byte
    BY <1>3, EscapeTyped
  <2> HIDE DEF c
  <2>3. Collect(st, c) \in ParseState /\ (Bounded(st, n) => Bounded(Collect(st, c), n + 1))
    BY <2>2, CollectTyped
  <2> DEFINE next == Collect(st, c)
  <2>4. next \in ParseState /\ Escape(st, body, at) = [next EXCEPT !.skip = 2]
    BY <2>1, <2>3
  <2> HIDE DEF next
  <2>5. [next EXCEPT !.skip = 2] \in ParseState
    <3>1. 2 \in Skips
      BY DEF Skips
    <3>. QED BY <2>4, <3>1 DEF ParseState
  <2>6. Bounded(next, n + 1) => Bounded([next EXCEPT !.skip = 2], n + 1)
    BY <2>4 DEF ParseState, Bounded
  <2>. QED BY <2>3, <2>4, <2>5, <2>6 DEF next
<1>. QED BY <1>1, <1>2, <1>3

\* Whatever the character, the writes move on by at most one.
LEMMA ParseCharTyped ==
    ASSUME NEW st \in ParseState, NEW body \in Seq(Byte), NEW at \in 1 .. Len(body), NEW n \in Nat
    PROVE  /\ ParseChar(st, body, at) \in ParseState
           /\ Bounded(st, n) => Bounded(ParseChar(st, body, at), n + 1)
<1>0. body[at] \in Byte /\ Space \in Byte
  <2>1. body[at] \in Byte
    OBVIOUS
  <2>2. Space \in Byte
    BY DEF Byte, Space
  <2>. QED BY <2>1, <2>2
<1>a. Bounded(st, n) => Bounded(st, n + 1)
  BY BoundedGrows
<1>1. CASE st.stopped
  <2>1. ParseChar(st, body, at) = st
    BY <1>1 DEF ParseChar
  <2>. QED BY <1>a, <2>1
<1>2. CASE ~st.stopped /\ st.skip > 0
  <2>1. ParseChar(st, body, at) = [st EXCEPT !.skip = @ - 1]
    BY <1>2 DEF ParseChar
  <2>2. st.skip \in 0 .. 2
    BY DEF ParseState, Skips
  <2>3. st.skip - 1 \in Skips
    BY <1>2, <2>2 DEF Skips
  <2>4. [st EXCEPT !.skip = @ - 1] \in ParseState
    BY <2>3 DEF ParseState
  <2>5. Bounded(st, n + 1) => Bounded([st EXCEPT !.skip = @ - 1], n + 1)
    BY DEF ParseState, Bounded
  <2>. QED BY <1>a, <2>1, <2>4, <2>5
<1>3. CASE ~st.stopped /\ ~(st.skip > 0)
  <2>1. \/ ParseChar(st, body, at) = NameDelimiter(st)
        \/ ParseChar(st, body, at) = ValueDelimiter(st)
        \/ ParseChar(st, body, at) = Escape(st, body, at)
        \/ ParseChar(st, body, at) = Collect(st, Space)
        \/ ParseChar(st, body, at) = Collect(st, body[at])
    BY <1>3 DEF ParseChar
  <2>. QED BY <1>0, <2>1, NameDelimiterTyped, ValueDelimiterTyped, EscapeStateTyped, CollectTyped
<1>. QED BY <1>1, <1>2, <1>3

\* What is parsed of a body is parsed character by character.
LEMMA ParsedLaw ==
    ASSUME NEW body \in Seq(Byte)
    PROVE  /\ Parsed(body)[0] = Unparsed
           /\ \A n \in 0 .. Len(body) : Parsed(body)[n] \in ParseState
           /\ \A n \in 1 .. Len(body) : Parsed(body)[n] = ParseChar(Parsed(body)[n - 1], body, n)
<1> DEFINE N == Len(body)
           step == [k \in 1 .. N |-> [x \in ParseState |-> ParseChar(x, body, k)]]
           st[n \in 0 .. N] == IF n = 0 THEN Unparsed ELSE ParseChar(st[n - 1], body, n)
<1>1. Parsed(body) = st
  BY DEF Parsed
<1> HIDE DEF st
<1>2. N \in Nat /\ Unparsed \in ParseState
  <2>1. Unparsed \in ParseState
    <3>1. <<>> \in Bytes /\ <<>> \in PostValues /\ 0 \in Skips /\ 0 \in Nat
      <4>1. <<>> \in [{} -> Seq(Byte)] /\ {} \in SUBSET Seq(Byte)
        OBVIOUS
      <4> DEFINE none == <<>>
                 Str == Seq(Byte)
      <4>2. none \in [{} -> Str]
        BY <4>1
      <4>3. none \in Bytes /\ 0 \in Skips /\ 0 \in Nat
        BY DEF Bytes, Skips
      <4>4. PostValues = UNION {[names -> Str] : names \in SUBSET Str}
        BY DEF PostValues
      <4> HIDE DEF none, Str
      <4>5. none \in PostValues
        BY <4>2, <4>4
      <4>. QED BY <4>3, <4>5 DEF none
    <3>. QED BY <3>1 DEF Unparsed, ParseState
  <2>. QED BY <2>1
<1>3. ASSUME NEW k \in 1 .. N, NEW x \in ParseState PROVE ParseChar(x, body, k) \in ParseState
  <2>1. k \in 1 .. Len(body) /\ 0 \in Nat
    OBVIOUS
  <2>. QED BY <2>1, ParseCharTyped
<1> HIDE DEF N
<1>4. step \in StepsIn(ParseState, N)
  BY <1>3 DEF StepsIn
<1>5. PICK f \in RunsIn(ParseState, N) : IsRecursive(f, Unparsed, N, step)
  <2> HIDE DEF step
  <2>. QED BY <1>2, <1>4, RecursionExists
<1>6. f \in [0 .. N -> ParseState] /\ f[0] = Unparsed
  BY <1>5 DEF RunsIn, IsRecursive
<1>7. ASSUME NEW n \in 1 .. N PROVE f[n] = ParseChar(f[n - 1], body, n)
  <2>1. n - 1 \in 0 .. N
    BY <1>2
  <2>2. f[n - 1] \in ParseState
    BY <1>6, <2>1
  <2>3. f[n] = step[n][f[n - 1]]
    BY <1>5 DEF IsRecursive
  <2>. QED BY <2>2, <2>3
<1> HIDE DEF step
<1>8. st = [n \in 0 .. N |-> IF n = 0 THEN Unparsed ELSE ParseChar(st[n - 1], body, n)]
  <2>1. \A n \in 0 .. N : f[n] = IF n = 0 THEN Unparsed ELSE ParseChar(f[n - 1], body, n)
    BY <1>2, <1>6, <1>7
  <2>2. f = [n \in 0 .. N |-> IF n = 0 THEN Unparsed ELSE ParseChar(f[n - 1], body, n)]
    BY <1>6, <2>1
  <2>. QED BY <2>2 DEF st
<1>9. ASSUME NEW n \in 1 .. N PROVE st[n] = ParseChar(st[n - 1], body, n)
  <2>1. n \in 0 .. N /\ n # 0
    BY <1>2
  <2>. QED BY <1>8, <2>1
<1>10. st[0] = Unparsed
  BY <1>2, <1>8
<1> DEFINE G == {n \in 0 .. N : st[n] \in ParseState}
<1>11. \A n \in 0 .. N : n \in G
  <2>1. 0 \in G
    BY <1>2, <1>10
  <2>2. ASSUME NEW n \in 1 .. N, n - 1 \in G PROVE n \in G
    <3>1. n \in 0 .. N
      BY <1>2
    <3>2. st[n - 1] \in ParseState
      BY <2>2
    <3>3. st[n] \in ParseState
      BY <1>3, <1>9, <3>2
    <3>. QED BY <3>1, <3>3
  <2> HIDE DEF G
  <2>. QED BY <1>2, <2>1, <2>2, InductionUpTo
<1>. QED BY <1>1, <1>9, <1>10, <1>11 DEF N

\* No body makes parsePost() write behind its buffer.
THEOREM PostsFitTheirBuffer == PostFitsItsBuffer
<1> SUFFICES ASSUME NEW body \in Bodies PROVE ParsePost(body).top < BufferSize(body)
  BY DEF PostFitsItsBuffer
<1>1. body \in Seq(Byte) /\ Len(body) \in Nat
  BY FormsAssumption
<1> DEFINE N == Len(body)
           st == Parsed(body)
           G == {n \in 0 .. N : Bounded(st[n], n)}
<1>2. /\ st[0] = Unparsed /\ \A n \in 0 .. N : st[n] \in ParseState
      /\ \A n \in 1 .. N : st[n] = ParseChar(st[n - 1], body, n)
  BY <1>1, ParsedLaw
<1> HIDE DEF st
<1>3. \A n \in 0 .. N : n \in G
  <2>1. 0 \in G
    BY <1>1, <1>2 DEF Unparsed, Bounded
  <2>2. ASSUME NEW n \in 1 .. N, n - 1 \in G PROVE n \in G
    <3>1. n \in 0 .. N /\ n - 1 \in 0 .. N /\ n - 1 \in Nat /\ n = (n - 1) + 1
      BY <1>1
    <3>2. Bounded(st[n - 1], n - 1) /\ st[n - 1] \in ParseState
      BY <1>2, <2>2, <3>1
    <3>3. Bounded(ParseChar(st[n - 1], body, n), (n - 1) + 1)
      BY <1>1, <3>1, <3>2, ParseCharTyped
    <3>4. Bounded(st[n], n)
      BY <1>2, <3>1, <3>3
    <3>. QED BY <3>1, <3>4
  <2> HIDE DEF G, N
  <2>. QED BY <1>1, <2>1, <2>2, InductionUpTo DEF N
<1> DEFINE last == st[N]
<1>4. last \in ParseState /\ Bounded(last, N)
  BY <1>1, <1>2, <1>3
<1>5. last.top \in Nat /\ last.offset \in Nat /\ last.top <= N /\ last.offset <= N
  BY <1>4 DEF Bounded, ParseState
<1>6. CASE Len(body) \notin 1 .. MaxPostBodyLen - 1
  <2>1. ParsePost(body).top = 0
    BY <1>6 DEF ParsePost, Unparsed
  <2>. QED BY <1>1, <2>1 DEF BufferSize
<1>7. CASE Len(body) \in 1 .. MaxPostBodyLen - 1
  <2> DEFINE top == IF last.stopped \/ HasValue(last) THEN Larger(last.top, last.offset) ELSE last.top
  <2>1. ParsePost(body) = IF last.code # "ok" THEN last
                          ELSE [last EXCEPT !.postValues = AddValue(last), !.top = top]
    BY <1>7 DEF ParsePost, st
  <2>2. top <= N /\ top \in Nat
    BY <1>5 DEF Larger
  <2> HIDE DEF top, last
  <2>3. ParsePost(body).top \in {last.top, top}
    BY <1>4, <2>1 DEF ParseState
  <2>. QED BY <1>1, <1>5, <2>2, <2>3 DEF BufferSize
<1>. QED BY <1>6, <1>7

\* Where the parser is between two characters of a form, with skip bytes of an
\* escape still to come.
At(st, getting, key, part, values, skip) ==
    /\ st \in ParseState /\ st.gettingValuePortion = getting /\ st.key = key /\ st.part = part
    /\ st.postValues = values /\ st.skip = skip /\ st.stopped = FALSE /\ st.code = "ok"

\* A character is appended to what is being collected.
LEMMA CollectAt ==
    ASSUME NEW st, NEW getting, NEW key, NEW part, NEW values, NEW c \in Byte,
           At(st, getting, key, part, values, 0)
    PROVE  /\ At(Collect(st, c), getting, key, Append(part, c), values, 0)
           /\ At([Collect(st, c) EXCEPT !.skip = 2], getting, key, Append(part, c), values, 2)
<1>1. st \in ParseState
  BY DEF At
<1>2. Collect(st, c) \in ParseState
  BY <1>1, CollectTyped
<1> DEFINE next == Collect(st, c)
<1>3. At(next, getting, key, Append(part, c), values, 0)
  BY <1>1, <1>2 DEF At, Collect, ParseState
<1> HIDE DEF next
<1>4. [next EXCEPT !.skip = 2] \in ParseState
  <2>1. 2 \in Skips /\ next \in ParseState
    BY <1>3 DEF Skips, At
  <2>. QED BY <2>1 DEF ParseState
<1>5. At([next EXCEPT !.skip = 2], getting, key, Append(part, c), values, 2)
  BY <1>3, <1>4 DEF At, ParseState
<1>. QED BY <1>3, <1>5 DEF next

\* The digits of an escape are skipped.
LEMMA SkipAt ==
    ASSUME NEW body \in Seq(Byte), NEW at \in 1 .. Len(body), NEW st, NEW getting, NEW key, NEW part,
           NEW values, NEW skip \in 1 .. 2, At(st, getting, key, part, values, skip)
    PROVE  At(ParseChar(st, body, at), getting, key, part, values, skip - 1)
<1>1. st \in ParseState /\ ~st.stopped /\ st.skip = skip
  BY DEF At
<1>2. ParseChar(st, body, at) = [st EXCEPT !.skip = @ - 1]
  BY <1>1 DEF ParseChar
<1>3. ParseChar(st, body, at) \in ParseState
  <2>1. 0 \in Nat
    OBVIOUS
  <2>. QED BY <1>1, <2>1, ParseCharTyped
<1>. QED BY <1>1, <1>2, <1>3 DEF At, ParseState

\* What an encoded character looks like.
LEMMA EncodedChar ==
    ASSUME NEW c \in Byte \ {0}
    PROVE  /\ EncodeChar(c) \in Seq(Byte)
           /\ \/ /\ c \in Unreserved /\ EncodeChar(c) = <<c>>
                 /\ c \notin {Equals, Ampersand, Percent, Plus}
              \/ c = Space /\ EncodeChar(c) = <<Plus>>
              \/ \E a \in HexDigit, b \in HexDigit :
                    EncodeChar(c) = <<Percent, a, b>> /\ 16 * HexValue(a) + HexValue(b) = c
<1>0. c \in 1 .. 255
  BY DEF Byte
<1>1. CASE c \in Unreserved
  <2>0. c # Space
    BY <1>1 DEF Unreserved, Digits, Space
  <2>1. EncodeChar(c) = <<c>>
    BY <1>1, <2>0 DEF EncodeChar
  <2>2. c \notin {Equals, Ampersand, Percent, Plus}
    BY <1>0, <1>1 DEF Unreserved, Digits, Equals, Ampersand, Percent, Plus
  <2>3. <<c>> \in Seq(Byte)
    OBVIOUS
  <2>. QED BY <1>1, <2>1, <2>2, <2>3
<1>2. CASE c \notin Unreserved /\ c = Space
  <2>1. EncodeChar(c) = <<Plus>>
    BY <1>2 DEF EncodeChar
  <2>2. Plus \in Byte
    BY DEF Plus, Byte
  <2>3. <<Plus>> \in Seq(Byte)
    BY <2>2
  <2>. QED BY <1>2, <2>1, <2>3
<1>3. CASE c \notin Unreserved /\ c # Space
  <2> DEFINE h == c \div 16
             l == c % 16
  <2>1. EncodeChar(c) = <<Percent, HexChar(h), HexChar(l)>>
    BY <1>3 DEF EncodeChar
  <2>2. h \in 0 .. 15 /\ l \in 0 .. 15 /\ 16 * h + l = c
    BY <1>0
  <2> HIDE DEF h, l
  <2>3. \A n \in 0 .. 15 : HexChar(n) \in HexDigit /\ HexValue(HexChar(n)) = n /\ HexChar(n) \in Byte
    BY DEF HexChar, HexDigit, HexValue, Digits, Byte
  <2>4. Percent \in Byte
    BY DEF Percent, Byte
  <2>5. <<Percent, HexChar(h), HexChar(l)>> \in Seq(Byte)
    BY <2>2, <2>3, <2>4
  <2>6. 16 * HexValue(HexChar(h)) + HexValue(HexChar(l)) = c
    BY <2>2, <2>3
  <2>. QED BY <2>1, <2>2, <2>3, <2>5, <2>6
<1>. QED BY <1>1, <1>2, <1>3

\* The body holds a text behind its first p characters.
Holds(body, p, text) ==
    p + Len(text) <= Len(body) /\ \A j \in 1 .. Len(text) : body[p + j] = text[j]

\* An encoded character is collected as what it was.
LEMMA CharCollected ==
    ASSUME NEW body \in Seq(Byte), NEW p \in Nat, NEW c \in Byte \ {0}, Holds(body, p, EncodeChar(c)),
           NEW getting, NEW key, NEW part, NEW values,
           At(Parsed(body)[p], getting, key, part, values, 0)
    PROVE  At(Parsed(body)[p + Len(EncodeChar(c))], getting, key, Append(part, c), values, 0)
<1> DEFINE st == Parsed(body)
           N == Len(body)
<1>0. N \in Nat /\ \A n \in 1 .. N : st[n] = ParseChar(st[n - 1], body, n)
  BY ParsedLaw
<1>1. At(st[p], getting, key, part, values, 0)
  OBVIOUS
<1> HIDE DEF st
<1>2. ~st[p].stopped /\ ~(st[p].skip > 0) /\ c \in Byte /\ Space \in Byte
  <2>1. c \in Byte
    OBVIOUS
  <2>2. Space \in Byte
    BY DEF Space, Byte
  <2>. QED BY <1>1, <2>1, <2>2 DEF At
<1>3. ASSUME NEW b, EncodeChar(c) = <<b>>
      PROVE  /\ p + 1 \in 1 .. N /\ p + Len(EncodeChar(c)) = p + 1 /\ body[p + 1] = b
             /\ st[p + 1] = ParseChar(st[p], body, p + 1)
  <2>1. Len(<<b>>) = 1 /\ <<b>>[1] = b /\ 1 \in 1 .. 1
    OBVIOUS
  <2>2. p + 1 <= N /\ body[p + 1] = b
    BY <1>3, <2>1 DEF Holds
  <2>3. p + 1 \in 1 .. N /\ (p + 1) - 1 = p
    BY <1>0, <2>2
  <2>. QED BY <1>0, <1>3, <2>1, <2>2, <2>3
<1>4. CASE c \in Unreserved /\ EncodeChar(c) = <<c>> /\ c \notin {Equals, Ampersand, Percent, Plus}
  <2>1. ParseChar(st[p], body, p + 1) = Collect(st[p], c)
    BY <1>2, <1>3, <1>4 DEF ParseChar
  <2>2. At(Collect(st[p], c), getting, key, Append(part, c), values, 0)
    BY <1>1, <1>2, CollectAt
  <2>. QED BY <1>3, <1>4, <2>1, <2>2 DEF st
<1>5. CASE c = Space /\ EncodeChar(c) = <<Plus>>
  <2>1. Plus \notin {Equals, Ampersand, Percent}
    BY DEF Plus, Equals, Ampersand, Percent
  <2>2. ParseChar(st[p], body, p + 1) = Collect(st[p], c)
    BY <1>2, <1>3, <1>5, <2>1 DEF ParseChar
  <2>3. At(Collect(st[p], c), getting, key, Append(part, c), values, 0)
    BY <1>1, <1>2, CollectAt
  <2>. QED BY <1>3, <1>5, <2>2, <2>3 DEF st
<1>6. ASSUME NEW a \in HexDigit, NEW b \in HexDigit, EncodeChar(c) = <<Percent, a, b>>,
             16 * HexValue(a) + HexValue(b) = c
      PROVE  At(st[p + Len(EncodeChar(c))], getting, key, Append(part, c), values, 0)
  <2> DEFINE e == <<Percent, a, b>>
  <2>1. Len(e) = 3 /\ e[1] = Percent /\ e[2] = a /\ e[3] = b
    OBVIOUS
  <2>2. p + 3 <= N /\ body[p + 1] = Percent /\ body[p + 2] = a /\ body[p + 3] = b
    BY <1>6, <2>1 DEF Holds
  <2>3. /\ p + 1 \in 1 .. N /\ p + 2 \in 1 .. N /\ p + 3 \in 1 .. N /\ ~(p + 1 >= N - 1)
        /\ (p + 1) - 1 = p /\ (p + 2) - 1 = p + 1 /\ (p + 3) - 1 = p + 2
        /\ (p + 1) + 1 = p + 2 /\ (p + 1) + 2 = p + 3
    BY <1>0, <2>2
  <2>4. ParseChar(st[p], body, p + 1) = Escape(st[p], body, p + 1)
    <3>1. Percent \notin {Equals, Ampersand, Plus}
      BY DEF Percent, Equals, Ampersand, Plus
    <3>. QED BY <1>2, <2>2, <3>1 DEF ParseChar
  <2>5. Escape(st[p], body, p + 1) = [Collect(st[p], c) EXCEPT !.skip = 2]
    BY <1>6, <2>2, <2>3 DEF Escape
  <2>6. At(st[p + 1], getting, key, Append(part, c), values, 2)
    <3>1. st[p + 1] = ParseChar(st[p], body, p + 1)
      BY <1>0, <2>3
    <3>2. At([Collect(st[p], c) EXCEPT !.skip = 2], getting, key, Append(part, c), values, 2)
      BY <1>1, <1>2, CollectAt
    <3>. QED BY <2>4, <2>5, <3>1, <3>2
  <2>7. At(st[p + 2], getting, key, Append(part, c), values, 1)
    <3>1. At(ParseChar(st[p + 1], body, p + 2), getting, key, Append(part, c), values, 2 - 1)
      BY <2>3, <2>6, SkipAt
    <3>. QED BY <1>0, <2>3, <3>1
  <2>8. At(st[p + 3], getting, key, Append(part, c), values, 0)
    <3>1. At(ParseChar(st[p + 2], body, p + 3), getting, key, Append(part, c), values, 1 - 1)
      BY <2>3, <2>7, SkipAt
    <3>. QED BY <1>0, <2>3, <3>1
  <2>. QED BY <1>6, <2>1, <2>8
<1>. QED BY <1>4, <1>5, <1>6, EncodedChar DEF st

\* So is an encoded text, from where a part begins.
LEMMA TextCollected ==
    ASSUME NEW body \in Seq(Byte), NEW p \in Nat, NEW s \in Seq(Byte \ {0}), Holds(body, p, Encode(s)),
           NEW getting, NEW key, NEW values, At(Parsed(body)[p], getting, key, <<>>, values, 0)
    PROVE  /\ Encode(s) \in Seq(Byte)
           /\ At(Parsed(body)[p + Len(Encode(s))], getting, key, s, values, 0)
<1> DEFINE n == Len(s)
           seqs == [m \in DOMAIN s |-> EncodeChar(s[m])]
           st == Parsed(body)
<1>1. n \in Nat /\ DOMAIN s = 1 .. n /\ \A m \in 1 .. n : s[m] \in Byte \ {0}
  OBVIOUS
<1>2. seqs \in Seq(Seq(Byte)) /\ Len(seqs) = n /\ \A m \in 1 .. n : seqs[m] = EncodeChar(s[m])
  <2>1. \A m \in 1 .. n : EncodeChar(s[m]) \in Seq(Byte)
    BY <1>1, EncodedChar
  <2> DEFINE T == Seq(Byte)
  <2>2. \A m \in 1 .. n : seqs[m] \in T
    BY <1>1, <2>1
  <2> HIDE DEF T, n
  <2>3. seqs \in [1 .. n -> T]
    BY <1>1, <2>2
  <2>4. seqs \in Seq(T) /\ Len(seqs) = n
    BY <1>1, <2>3
  <2>. QED BY <1>1, <2>4 DEF T
<1>3. Encode(s) = FlattenSeq(seqs)
  BY DEF Encode
<1> HIDE DEF seqs
<1>4. Encode(s) \in Seq(Byte) /\ \E pos : IsPlaced(pos, seqs, Encode(s))
  BY <1>2, <1>3, FlattenPlaces
<1>5. PICK pos : IsPlaced(pos, seqs, Encode(s))
  BY <1>4
<1>6. /\ pos \in [0 .. n -> Nat] /\ pos[0] = 0 /\ pos[n] = Len(Encode(s))
      /\ \A k \in 1 .. n : /\ pos[k] = pos[k - 1] + Len(EncodeChar(s[k])) /\ pos[k] <= Len(Encode(s))
                           /\ \A j \in 1 .. Len(EncodeChar(s[k])) :
                                 Encode(s)[pos[k - 1] + j] = EncodeChar(s[k])[j]
  <2>1. /\ pos \in [0 .. n -> Nat] /\ pos[0] = 0 /\ pos[n] = Len(Encode(s))
        /\ \A k \in 1 .. n : /\ pos[k] = pos[k - 1] + Len(seqs[k]) /\ pos[k] <= Len(Encode(s))
                             /\ \A j \in 1 .. Len(seqs[k]) : Encode(s)[pos[k - 1] + j] = seqs[k][j]
    <3> HIDE DEF n
    <3>. QED BY <1>2, <1>5 DEF IsPlaced
  <2> HIDE DEF n
  <2>2. ASSUME NEW k \in 1 .. n
        PROVE  /\ pos[k] = pos[k - 1] + Len(EncodeChar(s[k])) /\ pos[k] <= Len(Encode(s))
               /\ \A j \in 1 .. Len(EncodeChar(s[k])) : Encode(s)[pos[k - 1] + j] = EncodeChar(s[k])[j]
    <3>1. seqs[k] = EncodeChar(s[k])
      BY <1>2
    <3>. QED BY <2>1, <3>1, Zenon
  <2>. QED BY <2>1, <2>2
<1>7. ASSUME NEW k \in 1 .. n PROVE Holds(body, p + pos[k - 1], EncodeChar(s[k]))
  <2> DEFINE c == EncodeChar(s[k])
             q == pos[k - 1]
             e == Encode(s)
  <2>1. k - 1 \in 0 .. n
    BY <1>1
  <2>2. q \in Nat /\ Len(c) \in Nat /\ Len(e) \in Nat
    <3>1. c \in Seq(Byte) /\ e \in Seq(Byte)
      BY <1>1, <1>4, EncodedChar
    <3>. QED BY <1>6, <2>1, <3>1
  <2>3. q + Len(c) <= Len(e) /\ \A j \in 1 .. Len(c) : e[q + j] = c[j]
    BY <1>6
  <2>4. p + Len(e) <= Len(body) /\ Len(body) \in Nat /\ \A j \in 1 .. Len(e) : body[p + j] = e[j]
    BY DEF Holds
  <2> HIDE DEF c, q, e
  <2>5. (p + q) + Len(c) <= Len(body)
    BY <2>2, <2>3, <2>4
  <2>6. ASSUME NEW j \in 1 .. Len(c) PROVE body[(p + q) + j] = c[j]
    <3>1. q + j \in 1 .. Len(e) /\ (p + q) + j = p + (q + j)
      BY <2>2, <2>3
    <3>2. body[p + (q + j)] = e[q + j]
      BY <2>4, <3>1
    <3>. QED BY <2>3, <3>1, <3>2
  <2>7. Holds(body, p + q, c)
    BY <2>5, <2>6 DEF Holds
  <2>. QED BY <2>7 DEF c, q
<1> DEFINE G == {k \in 0 .. n : At(st[p + pos[k]], getting, key, SubSeq(s, 1, k), values, 0)}
<1>8. \A k \in 0 .. n : k \in G
  <2>1. 0 \in G
    <3>1. SubSeq(s, 1, 0) = <<>> /\ p + pos[0] = p /\ 0 \in 0 .. n
      BY <1>1, <1>6
    <3>. QED BY <3>1
  <2>2. ASSUME NEW k \in 1 .. n, k - 1 \in G PROVE k \in G
    <3>1. At(st[p + pos[k - 1]], getting, key, SubSeq(s, 1, k - 1), values, 0)
      BY <2>2
    <3>2. k \in 0 .. n /\ k - 1 \in 0 .. n /\ s[k] \in Byte \ {0}
      BY <1>1
    <3>3. p + pos[k - 1] \in Nat /\ pos[k - 1] \in Nat
      <4>1. pos \in [0 .. n -> Nat]
        BY <1>6
      <4>2. pos[k - 1] \in Nat
        BY <3>2, <4>1
      <4>. QED BY <4>2
    <3>4. At(st[(p + pos[k - 1]) + Len(EncodeChar(s[k]))], getting, key,
             Append(SubSeq(s, 1, k - 1), s[k]), values, 0)
      <4> DEFINE q == p + pos[k - 1]
                 c == s[k]
                 part == SubSeq(s, 1, k - 1)
      <4>1. q \in Nat /\ c \in Byte \ {0} /\ Holds(body, q, EncodeChar(c))
            /\ At(Parsed(body)[q], getting, key, part, values, 0)
        BY <1>7, <3>1, <3>2, <3>3
      <4> HIDE DEF q, c, part
      <4>2. At(Parsed(body)[q + Len(EncodeChar(c))], getting, key, Append(part, c), values, 0)
        BY <4>1, CharCollected
      <4>. QED BY <4>2 DEF q, c, part
    <3>5. Append(SubSeq(s, 1, k - 1), s[k]) = SubSeq(s, 1, k)
      BY <1>1, <3>2
    <3>6. (p + pos[k - 1]) + Len(EncodeChar(s[k])) = p + pos[k]
      <4>1. pos[k] = pos[k - 1] + Len(EncodeChar(s[k])) /\ pos[k] \in Nat
        BY <1>6, <3>2
      <4>2. Len(EncodeChar(s[k])) \in Nat
        BY <3>2, EncodedChar
      <4>. QED BY <3>3, <4>1, <4>2
    <3>. QED BY <3>2, <3>4, <3>5, <3>6
  <2> HIDE DEF G, n
  <2>. QED BY <1>1, <2>1, <2>2, InductionUpTo
<1>9. At(st[p + pos[n]], getting, key, SubSeq(s, 1, n), values, 0)
  BY <1>1, <1>8
<1>10. SubSeq(s, 1, n) = s
  BY <1>1
<1>. QED BY <1>4, <1>6, <1>9, <1>10

\* The two delimiters.
LEMMA NameDelimited ==
    ASSUME NEW body \in Seq(Byte), NEW p \in Nat, p + 1 <= Len(body), body[p + 1] = Equals,
           NEW part, NEW values, At(Parsed(body)[p], FALSE, <<>>, part, values, 0)
    PROVE  At(Parsed(body)[p + 1], TRUE, part, <<>>, values, 0)
<1> DEFINE st == Parsed(body)[p]
<1>1. Parsed(body)[p + 1] = ParseChar(st, body, p + 1)
  <2>1. p + 1 \in 1 .. Len(body) /\ (p + 1) - 1 = p
    OBVIOUS
  <2>. QED BY <2>1, ParsedLaw
<1>2. At(st, FALSE, <<>>, part, values, 0)
  OBVIOUS
<1> HIDE DEF st
<1>3. ~st.stopped /\ ~(st.skip > 0) /\ st \in ParseState /\ 0 \in Nat
  BY <1>2 DEF At
<1>4. ParseChar(st, body, p + 1) = NameDelimiter(st)
  <2>1. Equals \notin {Ampersand, Percent, Plus}
    BY DEF Equals, Ampersand, Percent, Plus
  <2>. QED BY <1>3, <2>1 DEF ParseChar
<1>5. NameDelimiter(st) \in ParseState
  BY <1>3, NameDelimiterTyped
<1>6. At(NameDelimiter(st), TRUE, part, <<>>, values, 0)
  BY <1>2, <1>5 DEF At, NameDelimiter, ParseState
<1>. QED BY <1>1, <1>4, <1>6

\* What is added to the values for a field.
With(values, name, value) == IF name = <<>> THEN values ELSE Put(values, name, value)

\* A value is added under its name, if it has one.
LEMMA AddedAt ==
    ASSUME NEW st, NEW name \in Seq(Byte \ {0}), NEW value \in Seq(Byte \ {0}), NEW values,
           At(st, TRUE, name, value, values, 0)
    PROVE  AddValue(st) = With(values, name, value)
<1>1. name \in Seq(Byte) /\ value \in Seq(Byte)
  OBVIOUS
<1>2. CString(name) = name /\ CString(value) = value
  BY <1>1, CStringTyped
<1>3. st.key = name /\ st.part = value /\ st.postValues = values /\ st.gettingValuePortion
  BY DEF At
<1>. QED BY <1>2, <1>3 DEF AddValue, HasValue, With

\* A `&' adds the value and starts the next field.
LEMMA ValueDelimited ==
    ASSUME NEW body \in Seq(Byte), NEW p \in Nat, p + 1 <= Len(body), body[p + 1] = Ampersand,
           NEW name \in Seq(Byte \ {0}), NEW value \in Seq(Byte \ {0}), NEW values,
           At(Parsed(body)[p], TRUE, name, value, values, 0)
    PROVE  At(Parsed(body)[p + 1], FALSE, <<>>, <<>>, With(values, name, value), 0)
<1> DEFINE st == Parsed(body)[p]
<1>1. Parsed(body)[p + 1] = ParseChar(st, body, p + 1)
  <2>1. p + 1 \in 1 .. Len(body) /\ (p + 1) - 1 = p
    OBVIOUS
  <2>. QED BY <2>1, ParsedLaw
<1>2. At(st, TRUE, name, value, values, 0)
  OBVIOUS
<1> HIDE DEF st
<1>3. ~st.stopped /\ ~(st.skip > 0) /\ st \in ParseState /\ 0 \in Nat
  BY <1>2 DEF At
<1>4. ParseChar(st, body, p + 1) = ValueDelimiter(st)
  <2>1. Ampersand \notin {Equals, Percent, Plus}
    BY DEF Equals, Ampersand, Percent, Plus
  <2>. QED BY <1>3, <2>1 DEF ParseChar
<1>5. ValueDelimiter(st) \in ParseState
  BY <1>3, ValueDelimiterTyped
<1>6. AddValue(st) = With(values, name, value)
  BY ZenonT(30), <1>2, AddedAt
<1>7. At(ValueDelimiter(st), FALSE, <<>>, <<>>, AddValue(st), 0)
  BY <1>2, <1>5 DEF At, ValueDelimiter, ParseState
<1>. QED BY <1>1, <1>4, <1>6, <1>7

\* A body that holds a text holds its two halves.
LEMMA HoldsHalves ==
    ASSUME NEW body \in Seq(Byte), NEW p \in Nat, NEW a \in Seq(Byte), NEW b \in Seq(Byte),
           Holds(body, p, a \o b)
    PROVE  Holds(body, p, a) /\ Holds(body, p + Len(a), b) /\ p + Len(a) \in Nat
<1> DEFINE ab == a \o b
<1>1. /\ Len(a) \in Nat /\ Len(b) \in Nat /\ Len(ab) = Len(a) + Len(b) /\ Len(body) \in Nat
      /\ \A j \in 1 .. Len(a) : ab[j] = a[j]
  OBVIOUS
<1>2. ASSUME NEW j \in 1 .. Len(b) PROVE ab[Len(a) + j] = b[j]
  OBVIOUS
<1>3. p + Len(ab) <= Len(body) /\ \A j \in 1 .. Len(ab) : body[p + j] = ab[j]
  BY DEF Holds
<1> HIDE DEF ab
<1>4. p + Len(a) <= Len(body) /\ (p + Len(a)) + Len(b) <= Len(body) /\ p + Len(a) \in Nat
  BY <1>1, <1>3
<1>5. ASSUME NEW j \in 1 .. Len(a) PROVE body[p + j] = a[j]
  <2>1. j \in 1 .. Len(ab)
    BY <1>1
  <2>. QED BY <1>1, <1>3, <2>1
<1>6. ASSUME NEW j \in 1 .. Len(b) PROVE body[(p + Len(a)) + j] = b[j]
  <2>1. Len(a) + j \in 1 .. Len(ab) /\ (p + Len(a)) + j = p + (Len(a) + j)
    BY <1>1
  <2>. QED BY <1>2, <1>3, <2>1
<1>. QED BY <1>4, <1>5, <1>6 DEF Holds

\* The encoding of a text of a form is a text.
LEMMA EncodeTyped ==
    ASSUME NEW s \in Seq(Byte \ {0})
    PROVE  Encode(s) \in Seq(Byte) /\ Len(Encode(s)) \in Nat
<1> DEFINE seqs == [m \in DOMAIN s |-> EncodeChar(s[m])]
           T == Seq(Byte)
<1>1. Len(s) \in Nat /\ DOMAIN s = 1 .. Len(s) /\ \A m \in 1 .. Len(s) : s[m] \in Byte \ {0}
  OBVIOUS
<1>2. \A m \in 1 .. Len(s) : EncodeChar(s[m]) \in T
  BY <1>1, EncodedChar
<1> HIDE DEF T
<1>3. seqs \in [1 .. Len(s) -> T]
  BY <1>1, <1>2
<1>4. seqs \in Seq(T)
  BY <1>1, <1>3
<1>5. FlattenSeq(seqs) \in Seq(Byte)
  <2> HIDE DEF seqs
  <2>. QED BY <1>4, FlattenPlaces DEF T
<1>6. Encode(s) \in Seq(Byte)
  BY <1>5 DEF Encode
<1>. QED BY <1>6

Field == Seq(Byte \ {0}) \X Seq(Byte \ {0})

\* A field is collected as its name and its value.
LEMMA FieldCollected ==
    ASSUME NEW body \in Seq(Byte), NEW p \in Nat, NEW field \in Field, Holds(body, p, EncodeField(field)),
           NEW values, At(Parsed(body)[p], FALSE, <<>>, <<>>, values, 0)
    PROVE  /\ EncodeField(field) \in Seq(Byte) /\ Len(EncodeField(field)) \in Nat \ {0}
           /\ At(Parsed(body)[p + Len(EncodeField(field))], TRUE, field[1], field[2], values, 0)
<1> DEFINE a == Encode(field[1])
           b == Encode(field[2])
           e == <<Equals>>
           name == field[1]
           value == field[2]
<1>0. name \in Seq(Byte \ {0}) /\ value \in Seq(Byte \ {0})
  BY DEF Field
<1>1. a \in Seq(Byte) /\ b \in Seq(Byte) /\ e \in Seq(Byte) /\ Len(e) = 1 /\ e[1] = Equals
  <2>1. Equals \in Byte
    BY DEF Equals, Byte
  <2>. QED BY <1>0, <2>1, EncodeTyped
<1>2. EncodeField(field) = (a \o e) \o b
  BY DEF EncodeField
<1>3. a = Encode(name) /\ b = Encode(value)
  OBVIOUS
<1> HIDE DEF a, b, e, name, value
<1>4. a \o e \in Seq(Byte) /\ Len(a \o e) = Len(a) + 1 /\ Len(a) \in Nat /\ Len(b) \in Nat
  <2>1. a \o e \in Seq(Byte) /\ Len(a \o e) = Len(a) + Len(e) /\ Len(a) \in Nat
    BY <1>1, ConcatLaw
  <2>2. Len(b) \in Nat
    BY <1>1
  <2>. QED BY <1>1, <2>1, <2>2
<1>5. /\ EncodeField(field) \in Seq(Byte) /\ Len(EncodeField(field)) \in Nat \ {0}
      /\ p + Len(EncodeField(field)) = (p + (Len(a) + 1)) + Len(b)
  <2>1. Len((a \o e) \o b) = Len(a \o e) + Len(b) /\ (a \o e) \o b \in Seq(Byte)
    BY <1>1, <1>4
  <2>. QED BY <1>2, <1>4, <2>1
<1>6. Holds(body, p, a \o e) /\ Holds(body, p + (Len(a) + 1), b) /\ p + (Len(a) + 1) \in Nat
  <2>1. Holds(body, p, (a \o e) \o b)
    BY <1>2
  <2> DEFINE ae == a \o e
  <2>2. ae \in Seq(Byte) /\ Holds(body, p, ae \o b) /\ Len(ae) = Len(a) + 1
    BY <1>4, <2>1
  <2> HIDE DEF ae
  <2>3. Holds(body, p, ae) /\ Holds(body, p + Len(ae), b) /\ p + Len(ae) \in Nat
    BY <1>1, <2>2, HoldsHalves
  <2>. QED BY <2>2, <2>3 DEF ae
<1>7. Holds(body, p, a) /\ Holds(body, p + Len(a), e) /\ p + Len(a) \in Nat
  BY <1>1, <1>6, HoldsHalves
<1>8. At(Parsed(body)[p + Len(a)], FALSE, <<>>, name, values, 0)
  BY <1>0, <1>3, <1>7, TextCollected
<1>9. At(Parsed(body)[(p + Len(a)) + 1], TRUE, name, <<>>, values, 0)
  <2>1. (p + Len(a)) + 1 <= Len(body) /\ body[(p + Len(a)) + 1] = Equals
    <3>1. 1 \in 1 .. Len(e)
      BY <1>1
    <3>. QED BY <1>1, <1>7, <3>1 DEF Holds
  <2> DEFINE q == p + Len(a)
  <2>2. q \in Nat /\ q + 1 <= Len(body) /\ body[q + 1] = Equals
        /\ At(Parsed(body)[q], FALSE, <<>>, name, values, 0)
    BY <1>7, <1>8, <2>1
  <2> HIDE DEF q
  <2>3. At(Parsed(body)[q + 1], TRUE, name, <<>>, values, 0)
    BY <2>2, NameDelimited
  <2>. QED BY <2>3 DEF q
<1>10. (p + Len(a)) + 1 = p + (Len(a) + 1)
  BY <1>4
<1>11. At(Parsed(body)[(p + (Len(a) + 1)) + Len(b)], TRUE, name, value, values, 0)
  <2> DEFINE q == p + (Len(a) + 1)
  <2>1. q \in Nat /\ Holds(body, q, Encode(value)) /\ At(Parsed(body)[q], TRUE, name, <<>>, values, 0)
    BY <1>3, <1>6, <1>9, <1>10
  <2> HIDE DEF q
  <2>2. At(Parsed(body)[q + Len(Encode(value))], TRUE, name, value, values, 0)
    BY <1>0, <2>1, TextCollected
  <2>. QED BY <1>3, <2>2 DEF q
<1>. QED BY <1>5, <1>11 DEF name, value

\* One field more.
LEMMA AreOfOneMore ==
    ASSUME NEW fields \in Seq(Field), NEW k \in 1 .. Len(fields), NEW values, AreOf(values, fields, k - 1)
    PROVE  AreOf(With(values, fields[k][1], fields[k][2]), fields, k)
<1> DEFINE name == fields[k][1]
           new == With(values, name, fields[k][2])
           Name(m) == fields[m][1]
<1>0. k \in Nat /\ 1 .. k = 1 .. k - 1 \cup {k} /\ Len(fields) \in Nat /\ k - 1 \in Nat
  OBVIOUS
<1>1. DOMAIN values = {Name(m) : m \in 1 .. k - 1} \ {<<>>}
  BY DEF AreOf
<1>2. {Name(m) : m \in 1 .. k} = {Name(m) : m \in 1 .. k - 1} \cup {name}
  BY <1>0
<1>3. CASE name = <<>>
  <2>1. new = values
    BY <1>3 DEF With
  <2>2. DOMAIN new = {Name(m) : m \in 1 .. k} \ {<<>>}
    BY <1>1, <1>2, <1>3, <2>1
  <2>3. ASSUME NEW m \in 1 .. k, Name(m) # <<>>, \A l \in m + 1 .. k : Name(l) # Name(m)
        PROVE  new[Name(m)] = fields[m][2]
    <3>1. m \in 1 .. k - 1
      BY <1>0, <1>3, <2>3
    <3>2. \A l \in m + 1 .. k - 1 : Name(l) # Name(m)
      BY <1>0, <2>3
    <3>. QED BY <2>1, <2>3, <3>1, <3>2 DEF AreOf
  <2>. QED BY <2>2, <2>3 DEF AreOf
<1>4. CASE name # <<>>
  <2>1. /\ DOMAIN new = DOMAIN values \cup {name}
        /\ \A x \in DOMAIN values \cup {name} :
              new[x] = IF x = name THEN fields[k][2] ELSE values[x]
    BY <1>4 DEF With, Put
  <2> HIDE DEF new
  <2>2. DOMAIN new = {Name(m) : m \in 1 .. k} \ {<<>>}
    BY <1>1, <1>2, <1>4, <2>1
  <2>3. ASSUME NEW m \in 1 .. k, Name(m) # <<>>, \A l \in m + 1 .. k : Name(l) # Name(m)
        PROVE  new[Name(m)] = fields[m][2]
    <3>1. CASE m = k
      BY <2>1, <3>1
    <3>2. CASE m # k
      <4>1. m \in 1 .. k - 1 /\ k \in m + 1 .. k /\ \A l \in m + 1 .. k - 1 : l \in m + 1 .. k
        BY <1>0, <3>2
      <4>2. Name(m) # name /\ \A l \in m + 1 .. k - 1 : Name(l) # Name(m)
        BY <2>3, <4>1
      <4>3. values[Name(m)] = fields[m][2]
        BY <2>3, <4>1, <4>2 DEF AreOf
      <4>4. Name(m) \in DOMAIN values
        BY <1>1, <2>3, <4>1
      <4>. QED BY <2>1, <4>2, <4>3, <4>4
    <3>. QED BY <3>1, <3>2
  <2>4. AreOf(new, fields, k)
    BY <2>2, <2>3 DEF AreOf
  <2>. QED BY <2>4 DEF new
<1>. QED BY <1>3, <1>4

\* The pieces of the body of a form.
Piece(fields, k) ==
    IF k < Len(fields) THEN EncodeField(fields[k]) \o <<Ampersand>> ELSE EncodeField(fields[k])

\* A field is encoded to at least one byte, its `='.
LEMMA EncodeFieldTyped ==
    ASSUME NEW field \in Field
    PROVE  EncodeField(field) \in Seq(Byte) /\ Len(EncodeField(field)) \in Nat \ {0}
<1> DEFINE a == Encode(field[1])
           b == Encode(field[2])
           e == <<Equals>>
<1>1. a \in Seq(Byte) /\ b \in Seq(Byte) /\ e \in Seq(Byte) /\ Len(e) = 1
  <2>1. Equals \in Byte
    BY DEF Equals, Byte
  <2>2. field[1] \in Seq(Byte \ {0}) /\ field[2] \in Seq(Byte \ {0})
    BY DEF Field
  <2>. QED BY <2>1, <2>2, EncodeTyped
<1>2. EncodeField(field) = (a \o e) \o b
  BY DEF EncodeField
<1> HIDE DEF a, b, e
<1> DEFINE ae == a \o e
<1>3. ae \in Seq(Byte) /\ Len(ae) = Len(a) + Len(e) /\ Len(a) \in Nat
  BY <1>1, ConcatLaw
<1>4. EncodeField(field) = ae \o b
  BY <1>2
<1> HIDE DEF ae
<1>5. ae \o b \in Seq(Byte) /\ Len(ae \o b) = Len(ae) + Len(b) /\ Len(b) \in Nat
  BY <1>1, <1>3, ConcatLaw
<1>. QED BY <1>1, <1>3, <1>4, <1>5

\* The fields of a form as pieces of its body.
LEMMA PiecesTyped ==
    ASSUME NEW fields \in Seq(Field)
    PROVE  /\ [k \in DOMAIN fields |-> Piece(fields, k)] \in Seq(Seq(Byte))
           /\ Len([k \in DOMAIN fields |-> Piece(fields, k)]) = Len(fields)
<1> DEFINE n == Len(fields)
           T == Seq(Byte)
           seqs == [k \in DOMAIN fields |-> Piece(fields, k)]
<1>1. n \in Nat /\ DOMAIN fields = 1 .. n /\ \A k \in 1 .. n : fields[k] \in Field
  OBVIOUS
<1>2. \A k \in 1 .. n : Piece(fields, k) \in T
  <2> SUFFICES ASSUME NEW k \in 1 .. n PROVE Piece(fields, k) \in T
    OBVIOUS
  <2> DEFINE e == EncodeField(fields[k])
             amp == <<Ampersand>>
  <2>1. e \in Seq(Byte)
    BY <1>1, EncodeFieldTyped
  <2>2. amp \in Seq(Byte)
    <3>1. Ampersand \in Byte
      BY DEF Ampersand, Byte
    <3>. QED BY <3>1
  <2>3. Piece(fields, k) \in {e, e \o amp}
    BY DEF Piece
  <2> HIDE DEF e, amp
  <2>4. e \o amp \in Seq(Byte)
    BY <2>1, <2>2
  <2>. QED BY <2>1, <2>3, <2>4
<1> HIDE DEF T, n
<1>3. seqs \in [1 .. n -> T]
  BY <1>1, <1>2
<1>4. seqs \in Seq(T) /\ Len(seqs) = n
  BY <1>1, <1>3
<1>. QED BY <1>4 DEF T, n

\* Whatever its fields hold, parsePost() makes of a form what was sent.
THEOREM PostsAreParsedAsSent == PostIsParsedAsSent
<1> SUFFICES ASSUME NEW fields \in SentForms
             PROVE  IF Len(FormBody(fields)) < MaxPostBodyLen
                    THEN /\ ParsePost(FormBody(fields)).code = "ok"
                         /\ AreOf(ParsePost(FormBody(fields)).postValues, fields, Len(fields))
                    ELSE ParsePost(FormBody(fields)).code = "internal error"
  BY DEF PostIsParsedAsSent
<1> DEFINE n == Len(fields)
           body == FormBody(fields)
           seqs == [k \in DOMAIN fields |-> Piece(fields, k)]
           st == Parsed(body)
<1>1. fields \in Seq(Field) /\ fields # <<>>
  BY FormsAssumption DEF Field
<1>2. n \in Nat \ {0} /\ DOMAIN fields = 1 .. n /\ \A k \in 1 .. n : fields[k] \in Field
  BY <1>1
<1>3. body = FlattenSeq(seqs)
  BY DEF FormBody, Piece
<1>4. seqs \in Seq(Seq(Byte)) /\ Len(seqs) = n
  BY <1>1, PiecesTyped
<1>5. \A k \in 1 .. n : seqs[k] = Piece(fields, k)
  BY <1>2
<1> HIDE DEF body, seqs, n
<1>6. body \in Seq(Byte) /\ \E pos : IsPlaced(pos, seqs, body)
  BY <1>3, <1>4, FlattenPlaces
<1>7. PICK pos : IsPlaced(pos, seqs, body)
  BY <1>6
<1>8. /\ pos \in [0 .. n -> Nat] /\ pos[0] = 0 /\ pos[n] = Len(body) /\ Len(body) \in Nat
      /\ \A k \in 1 .. n : /\ pos[k] = pos[k - 1] + Len(seqs[k]) /\ pos[k] <= Len(body)
                           /\ \A j \in 1 .. Len(seqs[k]) : body[pos[k - 1] + j] = seqs[k][j]
  BY <1>4, <1>6, <1>7 DEF IsPlaced
<1>9. ASSUME NEW k \in 1 .. n
      PROVE  /\ k - 1 \in 0 .. n /\ k \in 0 .. n /\ pos[k - 1] \in Nat
             /\ Len(Piece(fields, k)) \in Nat /\ pos[k] = pos[k - 1] + Len(Piece(fields, k))
             /\ Holds(body, pos[k - 1], Piece(fields, k))
  <2>1. k - 1 \in 0 .. n /\ k \in 0 .. n
    BY <1>2
  <2>2. pos[k - 1] \in Nat
    BY <1>8, <2>1
  <2>3. seqs[k] = Piece(fields, k)
    BY <1>5
  <2>4. Len(seqs[k]) \in Nat
    BY <1>4
  <2>5. /\ pos[k] = pos[k - 1] + Len(seqs[k]) /\ pos[k] <= Len(body)
        /\ \A j \in 1 .. Len(seqs[k]) : body[pos[k - 1] + j] = seqs[k][j]
    BY <1>8
  <2>6. Holds(body, pos[k - 1], seqs[k])
    BY <2>5 DEF Holds
  <2>. QED BY <2>1, <2>2, <2>3, <2>4, <2>5, <2>6
<1> DEFINE Between(k) == \E values : /\ At(st[pos[k]], FALSE, <<>>, <<>>, values, 0)
                                     /\ AreOf(values, fields, k)
           G == {k \in 0 .. n - 1 : Between(k)}
<1>10. \A k \in 0 .. n - 1 : k \in G
  <2>1. 0 \in G
    <3>1. st[pos[0]] = Unparsed /\ Unparsed \in ParseState
      <4>1. 0 \in 0 .. Len(body)
        BY <1>8
      <4>. QED BY <1>6, <1>8, <4>1, ParsedLaw
    <3>2. At(st[pos[0]], FALSE, <<>>, <<>>, <<>>, 0)
      BY <3>1 DEF At, Unparsed
    <3>3. AreOf(<<>>, fields, 0)
      BY DEF AreOf
    <3>4. 0 \in 0 .. n - 1
      BY <1>2
    <3>. QED BY <3>2, <3>3, <3>4
  <2>2. ASSUME NEW k \in 1 .. n - 1, k - 1 \in G PROVE k \in G
    <3>1. k \in 1 .. n /\ k < n /\ k \in 0 .. n - 1
      BY <1>2
    <3>2. PICK values : At(st[pos[k - 1]], FALSE, <<>>, <<>>, values, 0) /\ AreOf(values, fields, k - 1)
      BY <2>2
    <3> DEFINE e == EncodeField(fields[k])
               amp == <<Ampersand>>
               q == pos[k - 1]
               name == fields[k][1]
               value == fields[k][2]
    <3>3. Piece(fields, k) = e \o amp
      BY <3>1 DEF Piece, n
    <3>4. e \in Seq(Byte) /\ amp \in Seq(Byte) /\ Len(amp) = 1 /\ amp[1] = Ampersand /\ q \in Nat
      <4>1. Ampersand \in Byte
        BY DEF Ampersand, Byte
      <4>2. e \in Seq(Byte)
        BY <1>2, <3>1, EncodeFieldTyped
      <4>. QED BY <1>9, <3>1, <4>1, <4>2
    <3>5. fields[k] \in Field /\ name \in Seq(Byte \ {0}) /\ value \in Seq(Byte \ {0})
      BY <1>2, <3>1 DEF Field
    <3>6. Holds(body, q, e) /\ Holds(body, q + Len(e), amp) /\ q + Len(e) \in Nat
      <4>1. Holds(body, q, e \o amp)
        BY <1>9, <3>1, <3>3
      <4> HIDE DEF e, amp, q
      <4>. QED BY <1>6, <3>4, <4>1, HoldsHalves
    <3>7. At(st[q + Len(e)], TRUE, name, value, values, 0)
      <4>1. Holds(body, q, EncodeField(fields[k])) /\ At(Parsed(body)[q], FALSE, <<>>, <<>>, values, 0)
        BY <3>2, <3>6
      <4> HIDE DEF q
      <4>. QED BY <1>6, <3>4, <3>5, <4>1, FieldCollected
    <3>8. At(st[(q + Len(e)) + 1], FALSE, <<>>, <<>>, With(values, name, value), 0)
      <4> DEFINE r == q + Len(e)
      <4>1. r \in Nat /\ r + 1 <= Len(body) /\ body[r + 1] = Ampersand
            /\ At(Parsed(body)[r], TRUE, name, value, values, 0)
        <5>1. 1 \in 1 .. Len(amp)
          BY <3>4
        <5>2. r + 1 <= Len(body) /\ body[r + 1] = Ampersand
          <6> HIDE DEF amp, e, q
          <6>. QED BY <3>4, <3>6, <5>1 DEF Holds
        <5>. QED BY <3>6, <3>7, <5>2
      <4> HIDE DEF r, name, value
      <4>2. At(Parsed(body)[r + 1], FALSE, <<>>, <<>>, With(values, name, value), 0)
        BY <1>6, <3>5, <4>1, ValueDelimited
      <4>. QED BY <4>2 DEF r
    <3>9. pos[k] = (q + Len(e)) + 1
      <4>1. pos[k] = q + Len(e \o amp)
        BY <1>9, <3>1, <3>3
      <4> HIDE DEF e, amp, q
      <4>2. Len(e \o amp) = Len(e) + Len(amp) /\ Len(e) \in Nat
        BY <3>4, ConcatLaw
      <4>. QED BY <3>4, <4>1, <4>2
    <3>10. AreOf(With(values, name, value), fields, k)
      <4>1. k \in 1 .. Len(fields)
        BY <3>1 DEF n
      <4>. QED BY <1>1, <3>2, <4>1, AreOfOneMore
    <3>. QED BY <3>1, <3>8, <3>9, <3>10
  <2>3. n - 1 \in Nat
    BY <1>2
  <2> HIDE DEF G
  <2>. QED BY <2>1, <2>2, <2>3, InductionUpTo
<1>11. n \in 1 .. n /\ n - 1 \in 0 .. n - 1
  BY <1>2
<1>12. PICK values : At(st[pos[n - 1]], FALSE, <<>>, <<>>, values, 0) /\ AreOf(values, fields, n - 1)
  BY <1>10, <1>11
<1> DEFINE name == fields[n][1]
           value == fields[n][2]
           q == pos[n - 1]
           last == st[Len(body)]
<1>13. fields[n] \in Field /\ name \in Seq(Byte \ {0}) /\ value \in Seq(Byte \ {0})
  BY <1>2, <1>11 DEF Field
<1>14. Piece(fields, n) = EncodeField(fields[n])
  BY <1>2 DEF Piece, n
<1>15. q \in Nat /\ Holds(body, q, EncodeField(fields[n])) /\ Len(body) = q + Len(EncodeField(fields[n]))
  BY <1>8, <1>9, <1>11, <1>14
<1>16. At(last, TRUE, name, value, values, 0) /\ Len(EncodeField(fields[n])) \in Nat \ {0}
  <2>1. At(Parsed(body)[q], FALSE, <<>>, <<>>, values, 0)
    BY <1>12
  <2> HIDE DEF q
  <2>2. /\ At(Parsed(body)[q + Len(EncodeField(fields[n]))], TRUE, name, value, values, 0)
        /\ Len(EncodeField(fields[n])) \in Nat \ {0}
    BY <1>6, <1>13, <1>15, <2>1, FieldCollected
  <2>. QED BY <1>15, <2>2
<1>17. Len(body) >= 1 /\ MaxPostBodyLen \in Nat
  BY <1>15, <1>16 DEF MaxPostBodyLen
<1>18. CASE Len(body) < MaxPostBodyLen
  <2>1. Len(body) \in 1 .. MaxPostBodyLen - 1
    BY <1>8, <1>17, <1>18
  <2>2. last \in ParseState /\ last.code = "ok"
    BY <1>16 DEF At
  <2> DEFINE top == IF last.stopped \/ HasValue(last) THEN Larger(last.top, last.offset) ELSE last.top
  <2>3. ParsePost(body) = [last EXCEPT !.postValues = AddValue(last), !.top = top]
    BY <2>1, <2>2 DEF ParsePost
  <2>4. AddValue(last) = With(values, name, value)
    <3> HIDE DEF last, name, value
    <3>. QED BY <1>13, <1>16, AddedAt
  <2> HIDE DEF top, last
  <2>5. ParsePost(body).code = "ok" /\ ParsePost(body).postValues = AddValue(last)
    BY <2>2, <2>3 DEF ParseState
  <2>6. AreOf(With(values, name, value), fields, n)
    <3>1. n \in 1 .. Len(fields)
      BY <1>11 DEF n
    <3>. QED BY <1>1, <1>12, <3>1, AreOfOneMore
  <2>. QED BY <1>18, <2>4, <2>5, <2>6 DEF body, n
<1>19. CASE ~(Len(body) < MaxPostBodyLen)
  <2>1. Len(body) \notin 1 .. MaxPostBodyLen - 1
    BY <1>8, <1>17, <1>19
  <2>2. ParsePost(body).code = "internal error"
    BY <2>1 DEF ParsePost, Unparsed
  <2>. QED BY <1>19, <2>2 DEF body
<1>. QED BY <1>18, <1>19

-----------------------------------------------------------------------------
(* The parameters of the post handlers.                                    *)

Words == {"index", "enabled", "clear", "All", "img", "Art", "x", "y", "color", "animation", "Step",
          "Phase", "Value", "msg", "font", "alternate", "Font", "confetti", "bounce", "no", "Scroll",
          "blink", "repeats", "timeout"}

\* Names of parameters are sequences of words.
LEMMA WordTuples ==
    \A a, b, c \in Words : <<a>> \in Seq(Words) /\ <<a, b>> \in Seq(Words) /\ <<a, b, c>> \in Seq(Words)
OBVIOUS

\* A name does not begin with a key that is longer or has another word.
LEMMA NotPrefix ==
    ASSUME NEW s \in Seq(Words), NEW t \in Seq(Words), s # <<>>, t # <<>>
    PROVE  /\ IsPrefix(s, s)
           /\ Len(s) > Len(t) => ~IsPrefix(s, t)
           /\ s[1] # t[1] => ~IsPrefix(s, t)
           /\ Len(s) > 1 /\ Len(t) > 1 /\ s[2] # t[2] => ~IsPrefix(s, t)
<1>1. Len(s) \in Nat /\ Len(t) \in Nat /\ Len(s) >= 1 /\ Len(t) >= 1
  OBVIOUS
<1>2. IsPrefix(s, s)
  BY <1>1 DEF IsPrefix
<1>3. Len(s) > Len(t) => ~IsPrefix(s, t)
  BY <1>1 DEF IsPrefix
<1>4. ASSUME IsPrefix(s, t) PROVE \A j \in 1 .. Len(s) : s[j] = t[j]
  <2>1. Len(s) <= Len(t) /\ SubSeq(s, 1, Len(s)) = SubSeq(t, 1, Len(s))
    BY <1>4 DEF IsPrefix
  <2>2. \A j \in 1 .. Len(s) : SubSeq(s, 1, Len(s))[j] = s[j] /\ SubSeq(t, 1, Len(s))[j] = t[j]
    BY <1>1, <2>1
  <2>. QED BY <2>1, <2>2
<1>5. 1 \in 1 .. Len(s) /\ (Len(s) > 1 => 2 \in 1 .. Len(s))
  BY <1>1
<1>. QED BY <1>2, <1>3, <1>4, <1>5

\* A handler finds the parameter whose name is the key, if no earlier one is
\* named by it.
LEMMA FirstNamed ==
    ASSUME NEW page, NEW key, NEW n \in Nat, DOMAIN Parameters(page) = 1 .. n, NEW k \in 1 .. n,
           Names(page, key, Parameters(page)[k]),
           \A j \in 1 .. n : j < k => ~Names(page, key, Parameters(page)[j])
    PROVE  Reached(page, key) = Parameters(page)[k]
<1> DEFINE named == {m \in DOMAIN Parameters(page) : Names(page, key, Parameters(page)[m])}
           first == CHOOSE m \in named : \A l \in named : m <= l
<1>1. k \in named /\ \A l \in named : k <= l
  OBVIOUS
<1>2. first \in named /\ \A l \in named : first <= l
  BY <1>1
<1>3. first = k
  BY <1>1, <1>2
<1>4. Reached(page, key) = IF named = {} THEN Ignored ELSE Parameters(page)[first]
  BY DEF Reached
<1>. QED BY <1>1, <1>3, <1>4

\* A parameter is reached under its own name, if it is the beginning of no name
\* that is compared before it.
LEMMA ParametersReached ==
    ASSUME NEW page, NEW n \in Nat, DOMAIN Parameters(page) = 1 .. n,
           \A k \in 1 .. n : Names(page, Parameters(page)[k], Parameters(page)[k]),
           \A k \in 1 .. n, j \in 1 .. n : j < k => ~Names(page, Parameters(page)[k], Parameters(page)[j])
    PROVE  \A k \in 1 .. n : Reached(page, Parameters(page)[k]) = Parameters(page)[k]
<1> SUFFICES ASSUME NEW k \in 1 .. n PROVE Reached(page, Parameters(page)[k]) = Parameters(page)[k]
  OBVIOUS
<1> DEFINE key == Parameters(page)[k]
<1>1. Names(page, key, Parameters(page)[k]) /\ \A j \in 1 .. n : j < k => ~Names(page, key, Parameters(page)[j])
  OBVIOUS
<1> HIDE DEF key
<1>2. Reached(page, key) = Parameters(page)[k]
  BY <1>1, FirstNamed
<1>. QED BY <1>2 DEF key


\* The fields of /imgBackground reach the parameters of their names.
LEMMA ImgBackgroundReached ==
    \A offer \in ImgBackgroundForm : Reached("/imgBackground", offer[1]) = offer[1]
<1> DEFINE p == Parameters("/imgBackground")
           page == "/imgBackground"
<1>1. p = ImgBackgroundParameters
  BY DEF Parameters
<1>2. /\ DOMAIN p = 1 .. 10 /\ p[1] = <<"index">> /\ p[2] = <<"enabled">> /\ p[3] = <<"clear", "All">>
      /\ p[4] = <<"img", "Art">> /\ p[5] = <<"x">> /\ p[6] = <<"y">> /\ p[7] = <<"color">>
      /\ p[8] = <<"animation", "Step">> /\ p[9] = <<"animation", "Phase">>
      /\ p[10] = <<"animation", "Phase", "Value">>
  <2> DEFINE T == Seq(Words)
             q == << <<"index">>, <<"enabled">>, <<"clear", "All">>, <<"img", "Art">>, <<"x">>, <<"y">>, <<"color">> >>
             r == AnimationParameters
  <2>1. p = q \o r
    BY <1>1 DEF ImgBackgroundParameters
  <2>2. /\ <<"index">> \in T /\ <<"enabled">> \in T /\ <<"clear", "All">> \in T
        /\ <<"img", "Art">> \in T /\ <<"x">> \in T /\ <<"y">> \in T /\ <<"color">> \in T
    BY WordTuples DEF Words
  <2>3. /\ <<"animation", "Step">> \in T /\ <<"animation", "Phase">> \in T
        /\ <<"animation", "Phase", "Value">> \in T
    BY WordTuples DEF Words
  <2> HIDE DEF T
  <2>4. q \in Seq(T) /\ r \in Seq(T)
    BY <2>2, <2>3 DEF AnimationParameters
  <2>5. Len(q) = 7 /\ Len(r) = 3
    BY DEF AnimationParameters
  <2>6. /\ q[1] = <<"index">> /\ q[2] = <<"enabled">> /\ q[3] = <<"clear", "All">>
        /\ q[4] = <<"img", "Art">> /\ q[5] = <<"x">> /\ q[6] = <<"y">> /\ q[7] = <<"color">>
    OBVIOUS
  <2>7. /\ r[1] = <<"animation", "Step">> /\ r[2] = <<"animation", "Phase">>
        /\ r[3] = <<"animation", "Phase", "Value">>
    BY DEF AnimationParameters
  <2> HIDE DEF q, r, p
  <2>8. /\ p \in Seq(T) /\ Len(p) = Len(q) + Len(r)
        /\ \A j \in 1 .. Len(q) : p[j] = q[j]
        /\ \A j \in 1 .. Len(r) : p[Len(q) + j] = r[j]
    BY <2>1, <2>4, ConcatLaw
  <2>9. DOMAIN p = 1 .. 10 /\ \A j \in 1 .. 7 : p[j] = q[j]
    <3>1. DOMAIN p = 1 .. Len(p)
      BY <2>8
    <3>. QED BY <2>5, <2>8, <3>1
  <2>10. \A j \in 1 .. 3 : p[7 + j] = r[j]
    BY <2>5, <2>8
  <2>11. p[8] = r[1] /\ p[9] = r[2] /\ p[10] = r[3]
    BY <2>10
  <2>12. p[1] = q[1] /\ p[2] = q[2] /\ p[3] = q[3] /\ p[4] = q[4] /\ p[5] = q[5] /\ p[6] = q[6] /\ p[7] = q[7]
    BY <2>9
  <2>. QED BY <2>6, <2>7, <2>9, <2>11, <2>12
<1> HIDE DEF p
<1>3. \A k \in 1 .. 10 : k = 1 \/ k = 2 \/ k = 3 \/ k = 4 \/ k = 5 \/ k = 6 \/ k = 7 \/ k = 8 \/ k = 9 \/ k = 10
  OBVIOUS
<1>a. /\ p[1][1] = "index" /\ p[2][1] = "enabled" /\ p[3][1] = "clear" /\ p[3][2] = "All"
      /\ p[4][1] = "img" /\ p[4][2] = "Art" /\ p[5][1] = "x" /\ p[6][1] = "y" /\ p[7][1] = "color"
      /\ p[8][1] = "animation" /\ p[8][2] = "Step" /\ p[9][1] = "animation" /\ p[9][2] = "Phase"
      /\ p[10][1] = "animation" /\ p[10][2] = "Phase"
  BY <1>2
<1>b. /\ Len(p[1]) = 1 /\ Len(p[2]) = 1 /\ Len(p[3]) = 2 /\ Len(p[4]) = 2 /\ Len(p[5]) = 1
      /\ Len(p[6]) = 1 /\ Len(p[7]) = 1 /\ Len(p[8]) = 2 /\ Len(p[9]) = 2 /\ Len(p[10]) = 3
  BY <1>2
<1>c. /\ p[1] \in Seq(Words) /\ p[2] \in Seq(Words) /\ p[3] \in Seq(Words) /\ p[4] \in Seq(Words)
      /\ p[5] \in Seq(Words) /\ p[6] \in Seq(Words) /\ p[7] \in Seq(Words) /\ p[8] \in Seq(Words)
      /\ p[9] \in Seq(Words) /\ p[10] \in Seq(Words)
  BY <1>2, WordTuples DEF Words
<1>4. \A k \in 1 .. 10 : p[k] \in Seq(Words) /\ p[k] # <<>>
  <2> DEFINE T == Seq(Words)
  <2>1. \A k \in 1 .. 10 : p[k] \in T
    <3>1. /\ p[1] \in T /\ p[2] \in T /\ p[3] \in T /\ p[4] \in T /\ p[5] \in T /\ p[6] \in T
          /\ p[7] \in T /\ p[8] \in T /\ p[9] \in T /\ p[10] \in T
      BY <1>c
    <3> HIDE DEF T
    <3>. QED BY <1>3, <3>1
  <2>2. ASSUME NEW k \in 1 .. 10 PROVE p[k] # <<>>
    <3>1. /\ p[1] # <<>> /\ p[2] # <<>> /\ p[3] # <<>> /\ p[4] # <<>> /\ p[5] # <<>> /\ p[6] # <<>>
          /\ p[7] # <<>> /\ p[8] # <<>> /\ p[9] # <<>> /\ p[10] # <<>>
      BY <1>2
    <3>. QED BY <1>3, <3>1
  <2>. QED BY <2>1, <2>2
<1>5. ASSUME NEW k \in 1 .. 10, NEW j \in 1 .. 10, j < k
      PROVE  \/ p[k][1] # p[j][1]
             \/ Len(p[k]) > 1 /\ Len(p[j]) > 1 /\ p[k][2] # p[j][2]
             \/ Len(p[k]) > Len(p[j])
  <2>1. CASE k = 1
    BY <1>a, <1>3, <1>5, <2>1
  <2>2. CASE k = 2
    BY <1>a, <1>3, <1>5, <2>2
  <2>3. CASE k = 3
    BY <1>a, <1>3, <1>5, <2>3
  <2>4. CASE k = 4
    BY <1>a, <1>3, <1>5, <2>4
  <2>5. CASE k = 5
    BY <1>a, <1>3, <1>5, <2>5
  <2>6. CASE k = 6
    BY <1>a, <1>3, <1>5, <2>6
  <2>7. CASE k = 7
    BY <1>a, <1>3, <1>5, <2>7
  <2>8. CASE k = 8
    BY SMTT(30), <1>a, <1>3, <1>5, <2>8
  <2>9. CASE k = 9
    <3>1. CASE j <= 7
      BY <1>a, <1>3, <1>5, <2>9, <3>1
    <3>2. CASE j = 8
      BY <1>a, <1>b, <2>9, <3>2
    <3>. QED BY <1>5, <2>9, <3>1, <3>2
  <2>10. CASE k = 10
    <3>1. CASE j <= 7
      BY <1>a, <1>3, <1>5, <2>10, <3>1
    <3>2. CASE j = 8
      BY <1>a, <1>b, <2>10, <3>2
    <3>3. CASE j = 9
      <4>1. Len(p[10]) = 3 /\ Len(p[9]) = 2
        BY <1>b
      <4>. QED BY <2>10, <3>3, <4>1
    <3>. QED BY <1>5, <2>10, <3>1, <3>2, <3>3
  <2>. QED BY <1>3, <2>1, <2>2, <2>3, <2>4, <2>5, <2>6, <2>7, <2>8, <2>9, <2>10
<1>6. \A offer \in ImgBackgroundForm : \E k \in 1 .. 10 : offer[1] = p[k]
  BY <1>2 DEF ImgBackgroundForm, FormColor, XYCoordinatesInput, AnimationStepInput
<1>7. \A k \in 1 .. 10 : Names(page, p[k], p[k])
  BY <1>4, NotPrefix DEF Names
<1>8. \A k \in 1 .. 10, j \in 1 .. 10 : j < k => ~Names(page, p[k], p[j])
  BY <1>4, <1>5, NotPrefix DEF Names
<1>9. \A k \in 1 .. 10 : Reached(page, p[k]) = p[k]
  BY <1>2, <1>7, <1>8, ParametersReached DEF p
<1>. QED BY <1>6, <1>9

\* Those of /msgBackground.
LEMMA MsgBackgroundReached ==
    \A offer \in MsgBackgroundForm : Reached("/msgBackground", offer[1]) = offer[1]
<1> DEFINE p == Parameters("/msgBackground")
           page == "/msgBackground"
<1>1. p = MsgBackgroundParameters
  BY DEF Parameters
<1>2. /\ DOMAIN p = 1 .. 11 /\ p[1] = <<"index">> /\ p[2] = <<"msg">> /\ p[3] = <<"enabled">>
      /\ p[4] = <<"clear", "All">> /\ p[5] = <<"font">> /\ p[6] = <<"x">> /\ p[7] = <<"y">>
      /\ p[8] = <<"color">> /\ p[9] = <<"animation", "Step">> /\ p[10] = <<"animation", "Phase">>
      /\ p[11] = <<"animation", "Phase", "Value">>
  <2> DEFINE T == Seq(Words)
             q == << <<"index">>, <<"msg">>, <<"enabled">>, <<"clear", "All">>, <<"font">>, <<"x">>, <<"y">>, <<"color">> >>
             r == AnimationParameters
  <2>1. p = q \o r
    BY <1>1 DEF MsgBackgroundParameters
  <2>2. /\ <<"index">> \in T /\ <<"msg">> \in T /\ <<"enabled">> \in T /\ <<"clear", "All">> \in T
        /\ <<"font">> \in T /\ <<"x">> \in T /\ <<"y">> \in T /\ <<"color">> \in T
    BY WordTuples DEF Words
  <2>3. /\ <<"animation", "Step">> \in T /\ <<"animation", "Phase">> \in T
        /\ <<"animation", "Phase", "Value">> \in T
    BY WordTuples DEF Words
  <2> HIDE DEF T
  <2>4. q \in Seq(T) /\ r \in Seq(T)
    BY <2>2, <2>3 DEF AnimationParameters
  <2>5. Len(q) = 8 /\ Len(r) = 3
    BY DEF AnimationParameters
  <2>6. /\ q[1] = <<"index">> /\ q[2] = <<"msg">> /\ q[3] = <<"enabled">> /\ q[4] = <<"clear", "All">>
        /\ q[5] = <<"font">> /\ q[6] = <<"x">> /\ q[7] = <<"y">> /\ q[8] = <<"color">>
    OBVIOUS
  <2>7. /\ r[1] = <<"animation", "Step">> /\ r[2] = <<"animation", "Phase">>
        /\ r[3] = <<"animation", "Phase", "Value">>
    BY DEF AnimationParameters
  <2> HIDE DEF q, r, p
  <2>8. /\ p \in Seq(T) /\ Len(p) = Len(q) + Len(r)
        /\ \A j \in 1 .. Len(q) : p[j] = q[j]
        /\ \A j \in 1 .. Len(r) : p[Len(q) + j] = r[j]
    BY <2>1, <2>4, ConcatLaw
  <2>9. DOMAIN p = 1 .. 11 /\ \A j \in 1 .. 8 : p[j] = q[j]
    <3>1. DOMAIN p = 1 .. Len(p)
      BY <2>8
    <3>. QED BY <2>5, <2>8, <3>1
  <2>10. \A j \in 1 .. 3 : p[8 + j] = r[j]
    BY <2>5, <2>8
  <2>11. p[9] = r[1] /\ p[10] = r[2] /\ p[11] = r[3]
    BY <2>10
  <2>12. p[1] = q[1] /\ p[2] = q[2] /\ p[3] = q[3] /\ p[4] = q[4] /\ p[5] = q[5] /\ p[6] = q[6] /\ p[7] = q[7] /\ p[8] = q[8]
    BY <2>9
  <2>. QED BY <2>6, <2>7, <2>9, <2>11, <2>12
<1> HIDE DEF p
<1>3. \A k \in 1 .. 11 : k = 1 \/ k = 2 \/ k = 3 \/ k = 4 \/ k = 5 \/ k = 6 \/ k = 7 \/ k = 8 \/ k = 9 \/ k = 10 \/ k = 11
  OBVIOUS
<1>a. /\ p[1][1] = "index" /\ p[2][1] = "msg" /\ p[3][1] = "enabled" /\ p[4][1] = "clear"
      /\ p[4][2] = "All" /\ p[5][1] = "font" /\ p[6][1] = "x" /\ p[7][1] = "y" /\ p[8][1] = "color"
      /\ p[9][1] = "animation" /\ p[9][2] = "Step" /\ p[10][1] = "animation" /\ p[10][2] = "Phase"
      /\ p[11][1] = "animation" /\ p[11][2] = "Phase"
  BY <1>2
<1>b. /\ Len(p[1]) = 1 /\ Len(p[2]) = 1 /\ Len(p[3]) = 1 /\ Len(p[4]) = 2 /\ Len(p[5]) = 1
      /\ Len(p[6]) = 1 /\ Len(p[7]) = 1 /\ Len(p[8]) = 1 /\ Len(p[9]) = 2 /\ Len(p[10]) = 2
      /\ Len(p[11]) = 3
  BY <1>2
<1>c. /\ p[1] \in Seq(Words) /\ p[2] \in Seq(Words) /\ p[3] \in Seq(Words) /\ p[4] \in Seq(Words)
      /\ p[5] \in Seq(Words) /\ p[6] \in Seq(Words) /\ p[7] \in Seq(Words) /\ p[8] \in Seq(Words)
      /\ p[9] \in Seq(Words) /\ p[10] \in Seq(Words) /\ p[11] \in Seq(Words)
  BY <1>2, WordTuples DEF Words
<1>4. \A k \in 1 .. 11 : p[k] \in Seq(Words) /\ p[k] # <<>>
  <2> DEFINE T == Seq(Words)
  <2>1. \A k \in 1 .. 11 : p[k] \in T
    <3>1. /\ p[1] \in T /\ p[2] \in T /\ p[3] \in T /\ p[4] \in T /\ p[5] \in T /\ p[6] \in T
          /\ p[7] \in T /\ p[8] \in T /\ p[9] \in T /\ p[10] \in T /\ p[11] \in T
      BY <1>c
    <3> HIDE DEF T
    <3>. QED BY <1>3, <3>1
  <2>2. ASSUME NEW k \in 1 .. 11 PROVE p[k] # <<>>
    <3>1. /\ p[1] # <<>> /\ p[2] # <<>> /\ p[3] # <<>> /\ p[4] # <<>> /\ p[5] # <<>> /\ p[6] # <<>>
          /\ p[7] # <<>> /\ p[8] # <<>> /\ p[9] # <<>> /\ p[10] # <<>> /\ p[11] # <<>>
      BY <1>2
    <3>. QED BY <1>3, <3>1
  <2>. QED BY <2>1, <2>2
<1>5. ASSUME NEW k \in 1 .. 11, NEW j \in 1 .. 11, j < k
      PROVE  \/ p[k][1] # p[j][1]
             \/ Len(p[k]) > 1 /\ Len(p[j]) > 1 /\ p[k][2] # p[j][2]
             \/ Len(p[k]) > Len(p[j])
  <2>1. CASE k = 1
    BY <1>a, <1>3, <1>5, <2>1
  <2>2. CASE k = 2
    BY <1>a, <1>3, <1>5, <2>2
  <2>3. CASE k = 3
    BY <1>a, <1>3, <1>5, <2>3
  <2>4. CASE k = 4
    BY SMTT(30), <1>a, <1>3, <1>5, <2>4
  <2>5. CASE k = 5
    BY <1>a, <1>3, <1>5, <2>5
  <2>6. CASE k = 6
    BY <1>a, <1>3, <1>5, <2>6
  <2>7. CASE k = 7
    BY <1>a, <1>3, <1>5, <2>7
  <2>8. CASE k = 8
    BY <1>a, <1>3, <1>5, <2>8
  <2>9. CASE k = 9
    BY SMTT(30), <1>a, <1>3, <1>5, <2>9
  <2>10. CASE k = 10
    <3>1. CASE j <= 8
      BY <1>a, <1>3, <1>5, <2>10, <3>1
    <3>2. CASE j = 9
      BY <1>a, <1>b, <2>10, <3>2
    <3>. QED BY <1>5, <2>10, <3>1, <3>2
  <2>11. CASE k = 11
    <3>1. CASE j <= 8
      BY SMTT(30), <1>a, <1>3, <1>5, <2>11, <3>1
    <3>2. CASE j = 9
      BY <1>a, <1>b, <2>11, <3>2
    <3>3. CASE j = 10
      <4>1. Len(p[11]) = 3 /\ Len(p[10]) = 2
        BY <1>b
      <4>. QED BY <2>11, <3>3, <4>1
    <3>. QED BY <1>5, <2>11, <3>1, <3>2, <3>3
  <2>. QED BY <1>3, <2>1, <2>2, <2>3, <2>4, <2>5, <2>6, <2>7, <2>8, <2>9, <2>10, <2>11
<1>6. \A offer \in MsgBackgroundForm : \E k \in 1 .. 11 : offer[1] = p[k]
  BY <1>2 DEF MsgBackgroundForm, FormFont, FormColor, XYCoordinatesInput, AnimationStepInput
<1>7. \A k \in 1 .. 11 : Names(page, p[k], p[k])
  BY <1>4, NotPrefix DEF Names
<1>8. \A k \in 1 .. 11, j \in 1 .. 11 : j < k => ~Names(page, p[k], p[j])
  BY <1>4, <1>5, NotPrefix DEF Names
<1>9. \A k \in 1 .. 11 : Reached(page, p[k]) = p[k]
  BY <1>2, <1>7, <1>8, ParametersReached DEF p
<1>. QED BY <1>6, <1>9

\* Those of /msgMode.
LEMMA MsgModeReached ==
    \A offer \in MsgModeForm : Reached("/msgMode", offer[1]) = offer[1]
<1> DEFINE p == Parameters("/msgMode")
           page == "/msgMode"
<1>1. p = MsgModeParameters
  BY DEF Parameters
<1>2. /\ DOMAIN p = 1 .. 12 /\ p[1] = <<"msg">> /\ p[2] = <<"x">> /\ p[3] = <<"y">>
      /\ p[4] = <<"font">> /\ p[5] = <<"alternate", "Font">> /\ p[6] = <<"confetti">>
      /\ p[7] = <<"bounce">> /\ p[8] = <<"no", "Scroll">> /\ p[9] = <<"blink">> /\ p[10] = <<"color">>
      /\ p[11] = <<"repeats">> /\ p[12] = <<"timeout">>
  BY <1>1 DEF MsgModeParameters
<1> HIDE DEF p
<1>3. \A k \in 1 .. 12 : k = 1 \/ k = 2 \/ k = 3 \/ k = 4 \/ k = 5 \/ k = 6 \/ k = 7 \/ k = 8 \/ k = 9 \/ k = 10 \/ k = 11 \/ k = 12
  OBVIOUS
<1>a. /\ p[1][1] = "msg" /\ p[2][1] = "x" /\ p[3][1] = "y" /\ p[4][1] = "font" /\ p[5][1] = "alternate"
      /\ p[5][2] = "Font" /\ p[6][1] = "confetti" /\ p[7][1] = "bounce" /\ p[8][1] = "no"
      /\ p[8][2] = "Scroll" /\ p[9][1] = "blink" /\ p[10][1] = "color" /\ p[11][1] = "repeats"
      /\ p[12][1] = "timeout"
  BY <1>2
<1>b. /\ Len(p[1]) = 1 /\ Len(p[2]) = 1 /\ Len(p[3]) = 1 /\ Len(p[4]) = 1 /\ Len(p[5]) = 2
      /\ Len(p[6]) = 1 /\ Len(p[7]) = 1 /\ Len(p[8]) = 2 /\ Len(p[9]) = 1 /\ Len(p[10]) = 1
      /\ Len(p[11]) = 1 /\ Len(p[12]) = 1
  BY <1>2
<1>c. /\ p[1] \in Seq(Words) /\ p[2] \in Seq(Words) /\ p[3] \in Seq(Words) /\ p[4] \in Seq(Words)
      /\ p[5] \in Seq(Words) /\ p[6] \in Seq(Words) /\ p[7] \in Seq(Words) /\ p[8] \in Seq(Words)
      /\ p[9] \in Seq(Words) /\ p[10] \in Seq(Words) /\ p[11] \in Seq(Words) /\ p[12] \in Seq(Words)
  BY <1>2, WordTuples DEF Words
<1>4. \A k \in 1 .. 12 : p[k] \in Seq(Words) /\ p[k] # <<>>
  <2> DEFINE T == Seq(Words)
  <2>1. \A k \in 1 .. 12 : p[k] \in T
    <3>1. /\ p[1] \in T /\ p[2] \in T /\ p[3] \in T /\ p[4] \in T /\ p[5] \in T /\ p[6] \in T
          /\ p[7] \in T /\ p[8] \in T /\ p[9] \in T /\ p[10] \in T /\ p[11] \in T /\ p[12] \in T
      BY <1>c
    <3> HIDE DEF T
    <3>. QED BY <1>3, <3>1
  <2>2. ASSUME NEW k \in 1 .. 12 PROVE p[k] # <<>>
    <3>1. /\ p[1] # <<>> /\ p[2] # <<>> /\ p[3] # <<>> /\ p[4] # <<>> /\ p[5] # <<>> /\ p[6] # <<>>
          /\ p[7] # <<>> /\ p[8] # <<>> /\ p[9] # <<>> /\ p[10] # <<>> /\ p[11] # <<>> /\ p[12] # <<>>
      BY <1>2
    <3>. QED BY <1>3, <3>1
  <2>. QED BY <2>1, <2>2
<1>5. ASSUME NEW k \in 1 .. 12, NEW j \in 1 .. 12, j < k
      PROVE  \/ p[k][1] # p[j][1]
             \/ Len(p[k]) > 1 /\ Len(p[j]) > 1 /\ p[k][2] # p[j][2]
             \/ Len(p[k]) > Len(p[j])
  <2>1. CASE k = 1
    BY <1>a, <1>3, <1>5, <2>1
  <2>2. CASE k = 2
    BY <1>a, <1>3, <1>5, <2>2
  <2>3. CASE k = 3
    BY <1>a, <1>3, <1>5, <2>3
  <2>4. CASE k = 4
    BY <1>a, <1>3, <1>5, <2>4
  <2>5. CASE k = 5
    BY SMTT(30), <1>a, <1>3, <1>5, <2>5
  <2>6. CASE k = 6
    BY <1>a, <1>3, <1>5, <2>6
  <2>7. CASE k = 7
    BY <1>a, <1>3, <1>5, <2>7
  <2>8. CASE k = 8
    BY SMTT(30), <1>a, <1>3, <1>5, <2>8
  <2>9. CASE k = 9
    BY <1>a, <1>3, <1>5, <2>9
  <2>10. CASE k = 10
    BY <1>a, <1>3, <1>5, <2>10
  <2>11. CASE k = 11
    BY <1>a, <1>3, <1>5, <2>11
  <2>12. CASE k = 12
    BY SMTT(30), <1>a, <1>3, <1>5, <2>12
  <2>. QED BY <1>3, <2>1, <2>2, <2>3, <2>4, <2>5, <2>6, <2>7, <2>8, <2>9, <2>10, <2>11, <2>12
<1>6. \A offer \in MsgModeForm : \E k \in 1 .. 12 : offer[1] = p[k]
  BY <1>2 DEF MsgModeForm, FormFont, FormColor, XYCoordinatesInput
<1>7. \A k \in 1 .. 12 : Names(page, p[k], p[k])
  BY <1>4, NotPrefix DEF Names
<1>8. \A k \in 1 .. 12, j \in 1 .. 12 : j < k => ~Names(page, p[k], p[j])
  BY <1>4, <1>5, NotPrefix DEF Names
<1>9. \A k \in 1 .. 12 : Reached(page, p[k]) = p[k]
  BY <1>2, <1>7, <1>8, ParametersReached DEF p
<1>. QED BY <1>6, <1>9

\* Those of /ledStrip, of which one is ignored.
LEMMA LedStripReached ==
    \A offer \in LedStripForm : Reached("/ledStrip", offer[1]) = IF offer[1] = <<"raw", "Format">> THEN Ignored ELSE offer[1]
<1> DEFINE p == Parameters("/ledStrip")
           page == "/ledStrip"
<1>1. p = LedStripParameters
  BY DEF Parameters
<1>2. /\ DOMAIN p = 1 .. 9 /\ p[1] = <<"led", "Strip", "Mode">> /\ p[2] = <<"clear", "Pixels">>
      /\ p[3] = <<"timeout">> /\ p[4] = <<"extra", "Param">> /\ p[5] = <<"red">> /\ p[6] = <<"green">>
      /\ p[7] = <<"blue">> /\ p[8] = <<"from">> /\ p[9] = <<"to">>
  BY <1>1 DEF LedStripParameters
<1>a. /\ p[1][1] = "led" /\ p[2][1] = "clear" /\ p[3][1] = "timeout" /\ p[4][1] = "extra"
      /\ p[5][1] = "red" /\ p[6][1] = "green" /\ p[7][1] = "blue" /\ p[8][1] = "from" /\ p[9][1] = "to"
  BY <1>2
<1> HIDE DEF p
<1>3. \A k \in 1 .. 9 : k = 1 \/ k = 2 \/ k = 3 \/ k = 4 \/ k = 5 \/ k = 6 \/ k = 7 \/ k = 8 \/ k = 9
  OBVIOUS
<1>4. ASSUME NEW k \in 1 .. 9, NEW j \in 1 .. 9, j < k PROVE p[k] # p[j]
  <2>1. p[k][1] # p[j][1]
    <3>1. CASE k = 1
      BY <1>a, <1>3, <1>4, <3>1
    <3>2. CASE k = 2
      BY <1>a, <1>3, <1>4, <3>2
    <3>3. CASE k = 3
      BY <1>a, <1>3, <1>4, <3>3
    <3>4. CASE k = 4
      BY <1>a, <1>3, <1>4, <3>4
    <3>5. CASE k = 5
      BY <1>a, <1>3, <1>4, <3>5
    <3>6. CASE k = 6
      BY <1>a, <1>3, <1>4, <3>6
    <3>7. CASE k = 7
      BY <1>a, <1>3, <1>4, <3>7
    <3>8. CASE k = 8
      BY <1>a, <1>3, <1>4, <3>8
    <3>9. CASE k = 9
      BY <1>a, <1>3, <1>4, <3>9
    <3>. QED BY <1>3, <3>1, <3>2, <3>3, <3>4, <3>5, <3>6, <3>7, <3>8, <3>9
  <2>. QED BY <2>1
<1>5. \A offer \in LedStripForm : offer[1] = <<"raw", "Format">> \/ \E k \in 1 .. 9 : offer[1] = p[k]
  BY <1>2 DEF LedStripForm
<1>6. \A k \in 1 .. 9 : Names(page, p[k], p[k])
  BY DEF Names
<1>7. \A k \in 1 .. 9, j \in 1 .. 9 : j < k => ~Names(page, p[k], p[j])
  BY <1>4 DEF Names
<1>8. \A k \in 1 .. 9 : Reached(page, p[k]) = p[k]
  BY <1>2, <1>6, <1>7, ParametersReached DEF p
<1>9. \A k \in 1 .. 9 : p[k] # <<"raw", "Format">>
  <2>1. \A k \in 1 .. 9 : p[k][1] # "raw"
    BY <1>3, <1>a
  <2>. QED BY <2>1
<1>10. Reached(page, <<"raw", "Format">>) = Ignored
  BY <1>2, <1>9 DEF Reached, Names, p
<1>. QED BY <1>5, <1>8, <1>9, <1>10

\* Those of /dictionary.
LEMMA DictionaryReached ==
    \A offer \in DictionaryForm : Reached("/dictionary", offer[1]) = offer[1]
<1> DEFINE p == Parameters("/dictionary")
           page == "/dictionary"
<1>1. p = DictionaryParameters
  BY DEF Parameters
<1>2. /\ DOMAIN p = 1 .. 4 /\ p[1] = <<"dictionary", "Timeout">>
      /\ p[2] = <<"dictionary", "Operation">> /\ p[3] = <<"dictionary", "Key">>
      /\ p[4] = <<"dictionary", "Data">>
  BY <1>1 DEF DictionaryParameters
<1>a. /\ p[1][2] = "Timeout" /\ p[2][2] = "Operation" /\ p[3][2] = "Key" /\ p[4][2] = "Data"
  BY <1>2
<1> HIDE DEF p
<1>3. \A k \in 1 .. 4 : k = 1 \/ k = 2 \/ k = 3 \/ k = 4
  OBVIOUS
<1>4. ASSUME NEW k \in 1 .. 4, NEW j \in 1 .. 4, j < k PROVE p[k] # p[j]
  <2>1. p[k][2] # p[j][2]
    <3>1. CASE k = 1
      BY <1>a, <1>3, <1>4, <3>1
    <3>2. CASE k = 2
      BY <1>a, <1>3, <1>4, <3>2
    <3>3. CASE k = 3
      BY <1>a, <1>3, <1>4, <3>3
    <3>4. CASE k = 4
      BY <1>a, <1>3, <1>4, <3>4
    <3>. QED BY <1>3, <3>1, <3>2, <3>3, <3>4
  <2>. QED BY <2>1
<1>5. \A offer \in DictionaryForm : \E k \in 1 .. 4 : offer[1] = p[k]
  BY <1>2 DEF DictionaryForm
<1>6. \A k \in 1 .. 4 : Names(page, p[k], p[k])
  BY DEF Names
<1>7. \A k \in 1 .. 4, j \in 1 .. 4 : j < k => ~Names(page, p[k], p[j])
  BY <1>4 DEF Names
<1>8. \A k \in 1 .. 4 : Reached(page, p[k]) = p[k]
  BY <1>2, <1>6, <1>7, ParametersReached DEF p
<1>. QED BY <1>5, <1>8

\* What is kept of a value that a page offers: of the four parameters whose
\* numbers are bounded, and of the others.
LEMMA KeptIsChosen ==
    /\ \A v \in 0 .. 99 : Kept(<<"index">>, v) = v
    /\ \A v \in 0 .. 44 : Kept(<<"img", "Art">>, v) = v
    /\ Kept(<<"img", "Art">>, -1) = 0
    /\ \A v \in 0 .. 255 : /\ Kept(<<"animation", "Phase">>, v) = v
                           /\ Kept(<<"animation", "Phase", "Value">>, v) = v
<1>1. /\ <<"index">> # <<"img", "Art">> /\ <<"index">> # <<"animation", "Phase">>
      /\ <<"index">> # <<"animation", "Phase", "Value">> /\ <<"img", "Art">> # <<"animation", "Phase">>
      /\ <<"img", "Art">> # <<"animation", "Phase", "Value">>
  OBVIOUS
<1>2. \A v \in 0 .. 99 : Kept(<<"index">>, v) = v
  BY <1>1 DEF Kept, BackgroundCount
<1>3. \A v \in 0 .. 44 : Kept(<<"img", "Art">>, v) = v
  BY <1>1 DEF Kept, ImgArtLast
<1>4. Kept(<<"img", "Art">>, -1) = 0
  BY <1>1 DEF Kept, ImgArtLast
<1>5. \A v \in 0 .. 255 : v % 256 = v
  OBVIOUS
<1>6. \A v \in 0 .. 255 : /\ Kept(<<"animation", "Phase">>, v) = v % 256
                          /\ Kept(<<"animation", "Phase", "Value">>, v) = v % 256
  BY <1>1 DEF Kept
<1>. QED BY <1>2, <1>3, <1>4, <1>5, <1>6

\* Only an index, an image and a phase may be changed.
LEMMA OthersAreKept ==
    ASSUME NEW field, NEW v, field # <<"index">>, field # <<"img", "Art">>,
           field # <<"animation", "Phase">>, field # <<"animation", "Phase", "Value">>
    PROVE  Kept(field, v) = v
BY DEF Kept

KeepsWhatIsOffered(offers) ==
    \A offer \in offers : \A v \in offer[2] :
        Kept(offer[1], v) = IF offer[1] = <<"img", "Art">> /\ v = -1 THEN 0 ELSE v

\* The numbers that are offered for these are not.
LEMMA OffersAreKept ==
    ASSUME NEW field, NEW offered
    PROVE  /\ field = <<"index">> /\ offered = {0, BackgroundCount - 1} => KeepsWhatIsOffered({<<field, offered>>})
           /\ field = <<"img", "Art">> /\ offered = -1 .. ImgArtLast - 1 => KeepsWhatIsOffered({<<field, offered>>})
           /\ field \in {<<"animation", "Phase">>, <<"animation", "Phase", "Value">>}
                  /\ offered \subseteq 0 .. 255 => KeepsWhatIsOffered({<<field, offered>>})
           /\ field \notin {<<"index">>, <<"img", "Art">>, <<"animation", "Phase">>,
                            <<"animation", "Phase", "Value">>} => KeepsWhatIsOffered({<<field, offered>>})
<1>0. /\ <<"index">> # <<"img", "Art">> /\ <<"img", "Art">> # <<"animation", "Phase">>
      /\ <<"img", "Art">> # <<"animation", "Phase", "Value">>
  OBVIOUS
<1> DEFINE K == \A v \in offered : Kept(field, v) = IF field = <<"img", "Art">> /\ v = -1 THEN 0 ELSE v
<1>1. K => KeepsWhatIsOffered({<<field, offered>>})
  BY DEF KeepsWhatIsOffered
<1>2. ASSUME field = <<"index">>, offered = {0, BackgroundCount - 1} PROVE K
  BY <1>0, <1>2, KeptIsChosen DEF BackgroundCount
<1>3. ASSUME field = <<"img", "Art">>, offered = -1 .. ImgArtLast - 1 PROVE K
  BY <1>3, KeptIsChosen DEF ImgArtLast
<1>4. ASSUME field \in {<<"animation", "Phase">>, <<"animation", "Phase", "Value">>}, offered \subseteq 0 .. 255 PROVE K
  BY <1>0, <1>4, KeptIsChosen
<1>5. ASSUME field \notin {<<"index">>, <<"img", "Art">>, <<"animation", "Phase">>,
                            <<"animation", "Phase", "Value">>} PROVE K
  BY <1>5, OthersAreKept
<1>. QED BY <1>1, <1>2, <1>3, <1>4, <1>5

\* On no page is a number offered that is not kept as it is.
LEMMA PagesKeepWhatTheyOffer ==
    /\ KeepsWhatIsOffered(ImgBackgroundForm) /\ KeepsWhatIsOffered(MsgBackgroundForm)
    /\ KeepsWhatIsOffered(MsgModeForm) /\ KeepsWhatIsOffered(LedStripForm)
    /\ KeepsWhatIsOffered(DictionaryForm)
<1> DEFINE Special == {<<"index">>, <<"img", "Art">>, <<"animation", "Phase">>,
                       <<"animation", "Phase", "Value">>}
<1>1. \A f1, f2 : KeepsWhatIsOffered(f1) /\ KeepsWhatIsOffered(f2) => KeepsWhatIsOffered(f1 \cup f2)
  BY DEF KeepsWhatIsOffered
<1>2. \A f : (\A offer \in f : offer[1] \notin Special) => KeepsWhatIsOffered(f)
  BY OthersAreKept DEF KeepsWhatIsOffered
<1>3. KeepsWhatIsOffered(FormFont) /\ KeepsWhatIsOffered(FormColor(TRUE))
        /\ KeepsWhatIsOffered(FormColor(FALSE)) /\ KeepsWhatIsOffered(XYCoordinatesInput)
  BY <1>2 DEF FormFont, FormColor, XYCoordinatesInput
<1>4. KeepsWhatIsOffered(LedStripForm)
  BY <1>2 DEF LedStripForm
<1>5. KeepsWhatIsOffered(DictionaryForm)
  BY <1>2 DEF DictionaryForm
<1>6. KeepsWhatIsOffered(AnimationStepInput)
  <2> DEFINE A == << <<"animation", "Step">>, {0, 1, 3, 4, 5, 6} >>
             B == << <<"animation", "Phase">>, {0, 255} >>
             C == << <<"animation", "Phase", "Value">>, {0, 254} >>
  <2>1. KeepsWhatIsOffered({A})
    BY <1>2
  <2>2. KeepsWhatIsOffered({B}) /\ KeepsWhatIsOffered({C})
    <3> DEFINE b == {0, 255}
               c == {0, 254}
    <3>1. b \subseteq 0 .. 255 /\ c \subseteq 0 .. 255
      OBVIOUS
    <3> HIDE DEF b, c
    <3>2. /\ KeepsWhatIsOffered({<< <<"animation", "Phase">>, b >>})
          /\ KeepsWhatIsOffered({<< <<"animation", "Phase", "Value">>, c >>})
      BY <3>1, OffersAreKept
    <3>. QED BY <3>2 DEF b, c
  <2>3. AnimationStepInput = {A} \cup ({B} \cup {C})
    BY DEF AnimationStepInput
  <2> HIDE DEF A, B, C
  <2>. QED BY <1>1, <2>1, <2>2, <2>3
<1>7. KeepsWhatIsOffered({<< <<"index">>, {0, BackgroundCount - 1} >>})
  BY OffersAreKept
<1>8. KeepsWhatIsOffered(ImgBackgroundForm)
  <2> DEFINE A == << <<"index">>, {0, BackgroundCount - 1} >>
             B == << <<"img", "Art">>, -1 .. ImgArtLast - 1 >>
             C == {<< <<"enabled">>, Yes >>, << <<"clear", "All">>, Yes >>}
  <2>1. KeepsWhatIsOffered({A}) /\ KeepsWhatIsOffered({B})
    BY OffersAreKept
  <2>2. KeepsWhatIsOffered(C)
    BY <1>2
  <2>3. ImgBackgroundForm = {A} \cup ({B} \cup (C \cup (FormColor(FALSE) \cup (XYCoordinatesInput \cup AnimationStepInput))))
    <3>1. {A, B, << <<"enabled">>, Yes >>, << <<"clear", "All">>, Yes >>} = {A} \cup ({B} \cup C)
      OBVIOUS
    <3>2. ImgBackgroundForm = ({A} \cup ({B} \cup C)) \cup FormColor(FALSE) \cup XYCoordinatesInput \cup AnimationStepInput
      BY <3>1 DEF ImgBackgroundForm
    <3> HIDE DEF A, B, C
    <3>. QED BY <3>2
  <2> HIDE DEF A, B, C
  <2>. QED BY <1>1, <1>3, <1>6, <2>1, <2>2, <2>3
<1>9. KeepsWhatIsOffered(MsgBackgroundForm)
  <2> DEFINE A == << <<"index">>, {0, BackgroundCount - 1} >>
             C == {<< <<"msg">>, Text >>, << <<"enabled">>, Yes >>, << <<"clear", "All">>, Yes >>}
  <2>1. KeepsWhatIsOffered(C)
    BY <1>2
  <2>2. MsgBackgroundForm = {A} \cup (C \cup (FormFont \cup (FormColor(FALSE) \cup (XYCoordinatesInput \cup AnimationStepInput))))
    <3>1. {A, << <<"msg">>, Text >>, << <<"enabled">>, Yes >>, << <<"clear", "All">>, Yes >>} = {A} \cup C
      OBVIOUS
    <3>2. MsgBackgroundForm = ({A} \cup C) \cup FormFont \cup FormColor(FALSE) \cup XYCoordinatesInput \cup AnimationStepInput
      BY <3>1 DEF MsgBackgroundForm
    <3> HIDE DEF A, C
    <3>. QED BY <3>2
  <2>3. KeepsWhatIsOffered({A})
    BY <1>7
  <2> HIDE DEF A, C
  <2>. QED BY <1>1, <1>3, <1>6, <2>1, <2>2, <2>3
<1>10. KeepsWhatIsOffered(MsgModeForm)
  BY <1>2 DEF MsgModeForm, FormFont, FormColor, XYCoordinatesInput
<1>. QED BY <1>4, <1>5, <1>8, <1>9, <1>10

\* No page offers a field or a number that its handler does not take as it is.
THEOREM FormsAreUnderstoodEverywhere == FormsAreUnderstood
<1> SUFFICES ASSUME NEW page \in Page, NEW offer \in Form(page)
             PROVE  /\ Reached(page, offer[1]) = IF offer[1] = <<"raw", "Format">> THEN Ignored ELSE offer[1]
                    /\ \A v \in offer[2] :
                          Kept(offer[1], v) = IF offer[1] = <<"img", "Art">> /\ v = -1 THEN 0 ELSE v
  BY DEF FormsAreUnderstood
<1>0. \A f \in {ImgBackgroundForm, MsgBackgroundForm, MsgModeForm, DictionaryForm} :
          \A o \in f : o[1] # <<"raw", "Format">>
  <2>1. \A o \in ImgBackgroundForm : o[1] # <<"raw", "Format">>
    BY DEF ImgBackgroundForm, FormColor, XYCoordinatesInput, AnimationStepInput
  <2>2. \A o \in MsgBackgroundForm : o[1] # <<"raw", "Format">>
    BY DEF MsgBackgroundForm, FormFont, FormColor, XYCoordinatesInput, AnimationStepInput
  <2>3. \A o \in MsgModeForm : o[1] # <<"raw", "Format">>
    BY DEF MsgModeForm, FormFont, FormColor, XYCoordinatesInput
  <2>4. \A o \in DictionaryForm : o[1] # <<"raw", "Format">>
    BY DEF DictionaryForm
  <2>. QED BY <2>1, <2>2, <2>3, <2>4
<1>1. CASE page = "/imgBackground"
  <2>1. offer \in ImgBackgroundForm
    BY <1>1 DEF Form
  <2>. QED BY <1>0, <1>1, <2>1, ImgBackgroundReached, PagesKeepWhatTheyOffer DEF KeepsWhatIsOffered
<1>2. CASE page = "/msgBackground"
  <2>1. offer \in MsgBackgroundForm
    BY <1>2 DEF Form
  <2>. QED BY <1>0, <1>2, <2>1, MsgBackgroundReached, PagesKeepWhatTheyOffer DEF KeepsWhatIsOffered
<1>3. CASE page = "/msgMode"
  <2>1. offer \in MsgModeForm
    BY <1>3 DEF Form
  <2>. QED BY <1>0, <1>3, <2>1, MsgModeReached, PagesKeepWhatTheyOffer DEF KeepsWhatIsOffered
<1>4. CASE page = "/ledStrip"
  <2>1. offer \in LedStripForm
    BY <1>4 DEF Form
  <2>. QED BY <1>4, <2>1, LedStripReached, PagesKeepWhatTheyOffer DEF KeepsWhatIsOffered
<1>5. CASE page = "/dictionary"
  <2>1. offer \in DictionaryForm
    BY <1>5 DEF Form
  <2>. QED BY <1>0, <1>5, <2>1, DictionaryReached, PagesKeepWhatTheyOffer DEF KeepsWhatIsOffered
<1>. QED BY <1>1, <1>2, <1>3, <1>4, <1>5 DEF Page

-----------------------------------------------------------------------------
(* The files of the kernel.                                                *)

\* The first line with the name and a number is found, if there is one.
LEMMA FirstOfLaw ==
    ASSUME NEW lines \in Seq(STRING \X (Nat \cup {Refused})), NEW name
    PROVE  IF \E n \in DOMAIN lines : lines[n][1] = name /\ lines[n][2] # Refused
           THEN /\ FirstOf(name, lines) # Refused
                /\ \E n \in DOMAIN lines : lines[n] = <<name, FirstOf(name, lines)>>
           ELSE FirstOf(name, lines) = Refused
<1> DEFINE found == {n \in DOMAIN lines : lines[n][1] = name /\ lines[n][2] # Refused}
           first == CHOOSE n \in found : \A m \in found : n <= m
<1>1. FirstOf(name, lines) = IF found = {} THEN Refused ELSE lines[first][2]
  BY DEF FirstOf
<1>2. CASE found = {}
  BY <1>1, <1>2
<1>3. CASE found # {}
  <2>1. found \in SUBSET Nat
    OBVIOUS
  <2>2. \E n \in found : \A m \in found : n <= m
    <3> HIDE DEF found
    <3>. QED BY <1>3, <2>1, LeastNatural
  <2>3. first \in found
    <3> HIDE DEF found
    <3>. QED BY <2>2
  <2> HIDE DEF first
  <2>4. first \in DOMAIN lines /\ lines[first][1] = name /\ lines[first][2] # Refused
    BY <2>3
  <2>5. lines[first] \in STRING \X (Nat \cup {Refused})
    BY <2>4
  <2>6. lines[first] = <<lines[first][1], lines[first][2]>>
    BY <2>5
  <2>7. FirstOf(name, lines) = lines[first][2]
    BY <1>1, <1>3
  <2>. QED BY <2>4, <2>6, <2>7
<1>. QED BY <1>2, <1>3

\* The fields of a status.
StatusLoads(parsed) == [n \in 1 .. 3 |->
    IF n \in {k \in 1 .. 3 : Len(parsed) >= 3 /\ \A m \in 1 .. k : parsed[m] # Refused} THEN parsed[n] ELSE 0]
StatusMem(name, lines) == IF FirstOf(name, lines) = Refused THEN 0 ELSE FirstOf(name, lines)

\* The members of a status, by what the two files hold.
LEMMA ReadSystemStatusLaw ==
    ASSUME NEW parsed \in Seq(Nat \cup {Refused}), NEW lines
    PROVE  LET loadValid == Len(parsed) >= 3 /\ \A n \in 1 .. 3 : parsed[n] # Refused
               memValid == FirstOf("MemTotal", lines) # Refused /\ FirstOf("MemFree", lines) # Refused
               st == ReadSystemStatus(parsed, lines)
           IN  /\ st.loads = IF loadValid THEN StatusLoads(parsed) ELSE <<0, 0, 0>>
               /\ st.MemTotal = IF memValid THEN StatusMem("MemTotal", lines) ELSE 0
               /\ st.MemFree = IF memValid THEN StatusMem("MemFree", lines) ELSE 0
               /\ st.MemAvailable = IF memValid THEN StatusMem("MemAvailable", lines) ELSE 0
<1> DEFINE loadValid == Len(parsed) >= 3 /\ \A n \in 1 .. 3 : parsed[n] # Refused
           memValid == FirstOf("MemTotal", lines) # Refused /\ FirstOf("MemFree", lines) # Refused
           good == {n \in 1 .. 3 : Len(parsed) >= 3 /\ \A m \in 1 .. n : parsed[m] # Refused}
           a == ReadLoadAverages(NoSystem, parsed)
           b == ReadMemInfo(a, lines)
           zero == <<0, 0, 0>>
           total == StatusMem("MemTotal", lines)
           free == StatusMem("MemFree", lines)
           available == StatusMem("MemAvailable", lines)
<1>1. (good = 1 .. 3) = loadValid
  <2>1. ASSUME loadValid PROVE good = 1 .. 3
    BY <2>1
  <2>2. ASSUME good = 1 .. 3 PROVE loadValid
    <3>1. 3 \in good
      <4>1. 3 \in 1 .. 3
        OBVIOUS
      <4> HIDE DEF good
      <4>. QED BY <2>2, <4>1
    <3>. QED BY <3>1
  <2>. QED BY <2>1, <2>2
<1>2. a = [loadValid |-> loadValid, memValid |-> FALSE, loads |-> StatusLoads(parsed),
           MemTotal |-> 0, MemFree |-> 0, MemAvailable |-> 0]
  <2>1. a = [[NoSystem EXCEPT !.loads = StatusLoads(parsed)] EXCEPT !.loadValid = (good = 1 .. 3)]
    BY DEF ReadLoadAverages, StatusLoads
  <2> HIDE DEF a, good
  <2> DEFINE l == StatusLoads(parsed)
             v == loadValid
  <2>2. a = [[NoSystem EXCEPT !.loads = l] EXCEPT !.loadValid = v]
    BY <1>1, <2>1
  <2> HIDE DEF l, v
  <2>3. a = [loadValid |-> v, memValid |-> FALSE, loads |-> l, MemTotal |-> 0, MemFree |-> 0, MemAvailable |-> 0]
    BY <2>2 DEF NoSystem
  <2>. QED BY <2>3 DEF l, v
<1>3. (Refused \notin {FirstOf("MemTotal", lines), FirstOf("MemFree", lines)}) = memValid
  OBVIOUS
<1>4. b = [[[[a EXCEPT !.MemTotal = total] EXCEPT !.MemFree = free] EXCEPT !.MemAvailable = available]
              EXCEPT !.memValid = memValid]
  BY <1>3 DEF ReadMemInfo, StatusMem
<1>5. ReadSystemStatus(parsed, lines) = Discard(b)
  BY DEF ReadSystemStatus
<1> DEFINE l == StatusLoads(parsed)
<1> HIDE DEF loadValid, memValid, good, a, b, l, total, free, available
<1>6. b = [loadValid |-> loadValid, memValid |-> memValid, loads |-> l,
           MemTotal |-> total, MemFree |-> free, MemAvailable |-> available]
  BY <1>2, <1>4 DEF l
<1>7. /\ b.loadValid = loadValid /\ b.memValid = memValid /\ b.loads = l /\ b.MemTotal = total
      /\ b.MemFree = free /\ b.MemAvailable = available
  BY <1>6
<1> DEFINE c == IF b.loadValid THEN b ELSE [b EXCEPT !.loads = zero]
           d == Discard(b)
<1>8. d = IF b.memValid THEN c ELSE [c EXCEPT !.MemTotal = 0, !.MemFree = 0, !.MemAvailable = 0]
  BY DEF Discard
<1>9. c = [loadValid |-> loadValid, memValid |-> memValid, loads |-> IF loadValid THEN l ELSE zero,
           MemTotal |-> total, MemFree |-> free, MemAvailable |-> available]
  BY <1>6, <1>7
<1> HIDE DEF c, d, zero
<1>10. /\ d.loads = IF loadValid THEN l ELSE zero
       /\ d.MemTotal = IF memValid THEN total ELSE 0
       /\ d.MemFree = IF memValid THEN free ELSE 0
       /\ d.MemAvailable = IF memValid THEN available ELSE 0
  <2>1. CASE memValid
    BY <1>7, <1>8, <1>9, <2>1
  <2>2. CASE ~memValid
    BY <1>7, <1>8, <1>9, <2>2
  <2>. QED BY <2>1, <2>2
<1>. QED BY <1>5, <1>10 DEF loadValid, memValid, l, d, zero, total, free, available

\* What the two files hold is reported by readSystemStatus() in full or not at all.
THEOREM SystemStatusesAreWholeOrNothing == SystemStatusIsWholeOrNothing
<1> SUFFICES ASSUME NEW parsed \in LoadLines, NEW lines \in MemFiles
             PROVE  LET status == ReadSystemStatus(parsed, lines)
                        has(name, v) == \E n \in DOMAIN lines : lines[n] = <<name, v>>
                        known(name) == \E n \in DOMAIN lines : lines[n][1] = name /\ lines[n][2] # Refused
                    IN  /\ status.loads = IF Len(parsed) >= 3 /\ \A n \in 1 .. 3 : parsed[n] # Refused
                                          THEN SubSeq(parsed, 1, 3) ELSE <<0, 0, 0>>
                        /\ IF known("MemTotal") /\ known("MemFree")
                           THEN /\ has("MemTotal", status.MemTotal) /\ has("MemFree", status.MemFree)
                                /\ IF known("MemAvailable") THEN has("MemAvailable", status.MemAvailable)
                                   ELSE status.MemAvailable = 0
                           ELSE {status.MemTotal, status.MemFree, status.MemAvailable} = {0}
  BY DEF SystemStatusIsWholeOrNothing
<1> DEFINE status == ReadSystemStatus(parsed, lines)
           has(name, v) == \E n \in DOMAIN lines : lines[n] = <<name, v>>
           known(name) == \E n \in DOMAIN lines : lines[n][1] = name /\ lines[n][2] # Refused
           loadValid == Len(parsed) >= 3 /\ \A n \in 1 .. 3 : parsed[n] # Refused
           memValid == FirstOf("MemTotal", lines) # Refused /\ FirstOf("MemFree", lines) # Refused
<1>1. parsed \in Seq(Nat \cup {Refused}) /\ lines \in Seq(STRING \X (Nat \cup {Refused}))
  BY StatusAssumption
<1>2. \A name : IF known(name) THEN FirstOf(name, lines) # Refused /\ has(name, StatusMem(name, lines))
                ELSE FirstOf(name, lines) = Refused /\ StatusMem(name, lines) = 0
  BY <1>1, FirstOfLaw DEF StatusMem
<1>3. /\ status.loads = IF loadValid THEN StatusLoads(parsed) ELSE <<0, 0, 0>>
      /\ status.MemTotal = IF memValid THEN StatusMem("MemTotal", lines) ELSE 0
      /\ status.MemFree = IF memValid THEN StatusMem("MemFree", lines) ELSE 0
      /\ status.MemAvailable = IF memValid THEN StatusMem("MemAvailable", lines) ELSE 0
  BY <1>1, ReadSystemStatusLaw
<1>4. ASSUME loadValid PROVE StatusLoads(parsed) = SubSeq(parsed, 1, 3)
  <2>1. SubSeq(parsed, 1, 3) = [n \in 1 .. 3 |-> parsed[n]]
    BY <1>1, <1>4
  <2>2. StatusLoads(parsed) = [n \in 1 .. 3 |-> parsed[n]]
    BY <1>4 DEF StatusLoads
  <2>. QED BY <2>1, <2>2
<1>5. memValid = (known("MemTotal") /\ known("MemFree"))
  BY <1>2
<1> HIDE DEF status, has, known, loadValid, memValid
<1>6. status.loads = IF loadValid THEN SubSeq(parsed, 1, 3) ELSE <<0, 0, 0>>
  BY <1>3, <1>4
<1>7. IF known("MemTotal") /\ known("MemFree")
      THEN /\ has("MemTotal", status.MemTotal) /\ has("MemFree", status.MemFree)
           /\ IF known("MemAvailable") THEN has("MemAvailable", status.MemAvailable)
              ELSE status.MemAvailable = 0
      ELSE {status.MemTotal, status.MemFree, status.MemAvailable} = {0}
  BY <1>2, <1>3, <1>5
<1>. QED BY <1>6, <1>7 DEF status, has, known, loadValid, memValid

-----------------------------------------------------------------------------
(* The numbers of /proc/loadavg.                                           *)

\* A number that fits does not wrap around.
LEMMA SmallRemainder == ASSUME NEW m \in Nat, NEW x \in Nat, x < m PROVE x % m = x
OBVIOUS

\* The largest whole part leaves room for two places.
LEMMA WholeFits == MaxWhole \in Nat /\ 100 * MaxWhole + 99 <= UintMax
BY StatusAssumption DEF MaxWhole

\* The elements of a part of a sequence.
LEMMA SubSeqLaw ==
    ASSUME NEW S, NEW s \in Seq(S), NEW a \in Nat, NEW b \in Nat, 1 <= a, a <= b + 1, b <= Len(s)
    PROVE  /\ SubSeq(s, a, b) \in Seq(S) /\ Len(SubSeq(s, a, b)) = (b - a) + 1
           /\ \A j \in 1 .. (b - a) + 1 : SubSeq(s, a, b)[j] = s[(a + j) - 1]
OBVIOUS

\* The elements of its beginning.
LEMMA PrefixLaw ==
    ASSUME NEW S, NEW s \in Seq(S), NEW b \in Nat, b <= Len(s)
    PROVE  /\ SubSeq(s, 1, b) \in Seq(S) /\ Len(SubSeq(s, 1, b)) = b
           /\ \A j \in 1 .. b : SubSeq(s, 1, b)[j] = s[j]
OBVIOUS

\* A sequence is one of whatever its elements are in.
LEMMA SeqOfLaw ==
    ASSUME NEW S, NEW T, NEW s \in Seq(S), \A j \in 1 .. Len(s) : s[j] \in T
    PROVE  s \in Seq(T)
OBVIOUS

\* A digit is added, or the number is refused when it gets too large.
LEMMA AddDigitLaw ==
    ASSUME NEW x \in Nat \cup {Refused}, NEW c \in Digit
    PROVE  /\ AddDigit(x, c) \in Nat \cup {Refused}
           /\ AddDigit(x, c) = IF x = Refused \/ 10 * x + (c - 48) > MaxWhole THEN Refused
                               ELSE 10 * x + (c - 48)
<1>1. MaxWhole \in Nat /\ MaxWhole <= UintMax /\ UintMax \in Nat
  BY WholeFits, StatusAssumption
<1>2. CASE x = Refused
  BY <1>2 DEF AddDigit
<1>3. CASE x # Refused
  <2>1. x \in Nat /\ c \in Int /\ c - 48 \in Nat
    BY <1>3 DEF Digit
  <2> DEFINE d == c - 48
             m == MaxWhole
  <2> HIDE DEF d, m
  <2>2. (x > (m - d) \div 10) <=> 10 * x + d > m
    BY <1>1, <2>1 DEF d, m
  <2>3. AddDigit(x, c) = IF x > (m - d) \div 10 THEN Refused ELSE (x * 10 + d) % (UintMax + 1)
    BY <1>3 DEF AddDigit, d, m
  <2>4. 10 * x + d <= m => (x * 10 + d) % (UintMax + 1) = 10 * x + d
    <3>1. x * 10 + d \in Nat /\ x * 10 + d = 10 * x + d /\ UintMax + 1 \in Nat
      BY <1>1, <2>1 DEF d
    <3>2. 10 * x + d <= m => 10 * x + d < UintMax + 1
      BY <1>1, <2>1, <3>1 DEF d, m
    <3>. QED BY <3>1, <3>2, SmallRemainder
  <2>5. 10 * x + d \in Nat
    BY <2>1 DEF d
  <2>6. 10 * x + d > m \/ 10 * x + d <= m
    BY <1>1, <2>5 DEF m
  <2>7. ~(10 * x + d > m /\ 10 * x + d <= m)
    BY <1>1, <2>5 DEF m
  <2>. QED BY <1>3, <2>2, <2>3, <2>4, <2>5, <2>6, <2>7 DEF d, m
<1>. QED BY <1>2, <1>3

\* What parseHundredths has read after n digits.
LEMMA WholeLaw ==
    ASSUME NEW s \in Seq(Digit)
    PROVE  /\ Whole(s)[0] = 0
           /\ \A n \in 0 .. Len(s) : Whole(s)[n] \in Nat \cup {Refused}
           /\ \A n \in 1 .. Len(s) : Whole(s)[n] = AddDigit(Whole(s)[n - 1], s[n])
<1> DEFINE N == Len(s)
           step == [k \in 1 .. N |-> [x \in Nat \cup {Refused} |-> AddDigit(x, s[k])]]
           whole[n \in 0 .. N] == IF n = 0 THEN 0 ELSE AddDigit(whole[n - 1], s[n])
<1>1. Whole(s) = whole
  BY DEF Whole
<1> HIDE DEF whole
<1>2. N \in Nat /\ 0 \in Nat \cup {Refused}
  OBVIOUS
<1>3. ASSUME NEW k \in 1 .. N, NEW x \in Nat \cup {Refused} PROVE AddDigit(x, s[k]) \in Nat \cup {Refused}
  BY <1>3, AddDigitLaw
<1> HIDE DEF N
<1>4. step \in StepsIn(Nat \cup {Refused}, N)
  BY <1>3 DEF StepsIn
<1>5. PICK f \in RunsIn(Nat \cup {Refused}, N) : IsRecursive(f, 0, N, step)
  <2> HIDE DEF step
  <2>. QED BY <1>2, <1>4, RecursionExists
<1>6. f \in [0 .. N -> Nat \cup {Refused}] /\ f[0] = 0
  BY <1>5 DEF RunsIn, IsRecursive
<1>7. ASSUME NEW n \in 1 .. N PROVE f[n] = AddDigit(f[n - 1], s[n])
  <2>1. n - 1 \in 0 .. N
    BY <1>2
  <2>2. f[n - 1] \in Nat \cup {Refused}
    BY <1>6, <2>1
  <2>3. f[n] = step[n][f[n - 1]]
    BY <1>5 DEF IsRecursive
  <2>. QED BY <2>2, <2>3
<1> HIDE DEF step
<1>8. whole = [n \in 0 .. N |-> IF n = 0 THEN 0 ELSE AddDigit(whole[n - 1], s[n])]
  <2>1. \A n \in 0 .. N : f[n] = IF n = 0 THEN 0 ELSE AddDigit(f[n - 1], s[n])
    BY <1>2, <1>6, <1>7
  <2>2. f = [n \in 0 .. N |-> IF n = 0 THEN 0 ELSE AddDigit(f[n - 1], s[n])]
    BY <1>6, <2>1
  <2>. QED BY <2>2 DEF whole
<1>9. ASSUME NEW n \in 1 .. N PROVE whole[n] = AddDigit(whole[n - 1], s[n])
  <2>1. n \in 0 .. N /\ n # 0
    BY <1>2
  <2>. QED BY <1>8, <2>1
<1>10. whole[0] = 0
  BY <1>2, <1>8
<1> DEFINE G == {n \in 0 .. N : whole[n] \in Nat \cup {Refused}}
<1>11. \A n \in 0 .. N : n \in G
  <2>1. 0 \in G
    BY <1>2, <1>10
  <2>2. ASSUME NEW n \in 1 .. N, n - 1 \in G PROVE n \in G
    <3>1. n \in 0 .. N
      BY <1>2
    <3>2. whole[n - 1] \in Nat \cup {Refused}
      BY <2>2
    <3>3. whole[n] \in Nat \cup {Refused}
      BY <1>3, <1>9, <3>2
    <3>. QED BY <3>1, <3>3
  <2> HIDE DEF G
  <2>. QED BY <1>2, <2>1, <2>2, InductionUpTo
<1>. QED BY <1>1, <1>9, <1>10, <1>11 DEF N

\* The number after n digits.
DecimalRun(digits) ==
    LET number[n \in 0 .. Len(digits)] ==
            IF n = 0 THEN 0 ELSE 10 * number[n - 1] + (digits[n] - 48)
    IN  number

\* The number of the first n digits, for every n.
LEMMA DecimalLaw ==
    ASSUME NEW s \in Seq(Digit)
    PROVE  /\ DecimalRun(s)[0] = 0
           /\ \A n \in 0 .. Len(s) : DecimalRun(s)[n] \in Nat
           /\ \A n \in 1 .. Len(s) : DecimalRun(s)[n] = 10 * DecimalRun(s)[n - 1] + (s[n] - 48)
<1> DEFINE N == Len(s)
           step == [k \in 1 .. N |-> [x \in Nat |-> 10 * x + (s[k] - 48)]]
           number[n \in 0 .. N] == IF n = 0 THEN 0 ELSE 10 * number[n - 1] + (s[n] - 48)
<1>1. DecimalRun(s) = number
  BY DEF DecimalRun
<1> HIDE DEF number
<1>2. N \in Nat /\ 0 \in Nat
  OBVIOUS
<1>3. ASSUME NEW k \in 1 .. N, NEW x \in Nat PROVE 10 * x + (s[k] - 48) \in Nat
  BY DEF Digit
<1> HIDE DEF N
<1>4. step \in StepsIn(Nat, N)
  BY <1>3 DEF StepsIn
<1>5. PICK f \in RunsIn(Nat, N) : IsRecursive(f, 0, N, step)
  <2> HIDE DEF step
  <2>. QED BY <1>2, <1>4, RecursionExists
<1>6. f \in [0 .. N -> Nat] /\ f[0] = 0
  BY <1>5 DEF RunsIn, IsRecursive
<1>7. ASSUME NEW n \in 1 .. N PROVE f[n] = 10 * f[n - 1] + (s[n] - 48)
  <2>1. n - 1 \in 0 .. N
    BY <1>2
  <2>2. f[n - 1] \in Nat
    BY <1>6, <2>1
  <2>3. f[n] = step[n][f[n - 1]]
    BY <1>5 DEF IsRecursive
  <2>. QED BY <2>2, <2>3
<1> HIDE DEF step
<1>8. number = [n \in 0 .. N |-> IF n = 0 THEN 0 ELSE 10 * number[n - 1] + (s[n] - 48)]
  <2>1. \A n \in 0 .. N : f[n] = IF n = 0 THEN 0 ELSE 10 * f[n - 1] + (s[n] - 48)
    BY <1>2, <1>6, <1>7
  <2>2. f = [n \in 0 .. N |-> IF n = 0 THEN 0 ELSE 10 * f[n - 1] + (s[n] - 48)]
    BY <1>6, <2>1
  <2>. QED BY <2>2 DEF number
<1>9. ASSUME NEW n \in 1 .. N PROVE number[n] = 10 * number[n - 1] + (s[n] - 48)
  <2>1. n \in 0 .. N /\ n # 0
    BY <1>2
  <2>. QED BY <1>8, <2>1
<1>10. number[0] = 0
  BY <1>2, <1>8
<1> DEFINE G == {n \in 0 .. N : number[n] \in Nat}
<1>11. \A n \in 0 .. N : n \in G
  <2>1. 0 \in G
    BY <1>2, <1>10
  <2>2. ASSUME NEW n \in 1 .. N, n - 1 \in G PROVE n \in G
    <3>1. n \in 0 .. N
      BY <1>2
    <3>2. number[n - 1] \in Nat
      BY <2>2
    <3>3. number[n] \in Nat
      BY <1>3, <1>9, <3>2
    <3>. QED BY <3>1, <3>3
  <2> HIDE DEF G
  <2>. QED BY <1>2, <2>1, <2>2, InductionUpTo
<1>. QED BY <1>1, <1>9, <1>10, <1>11 DEF N

\* Decimal is that of all digits.
LEMMA DecimalIsLast == ASSUME NEW s PROVE Decimal(s) = DecimalRun(s)[Len(s)]
BY DEF Decimal, DecimalRun

\* The number that is read is the one that was written, unless it is too large.
LEMMA WholeIsDecimal ==
    ASSUME NEW s \in Seq(Digit)
    PROVE  /\ Decimal(s) \in Nat
           /\ Whole(s)[Len(s)] = IF Decimal(s) > MaxWhole THEN Refused ELSE Decimal(s)
<1> DEFINE wh == Whole(s)
           d == DecimalRun(s)
           N == Len(s)
           m == MaxWhole
<1>1. /\ wh[0] = 0 /\ \A n \in 0 .. N : wh[n] \in Nat \cup {Refused}
      /\ \A n \in 1 .. N : wh[n] = AddDigit(wh[n - 1], s[n])
  BY WholeLaw
<1>2. /\ d[0] = 0 /\ \A n \in 0 .. N : d[n] \in Nat
      /\ \A n \in 1 .. N : d[n] = 10 * d[n - 1] + (s[n] - 48)
  BY DecimalLaw
<1>3. N \in Nat /\ m \in Nat
  BY WholeFits
<1>4. \A n \in 1 .. N : s[n] \in Digit
  OBVIOUS
<1> HIDE DEF wh, d, N, m
<1> DEFINE G == {n \in 0 .. N : wh[n] = IF d[n] > m THEN Refused ELSE d[n]}
<1>5. \A n \in 0 .. N : n \in G
  <2>1. 0 \in G
    BY <1>1, <1>2, <1>3
  <2>2. ASSUME NEW n \in 1 .. N, n - 1 \in G PROVE n \in G
    <3> DEFINE x == wh[n - 1]
               y == d[n - 1]
               c == s[n]
    <3>1. n - 1 \in 0 .. N /\ n \in 0 .. N
      BY <1>3
    <3>2. x \in Nat \cup {Refused} /\ y \in Nat /\ c \in Digit
      BY <1>1, <1>2, <1>4, <3>1
    <3>3. wh[n] = AddDigit(x, c) /\ d[n] = 10 * y + (c - 48)
      BY <1>1, <1>2
    <3>4. x = IF y > m THEN Refused ELSE y
      BY <2>2
    <3> HIDE DEF x, y, c
    <3>5. wh[n] = IF x = Refused \/ 10 * x + (c - 48) > m THEN Refused ELSE 10 * x + (c - 48)
      BY <3>2, <3>3, AddDigitLaw DEF m
    <3>6. c - 48 \in Nat
      BY <3>2 DEF Digit
    <3>7. wh[n] = IF d[n] > m THEN Refused ELSE d[n]
      <4>1. CASE y > m
        <5>1. d[n] > m
          BY <1>3, <3>2, <3>3, <3>6, <4>1
        <5>. QED BY <3>4, <3>5, <4>1, <5>1
      <4>2. CASE ~(y > m)
        <5>1. x = y /\ x # Refused
          BY <3>2, <3>4, <4>2 DEF Refused
        <5>. QED BY <3>3, <3>5, <5>1
      <4>. QED BY <4>1, <4>2
    <3>. QED BY <3>1, <3>7
  <2> HIDE DEF G
  <2>. QED BY <1>3, <2>1, <2>2, InductionUpTo
<1>6. N \in 0 .. N /\ N \in G
  BY <1>3, <1>5
<1>7. wh[N] = (IF d[N] > m THEN Refused ELSE d[N]) /\ d[N] \in Nat
  BY <1>2, <1>6
<1>. QED BY <1>7, DecimalIsLast DEF wh, d, N, m

\* Numbers of no, one and two digits.
LEMMA ShortDecimals ==
    ASSUME NEW s \in Seq(Digit)
    PROVE  /\ Len(s) = 0 => Decimal(s) = 0
           /\ Len(s) = 1 => Decimal(s) = s[1] - 48
           /\ Len(s) = 2 => Decimal(s) = 10 * (s[1] - 48) + (s[2] - 48)
<1> DEFINE d == DecimalRun(s)
           N == Len(s)
<1>1. /\ d[0] = 0
      /\ \A n \in 1 .. N : d[n] = 10 * d[n - 1] + (s[n] - 48)
  BY DecimalLaw
<1>2. Decimal(s) = d[N]
  BY DecimalIsLast
<1>3. \A n \in 1 .. N : s[n] - 48 \in Nat
  BY DEF Digit
<1> HIDE DEF d, N
<1>4. ASSUME N = 1 \/ N = 2 PROVE d[1] = s[1] - 48 /\ s[1] - 48 \in Nat
  <2>1. 1 \in 1 .. N
    BY <1>4
  <2>2. d[1] = 10 * d[1 - 1] + (s[1] - 48) /\ s[1] - 48 \in Nat
    BY <1>1, <1>3, <2>1
  <2>. QED BY <1>1, <2>2
<1>5. ASSUME N = 2 PROVE d[2] = 10 * (s[1] - 48) + (s[2] - 48)
  <2>1. 2 \in 1 .. N
    BY <1>5
  <2>2. d[2] = 10 * d[2 - 1] + (s[2] - 48)
    BY <1>1, <2>1
  <2>. QED BY <1>4, <1>5, <2>2
<1>. QED BY <1>1, <1>2, <1>4, <1>5 DEF N

\* The digits that a text begins with.
LEMMA LeadingDigitsLaw ==
    ASSUME NEW s \in Seq(0 .. 255)
    PROVE  /\ LeadingDigits(s) \in 0 .. Len(s)
           /\ \A m \in 1 .. LeadingDigits(s) : s[m] \in Digit
           /\ LeadingDigits(s) < Len(s) => s[LeadingDigits(s) + 1] \notin Digit
<1> DEFINE N == Len(s)
           lengths == {n \in 0 .. N : \A m \in 1 .. n : s[m] \in Digit}
           ends == {n \in 0 .. N : n = N \/ s[n + 1] \notin Digit}
           most == CHOOSE n \in lengths : \A m \in lengths : m <= n
<1>1. N \in Nat /\ LeadingDigits(s) = most
  BY DEF LeadingDigits
<1> HIDE DEF N
<1>2. PICK n \in ends : \A k \in ends : n <= k
  <2>1. ends \in SUBSET Nat /\ N \in ends
    BY <1>1
  <2> HIDE DEF ends
  <2>. QED BY <2>1, LeastNatural
<1>3. n \in 0 .. N /\ (n < N => s[n + 1] \notin Digit)
  BY <1>1, <1>2
<1>4. ASSUME NEW m \in 1 .. n PROVE s[m] \in Digit
  <2>1. m - 1 \in 0 .. N /\ m - 1 < n /\ m - 1 # N
    BY <1>1, <1>3
  <2>2. m - 1 \notin ends
    <3> HIDE DEF ends
    <3>. QED BY <1>2, <1>3, <2>1
  <2>3. s[(m - 1) + 1] \in Digit
    BY <2>1, <2>2
  <2>4. (m - 1) + 1 = m
    BY <1>3
  <2>. QED BY <2>3, <2>4
<1>5. n \in lengths
  BY <1>3, <1>4
<1>6. \A m \in lengths : m <= n
  <2> SUFFICES ASSUME NEW m \in lengths, m > n PROVE FALSE
    BY <1>1, <1>3
  <2>1. m \in 0 .. N /\ \A k \in 1 .. m : s[k] \in Digit
    OBVIOUS
  <2>2. n + 1 \in 1 .. m /\ n < N
    BY <1>1, <1>3, <2>1
  <2>. QED BY <1>3, <2>1, <2>2
<1>7. most \in lengths /\ \A m \in lengths : m <= most
  <2> HIDE DEF lengths
  <2>. QED BY <1>5, <1>6
<1>8. most = n
  <2>1. most \in 0 .. N
    BY <1>7
  <2> HIDE DEF lengths, most
  <2>. QED BY <1>1, <1>3, <1>5, <1>6, <1>7, <2>1
<1>. QED BY <1>1, <1>3, <1>4, <1>8 DEF N

\* The places of a decimal: one or two digits, read as hundredths.
LEMMA FractionLaw ==
    ASSUME NEW p \in Seq(0 .. 255)
    PROVE  IF Len(p) \in 1 .. 2 /\ \A m \in 1 .. Len(p) : p[m] \in Digit
           THEN /\ Fraction(p) = IF Len(p) = 1 THEN 10 * Decimal(p) ELSE Decimal(p)
                /\ Fraction(p) \in 0 .. 99
           ELSE Fraction(p) = Refused
<1> DEFINE n == LeadingDigits(p)
<1>1. /\ n \in 0 .. Len(p) /\ \A m \in 1 .. n : p[m] \in Digit
      /\ n < Len(p) => p[n + 1] \notin Digit
  BY LeadingDigitsLaw
<1>2. Len(p) \in Nat
  OBVIOUS
<1> HIDE DEF n
<1>3. n < Len(p) <=> ~ \A m \in 1 .. Len(p) : p[m] \in Digit
  <2>1. ASSUME n < Len(p) PROVE n + 1 \in 1 .. Len(p)
    BY <1>1, <1>2, <2>1
  <2>2. ASSUME ~(n < Len(p)) PROVE n = Len(p)
    BY <1>1, <1>2, <2>2
  <2>. QED BY <1>1, <2>1, <2>2
<1>4. CASE Len(p) \in 1 .. 2 /\ \A m \in 1 .. Len(p) : p[m] \in Digit
  <2>1. p \in Seq(Digit)
    BY <1>4, SeqOfLaw
  <2>2. Fraction(p) = 10 * (p[1] - 48) + IF Len(p) = 2 THEN p[2] - 48 ELSE 0
    BY <1>3, <1>4 DEF Fraction, n
  <2> DEFINE x == p[1] - 48
             y == p[2] - 48
             f == Fraction(p)
             v == Decimal(p)
  <2>3. CASE Len(p) = 1
    <3>1. p[1] \in Digit /\ v = x /\ f = 10 * x + 0
      BY <1>4, <2>1, <2>2, <2>3, ShortDecimals
    <3>2. x \in 0 .. 9
      BY <3>1 DEF Digit
    <3> HIDE DEF x, f, v
    <3>3. f = 10 * v /\ f \in 0 .. 99
      BY <3>1, <3>2
    <3>. QED BY <1>4, <2>3, <3>3 DEF f, v
  <2>4. CASE Len(p) = 2
    <3>1. p[1] \in Digit /\ p[2] \in Digit /\ v = 10 * x + y /\ f = 10 * x + y
      BY <1>4, <2>1, <2>2, <2>4, ShortDecimals
    <3>2. x \in 0 .. 9 /\ y \in 0 .. 9
      BY <3>1 DEF Digit
    <3> HIDE DEF x, y, f, v
    <3>3. f = v /\ f \in 0 .. 99
      BY <3>1, <3>2
    <3>. QED BY <1>4, <2>4, <3>3 DEF f, v
  <2>. QED BY <1>4, <2>3, <2>4
<1>5. CASE ~(Len(p) \in 1 .. 2 /\ \A m \in 1 .. Len(p) : p[m] \in Digit)
  BY <1>3, <1>5 DEF Fraction, n
<1>. QED BY <1>4, <1>5

\* No text of /proc/loadavg is read by parseHundredths() as another number than it stands for.
THEOREM LoadsAreReadOrRefused == LoadIsReadOrRefused
<1> SUFFICES ASSUME NEW token \in LoadTokens
             PROVE  LET dots == {n \in DOMAIN token : token[n] = Dot}
                        dot == IF dots = {} THEN Len(token) + 1 ELSE CHOOSE n \in dots : \A m \in dots : n <= m
                        whole == SubSeq(token, 1, dot - 1)
                        places == SubSeq(token, dot + 1, Len(token))
                        isDecimal == /\ whole # <<>>
                                     /\ \A n \in DOMAIN token : n # dot => token[n] \in Digit
                                     /\ dots # {} => Len(places) \in 1 .. 2
                    IN  ParseHundredths(token) =
                            IF ~isDecimal \/ Decimal(whole) > MaxWhole THEN Refused
                            ELSE 100 * Decimal(whole) + IF Len(places) = 1 THEN 10 * Decimal(places)
                                                        ELSE Decimal(places)
  BY DEF LoadIsReadOrRefused
<1> DEFINE L == Len(token)
           dots == {n \in DOMAIN token : token[n] = Dot}
           dot == IF dots = {} THEN L + 1 ELSE CHOOSE n \in dots : \A m \in dots : n <= m
           whole == SubSeq(token, 1, dot - 1)
           places == SubSeq(token, dot + 1, L)
           isDecimal == /\ whole # <<>>
                        /\ \A n \in DOMAIN token : n # dot => token[n] \in Digit
                        /\ dots # {} => Len(places) \in 1 .. 2
           n == LeadingDigits(token)
           wh == Whole(SubSeq(token, 1, n))[n]
           f == IF n = L THEN 0
                ELSE IF token[n + 1] = Dot THEN Fraction(SubSeq(token, n + 2, L)) ELSE Refused
           read == ParseHundredths(token)
           hundredths == IF Len(places) = 1 THEN 10 * Decimal(places) ELSE Decimal(places)
           meant == IF ~isDecimal \/ Decimal(whole) > MaxWhole THEN Refused
                    ELSE 100 * Decimal(whole) + hundredths
<1>0. token \in Seq(0 .. 255) /\ L \in Nat /\ DOMAIN token = 1 .. L
  BY StatusAssumption
<1>1. /\ n \in 0 .. L /\ \A m \in 1 .. n : token[m] \in Digit
      /\ n < L => token[n + 1] \notin Digit
  BY <1>0, LeadingDigitsLaw
<1>2. read = IF n = 0 \/ Refused \in {wh, f} THEN Refused ELSE (wh * 100 + f) % (UintMax + 1)
  BY DEF ParseHundredths
<1>3. /\ dot \in 1 .. L + 1 /\ \A m \in 1 .. L : m < dot => token[m] # Dot
      /\ IF dots = {} THEN dot = L + 1 ELSE dot \in 1 .. L /\ token[dot] = Dot
  <2>1. CASE dots = {}
    BY <1>0, <2>1
  <2>2. CASE dots # {}
    <3>1. dots \in SUBSET Nat
      BY <1>0
    <3>2. \E k \in dots : \A m \in dots : k <= m
      <4> HIDE DEF dots
      <4>. QED BY <2>2, <3>1, LeastNatural
    <3>3. dot \in dots /\ \A m \in dots : dot <= m
      <4> HIDE DEF dots
      <4>. QED BY <2>2, <3>2
    <3> HIDE DEF dot
    <3>4. dot \in 1 .. L /\ token[dot] = Dot
      BY <1>0, <3>3
    <3>5. ASSUME NEW m \in 1 .. L, m < dot PROVE token[m] # Dot
      <4>1. m \notin dots
        <5> HIDE DEF dots
        <5>. QED BY <3>3, <3>4, <3>5
      <4>. QED BY <1>0, <4>1
    <3>. QED BY <1>0, <2>2, <3>4, <3>5
  <2>. QED BY <2>1, <2>2
<1>4. Dot \notin Digit
  BY DEF Dot, Digit
<1> HIDE DEF L, dots, dot, n
<1>5. n <= dot - 1
  <2> SUFFICES ASSUME n >= dot PROVE FALSE
    BY <1>0, <1>1, <1>3
  <2>1. dot \in 1 .. n /\ dot # L + 1
    BY <1>0, <1>1, <1>3
  <2>2. token[dot] = Dot /\ token[dot] \in Digit
    BY <1>1, <1>3, <2>1
  <2>. QED BY <1>4, <2>2
<1>6. CASE n < dot - 1
  <2>1. n < L /\ n + 1 \in 1 .. L /\ n + 1 < dot /\ n + 1 # dot
    BY <1>0, <1>1, <1>3, <1>6
  <2>2. token[n + 1] # Dot /\ token[n + 1] \notin Digit
    BY <1>1, <1>3, <2>1
  <2>3. ~isDecimal
    <3> HIDE DEF whole, places
    <3>. QED BY <1>0, <2>1, <2>2
  <2>4. f = Refused
    BY <1>0, <1>1, <2>1, <2>2
  <2>5. read = Refused
    <3> HIDE DEF read, wh, f
    <3>. QED BY <1>2, <2>4
  <2> HIDE DEF read, isDecimal, whole, places, hundredths
  <2>6. read = meant
    BY <2>3, <2>5
  <2>. QED BY <2>6 DEF read, isDecimal, whole, places, hundredths, L, dots, dot
<1>7. CASE n = dot - 1
  <2>1. /\ whole \in Seq(0 .. 255) /\ Len(whole) = n /\ \A j \in 1 .. n : whole[j] = token[j]
    <3>1. n \in Nat /\ n <= Len(token)
      BY <1>0, <1>1 DEF L
    <3>2. /\ SubSeq(token, 1, n) \in Seq(0 .. 255) /\ Len(SubSeq(token, 1, n)) = n
          /\ \A j \in 1 .. n : SubSeq(token, 1, n)[j] = token[j]
      BY ZenonT(30), <1>0, <3>1, PrefixLaw
    <3>3. whole = SubSeq(token, 1, n)
      BY <1>7
    <3>. QED BY <3>2, <3>3
  <2>2. wh = Whole(whole)[Len(whole)]
    BY <1>7, <2>1
  <2> HIDE DEF whole, wh
  <2>3. whole \in Seq(Digit)
    BY <1>1, <2>1, SeqOfLaw
  <2>4. Decimal(whole) \in Nat /\ wh = IF Decimal(whole) > MaxWhole THEN Refused ELSE Decimal(whole)
    BY <2>2, <2>3, WholeIsDecimal
  <2> DEFINE W == Decimal(whole)
  <2>5. n = 0 <=> whole = <<>>
    BY <2>1
  <2>6. IF dots = {} \/ (Len(places) \in 1 .. 2 /\ \A m \in 1 .. Len(places) : places[m] \in Digit)
        THEN f = hundredths /\ f \in 0 .. 99
        ELSE f = Refused
    <3>1. CASE dots = {}
      <4>1. n = L /\ dot = L + 1
        BY <1>0, <1>1, <1>3, <1>7, <3>1
      <4>2. f = 0
        BY <4>1
      <4>3. places = <<>>
        BY <1>0, <4>1 DEF L
      <4>4. <<>> \in Seq(Digit) /\ Len(<<>>) = 0
        OBVIOUS
      <4>5. Decimal(<<>>) = 0
        BY <4>4, ShortDecimals
      <4>6. hundredths = 0
        <5>1. Len(places) = 0 /\ Decimal(places) = 0
          BY <4>3, <4>4, <4>5
        <5> HIDE DEF places
        <5>. QED BY <5>1
      <4> HIDE DEF f, hundredths
      <4>. QED BY <3>1, <4>2, <4>6
    <3>2. CASE dots # {}
      <4>1. dot \in 1 .. L /\ token[dot] = Dot /\ n + 1 = dot /\ n # L /\ n + 2 = dot + 1
        BY <1>0, <1>1, <1>3, <1>7, <3>2
      <4>2. f = Fraction(places)
        BY <4>1
      <4>3. places \in Seq(0 .. 255)
        <5>1. dot + 1 \in Nat /\ L \in Nat /\ 1 <= dot + 1 /\ dot + 1 <= L + 1 /\ L <= Len(token)
          BY <1>0, <4>1 DEF L
        <5>. QED BY <1>0, <5>1, SubSeqLaw
      <4> HIDE DEF f, places
      <4>4. IF Len(places) \in 1 .. 2 /\ \A m \in 1 .. Len(places) : places[m] \in Digit
            THEN f = hundredths /\ f \in 0 .. 99 ELSE f = Refused
        BY <4>2, <4>3, FractionLaw
      <4> HIDE DEF hundredths
      <4>. QED BY <3>2, <4>4
    <3>. QED BY <3>1, <3>2
  <2>7. isDecimal <=> /\ n # 0
                      /\ \/ dots = {}
                         \/ Len(places) \in 1 .. 2 /\ \A m \in 1 .. Len(places) : places[m] \in Digit
    <3> DEFINE rest == \A m \in 1 .. L : m # dot => token[m] \in Digit
    <3>1. isDecimal <=> n # 0 /\ rest /\ (dots # {} => Len(places) \in 1 .. 2)
      BY <1>0, <2>5
    <3>2. CASE dots = {}
      <4>1. rest
        BY <1>0, <1>1, <1>3, <1>7, <3>2
      <4> HIDE DEF rest, isDecimal, places
      <4>. QED BY <3>1, <3>2, <4>1
    <3>3. CASE dots # {}
      <4>1. dot \in 1 .. L
        BY <1>3, <3>3
      <4>2. Len(places) = L - dot /\ \A j \in 1 .. L - dot : places[j] = token[dot + j]
        <5>1. dot + 1 \in Nat /\ L \in Nat /\ 1 <= dot + 1 /\ dot + 1 <= L + 1 /\ L <= Len(token)
          BY <1>0, <4>1 DEF L
        <5>2. /\ Len(places) = (L - (dot + 1)) + 1
              /\ \A j \in 1 .. (L - (dot + 1)) + 1 : places[j] = token[((dot + 1) + j) - 1]
          BY <1>0, <5>1, SubSeqLaw
        <5>3. (L - (dot + 1)) + 1 = L - dot /\ \A j \in 1 .. L - dot : ((dot + 1) + j) - 1 = dot + j
          BY <1>0, <4>1
        <5> HIDE DEF places
        <5>. QED BY <5>2, <5>3
      <4>3. rest <=> \A m \in 1 .. Len(places) : places[m] \in Digit
        <5>1. ASSUME rest, NEW m \in 1 .. Len(places) PROVE places[m] \in Digit
          <6>1. dot + m \in 1 .. L /\ dot + m # dot /\ m \in 1 .. L - dot
            BY <1>0, <4>1, <4>2, <5>1
          <6>. QED BY <4>2, <5>1, <6>1
        <5>2. ASSUME \A m \in 1 .. Len(places) : places[m] \in Digit PROVE rest
          <6> SUFFICES ASSUME NEW m \in 1 .. L, m # dot PROVE token[m] \in Digit
            OBVIOUS
          <6>1. CASE m < dot
            <7>1. m \in 1 .. n
              BY <1>0, <1>1, <1>7, <4>1, <6>1
            <7>. QED BY <1>1, <7>1
          <6>2. CASE m > dot
            <7>1. m - dot \in 1 .. L - dot /\ dot + (m - dot) = m
              BY <1>0, <4>1, <6>2
            <7>2. places[m - dot] \in Digit /\ places[m - dot] = token[dot + (m - dot)]
              <8> HIDE DEF places
              <8>. QED BY <4>2, <5>2, <7>1
            <7>. QED BY <7>1, <7>2
          <6>. QED BY <4>1, <6>1, <6>2
        <5>. QED BY <5>1, <5>2
      <4> HIDE DEF rest, isDecimal, places
      <4>. QED BY <3>1, <3>3, <4>3
    <3>. QED BY <3>2, <3>3
  <2> DEFINE good == dots = {} \/ (Len(places) \in 1 .. 2 /\ \A m \in 1 .. Len(places) : places[m] \in Digit)
  <2>8. (good => f = hundredths /\ f \in 0 .. 99) /\ (~good => f = Refused)
    BY <2>6
  <2>9. isDecimal <=> n # 0 /\ good
    BY <2>7
  <2>10. read = meant
    <3> HIDE DEF W, good, isDecimal, places, hundredths, f, read
    <3>1. CASE ~isDecimal
      <4>1. n = 0 \/ f = Refused
        BY <2>8, <2>9, <3>1
      <4>2. read = Refused
        BY <1>2, <4>1
      <4>. QED BY <3>1, <4>2
    <3>2. CASE isDecimal /\ W > MaxWhole
      <4>1. wh = Refused
        BY <2>4, <3>2 DEF W
      <4>2. read = Refused
        BY <1>2, <4>1
      <4>. QED BY <3>2, <4>2 DEF W
    <3>3. CASE isDecimal /\ ~(W > MaxWhole)
      <4>1. n # 0 /\ f = hundredths /\ f \in 0 .. 99 /\ wh = W /\ W \in Nat
        BY <2>4, <2>8, <2>9, <3>3 DEF W
      <4>2. wh # Refused /\ f # Refused
        BY <4>1 DEF Refused
      <4>3. read = (wh * 100 + f) % (UintMax + 1)
        BY <1>2, <4>1, <4>2
      <4>4. (wh * 100 + f) \in Nat /\ wh * 100 + f < UintMax + 1 /\ UintMax + 1 \in Nat /\ wh * 100 + f = 100 * W + hundredths
        BY <3>3, <4>1, WholeFits, StatusAssumption
      <4>5. read = 100 * W + hundredths
        BY <4>3, <4>4, SmallRemainder
      <4>. QED BY <3>3, <4>5 DEF W
    <3>. QED BY <3>1, <3>2, <3>3
  <2> HIDE DEF read, isDecimal, places, hundredths
  <2>. QED BY <2>10 DEF read, isDecimal, whole, places, hundredths, L, dots, dot
<1>8. n < dot - 1 \/ n = dot - 1
  BY <1>0, <1>1, <1>3, <1>5
<1>. QED BY <1>6, <1>7, <1>8

-----------------------------------------------------------------------------
(* Strings in the document.                                                *)

Char == 0 .. 255
Meant == Char \cup {EscapedBy(c) : c \in Char} \cup {CodePoint(p, c) : p \in Seq(Char), c \in Char}
Reader == [plain : Seq(Meant), pending : Seq(Char)]

\* The characters an escape is made of.
LEMMA CharCodes == Backslash \in Char /\ Quote \in Char /\ 117 \in Char /\ 48 \in Char /\ Backslash # 117
BY DEF Backslash, Quote, Char

\* The reader, case by case.
ReaderAt(x, p) == [plain |-> x, pending |-> p]

\* What the reader of strings does with a character, by what is pending.
LEMMA ReadJsonCharCases ==
    ASSUME NEW x, NEW p \in Seq(Char), NEW c
    PROVE  /\ p = <<>> /\ c # Backslash => ReadJsonChar(ReaderAt(x, p), c) = ReaderAt(Append(x, c), <<>>)
           /\ p = <<Backslash>> /\ c # 117 =>
                  ReadJsonChar(ReaderAt(x, p), c) = ReaderAt(Append(x, EscapedBy(c)), <<>>)
           /\ Len(p) = 5 => ReadJsonChar(ReaderAt(x, p), c) = ReaderAt(Append(x, CodePoint(p, c)), <<>>)
           /\ ~(p = <<>> /\ c # Backslash) /\ ~(p = <<Backslash>> /\ c # 117) /\ Len(p) # 5 =>
                  ReadJsonChar(ReaderAt(x, p), c) = ReaderAt(x, Append(p, c))
<1> DEFINE r == ReaderAt(x, p)
           A == [plain |-> Append(x, c), pending |-> <<>>]
           B == [plain |-> Append(x, EscapedBy(c)), pending |-> <<>>]
           C == [plain |-> Append(x, CodePoint(p, c)), pending |-> <<>>]
           D == [plain |-> x, pending |-> Append(p, c)]
           isA == p = <<>> /\ c # Backslash
           isB == p = <<Backslash>> /\ c # 117
           isC == Len(p) = 5
<1>1. r.plain = x /\ r.pending = p
  BY DEF ReaderAt
<1>2. ~(isA /\ isB) /\ ~(isA /\ isC) /\ ~(isB /\ isC)
  BY SMTT(30)
<1>3. ReadJsonChar(r, c) = CASE isA -> A [] isB -> B [] isC -> C [] OTHER -> D
  BY <1>1 DEF ReadJsonChar
<1> HIDE DEF r, A, B, C, D, isA, isB, isC
<1>4. /\ isA => ReadJsonChar(r, c) = A
      /\ isB => ReadJsonChar(r, c) = B
      /\ isC => ReadJsonChar(r, c) = C
      /\ ~isA /\ ~isB /\ ~isC => ReadJsonChar(r, c) = D
  BY <1>2, <1>3
<1>. QED BY <1>4 DEF r, A, B, C, D, isA, isB, isC, ReaderAt

\* It takes a character as it is,
LEMMA ReadPlain ==
    ASSUME NEW x, NEW c, c # Backslash
    PROVE  ReadJsonChar(ReaderAt(x, <<>>), c) = ReaderAt(Append(x, c), <<>>)
<1>1. <<>> \in Seq(Char)
  OBVIOUS
<1>. QED BY <1>1, ReadJsonCharCases

\* a letter behind a backslash,
LEMMA ReadEscaped ==
    ASSUME NEW x, NEW c, c # 117
    PROVE  ReadJsonChar(ReaderAt(x, <<Backslash>>), c) = ReaderAt(Append(x, EscapedBy(c)), <<>>)
<1>1. <<Backslash>> \in Seq(Char)
  BY DEF Backslash, Char
<1>. QED BY <1>1, ReadJsonCharCases

\* the last digit of a code,
LEMMA ReadLast ==
    ASSUME NEW x, NEW p \in Seq(Char), NEW c, Len(p) = 5
    PROVE  ReadJsonChar(ReaderAt(x, p), c) = ReaderAt(Append(x, CodePoint(p, c)), <<>>)
BY ReadJsonCharCases

\* and what it needs more of.
LEMMA ReadMore ==
    ASSUME NEW x, NEW p \in Seq(Char), NEW c, Len(p) # 5, p = <<>> => c = Backslash,
           p = <<Backslash>> => c = 117
    PROVE  ReadJsonChar(ReaderAt(x, p), c) = ReaderAt(x, Append(p, c))
BY ReadJsonCharCases

\* It keeps to its types.
LEMMA ReadJsonCharTyped ==
    ASSUME NEW r \in Reader, NEW c \in Char
    PROVE  ReadJsonChar(r, c) \in Reader
<1> DEFINE x == r.plain
           p == r.pending
<1>1. x \in Seq(Meant) /\ p \in Seq(Char) /\ r = ReaderAt(x, p)
  BY DEF Reader, ReaderAt
<1>2. c \in Meant /\ EscapedBy(c) \in Meant /\ CodePoint(p, c) \in Meant
  BY <1>1 DEF Meant
<1> HIDE DEF x, p
<1>3. /\ Append(x, c) \in Seq(Meant) /\ Append(x, EscapedBy(c)) \in Seq(Meant)
      /\ Append(x, CodePoint(p, c)) \in Seq(Meant) /\ Append(p, c) \in Seq(Char) /\ <<>> \in Seq(Char)
  BY <1>1, <1>2
<1>4. \A y \in Seq(Meant), q \in Seq(Char) : ReaderAt(y, q) \in Reader
  BY DEF ReaderAt, Reader
<1>5. \/ ReadJsonChar(r, c) = ReaderAt(Append(x, c), <<>>)
      \/ ReadJsonChar(r, c) = ReaderAt(Append(x, EscapedBy(c)), <<>>)
      \/ ReadJsonChar(r, c) = ReaderAt(Append(x, CodePoint(p, c)), <<>>)
      \/ ReadJsonChar(r, c) = ReaderAt(x, Append(p, c))
  BY <1>1, ReadJsonCharCases, Zenon
<1>. QED BY <1>1, <1>3, <1>4, <1>5, Zenon

\* What a reader has read after n characters.
LEMMA JsonStringLaw ==
    ASSUME NEW s \in Seq(Char)
    PROVE  /\ JsonString(s)[0] = [plain |-> <<>>, pending |-> <<>>]
           /\ \A n \in 0 .. Len(s) : JsonString(s)[n] \in Reader
           /\ \A n \in 1 .. Len(s) : JsonString(s)[n] = ReadJsonChar(JsonString(s)[n - 1], s[n])
<1> DEFINE N == Len(s)
           step == [k \in 1 .. N |-> [x \in Reader |-> ReadJsonChar(x, s[k])]]
           r[n \in 0 .. N] == IF n = 0 THEN [plain |-> <<>>, pending |-> <<>>] ELSE ReadJsonChar(r[n - 1], s[n])
<1>1. JsonString(s) = r
  BY DEF JsonString
<1> HIDE DEF r
<1>2. N \in Nat /\ [plain |-> <<>>, pending |-> <<>>] \in Reader
  BY DEF Reader
<1>3. ASSUME NEW k \in 1 .. N, NEW x \in Reader PROVE ReadJsonChar(x, s[k]) \in Reader
  BY <1>3, ReadJsonCharTyped
<1> HIDE DEF N
<1>4. step \in StepsIn(Reader, N)
  BY <1>3 DEF StepsIn
<1>5. PICK f \in RunsIn(Reader, N) : IsRecursive(f, [plain |-> <<>>, pending |-> <<>>], N, step)
  <2> HIDE DEF step
  <2>. QED BY <1>2, <1>4, RecursionExists
<1>6. f \in [0 .. N -> Reader] /\ f[0] = [plain |-> <<>>, pending |-> <<>>]
  BY <1>5 DEF RunsIn, IsRecursive
<1>7. ASSUME NEW n \in 1 .. N PROVE f[n] = ReadJsonChar(f[n - 1], s[n])
  <2>1. n - 1 \in 0 .. N
    BY <1>2
  <2>2. f[n - 1] \in Reader
    BY <1>6, <2>1
  <2>3. f[n] = step[n][f[n - 1]]
    BY <1>5 DEF IsRecursive
  <2>. QED BY <2>2, <2>3
<1> HIDE DEF step
<1>8. r = [n \in 0 .. N |-> IF n = 0 THEN [plain |-> <<>>, pending |-> <<>>] ELSE ReadJsonChar(r[n - 1], s[n])]
  <2>1. \A n \in 0 .. N : f[n] = IF n = 0 THEN [plain |-> <<>>, pending |-> <<>>] ELSE ReadJsonChar(f[n - 1], s[n])
    BY <1>2, <1>6, <1>7
  <2>2. f = [n \in 0 .. N |-> IF n = 0 THEN [plain |-> <<>>, pending |-> <<>>] ELSE ReadJsonChar(f[n - 1], s[n])]
    BY <1>6, <2>1
  <2>. QED BY <2>2 DEF r
<1>9. ASSUME NEW n \in 1 .. N PROVE r[n] = ReadJsonChar(r[n - 1], s[n])
  <2>1. n \in 0 .. N /\ n # 0
    BY <1>2
  <2>. QED BY <1>8, <2>1
<1>10. r[0] = [plain |-> <<>>, pending |-> <<>>]
  BY <1>2, <1>8
<1> DEFINE G == {n \in 0 .. N : r[n] \in Reader}
<1>11. \A n \in 0 .. N : n \in G
  <2>1. 0 \in G
    BY <1>2, <1>10
  <2>2. ASSUME NEW n \in 1 .. N, n - 1 \in G PROVE n \in G
    <3>1. n \in 0 .. N
      BY <1>2
    <3>2. r[n - 1] \in Reader
      BY <2>2
    <3>3. r[n] \in Reader
      BY <1>3, <1>9, <3>2
    <3>. QED BY <3>1, <3>3
  <2> HIDE DEF G
  <2>. QED BY <1>2, <2>1, <2>2, InductionUpTo
<1>. QED BY <1>1, <1>9, <1>10, <1>11 DEF N

\* A short escape and a code are read as what they stand for.
LEMMA EscapedByLaw ==
    ASSUME NEW c \in HasShortEscape
    PROVE  ShortEscape(c) \in Char /\ ShortEscape(c) # 117 /\ ShortEscape(c) >= 32 /\ EscapedBy(ShortEscape(c)) = c
<1>1. /\ ShortEscape(34) = 34 /\ ShortEscape(92) = 92 /\ ShortEscape(8) = 98 /\ ShortEscape(12) = 102
      /\ ShortEscape(10) = 110 /\ ShortEscape(13) = 114 /\ ShortEscape(9) = 116
  BY DEF ShortEscape, Quote, Backslash
<1>2. HasShortEscape = {34, 92, 8, 12, 10, 13, 9}
  BY DEF HasShortEscape, Quote, Backslash
<1>3. \A e \in HasShortEscape : ShortEscape(e) = ShortEscape(c) => e = c
  BY <1>1, <1>2
<1>4. EscapedBy(ShortEscape(c)) \in HasShortEscape /\ ShortEscape(EscapedBy(ShortEscape(c))) = ShortEscape(c)
  BY DEF EscapedBy
<1>. QED BY <1>1, <1>2, <1>3, <1>4 DEF Char

\* A hexadecimal digit is read as it is written.
LEMMA HexCodeLaw ==
    ASSUME NEW n \in 0 .. 15
    PROVE  HexCode(n) \in Char /\ HexCode(n) >= 48 /\ HexCodeValue(HexCode(n)) = n
<1>1. \A m \in 0 .. 15 : HexCode(m) = HexCode(n) => m = n
  BY DEF HexCode
<1>2. HexCodeValue(HexCode(n)) \in 0 .. 15 /\ HexCode(HexCodeValue(HexCode(n))) = HexCode(n)
  BY DEF HexCodeValue
<1>3. HexCode(n) \in Char /\ HexCode(n) >= 48
  BY DEF HexCode, Char
<1>. QED BY <1>1, <1>2, <1>3

\* The piece a character is written as.
IsShort(c, p) == c \in HasShortEscape /\ p = <<Backslash, ShortEscape(c)>>
IsCode(c, p) == c \in 0 .. 31 /\ p = <<Backslash, 117, 48, 48, HexCode(c \div 16), HexCode(c % 16)>>
IsItself(c, p) == c >= 32 /\ c # Quote /\ c # Backslash /\ p = <<c>>
\* A character has a short escape, has a code or stands for itself.
LEMMA EscapeCharLaw ==
    ASSUME NEW c \in Char
    PROVE  IsShort(c, EscapeChar(c)) \/ IsCode(c, EscapeChar(c)) \/ IsItself(c, EscapeChar(c))
<1>1. CASE c \in HasShortEscape
  BY <1>1 DEF EscapeChar, IsShort
<1>2. CASE c < 32 /\ c \notin HasShortEscape
  <2>1. c \in 0 .. 31
    BY <1>2 DEF Char
  <2>. QED BY <1>2, <2>1 DEF EscapeChar, IsCode
<1>3. CASE ~(c < 32) /\ c \notin HasShortEscape
  <2>1. c >= 32 /\ c # Quote /\ c # Backslash
    BY <1>3 DEF Char, HasShortEscape
  <2>. QED BY <1>3, <2>1 DEF EscapeChar, IsItself
<1>. QED BY <1>1, <1>2, <1>3

\* What is written of a character holds no control character and no bare quote.
LEMMA PieceLaw ==
    ASSUME NEW c \in Char
    PROVE  LET p == EscapeChar(c)
           IN  /\ p \in Seq(Char) /\ Len(p) > 0
               /\ \A j \in 1 .. Len(p) : p[j] >= 32
               /\ \A j \in 1 .. Len(p) : p[j] = Quote => j > 1 /\ p[j - 1] = Backslash
<1> DEFINE p == EscapeChar(c)
<1>0. Backslash = 92 /\ Quote = 34
  BY DEF Backslash, Quote
<1>1. CASE IsShort(c, p)
  <2> DEFINE e == ShortEscape(c)
  <2>1. p = <<Backslash, e>> /\ e \in Char /\ e >= 32
    BY <1>1, EscapedByLaw DEF IsShort
  <2> HIDE DEF p, e
  <2>2. p \in Seq(Char) /\ Len(p) = 2 /\ p[1] = 92 /\ p[2] = e
    BY <1>0, <2>1 DEF Char
  <2>3. \A j \in 1 .. 2 : j = 1 \/ j = 2
    OBVIOUS
  <2>4. \A j \in 1 .. Len(p) : p[j] >= 32 /\ (p[j] = Quote => j > 1 /\ p[j - 1] = Backslash)
    <3> SUFFICES ASSUME NEW j \in 1 .. 2 PROVE p[j] >= 32 /\ (p[j] = Quote => j > 1 /\ p[j - 1] = Backslash)
      BY <2>2
    <3>1. CASE j = 1
      BY <1>0, <2>2, <3>1
    <3>2. CASE j = 2
      <4>1. j - 1 = 1
        BY <3>2
      <4>. QED BY <1>0, <2>1, <2>2, <3>2, <4>1
    <3>. QED BY <2>3, <3>1, <3>2
  <2>. QED BY <2>2, <2>4 DEF p
<1>2. CASE IsCode(c, p)
  <2> DEFINE a == HexCode(c \div 16)
             b == HexCode(c % 16)
  <2>1. c \div 16 \in 0 .. 15 /\ c % 16 \in 0 .. 15
    BY <1>2 DEF IsCode
  <2>2. p = <<Backslash, 117, 48, 48, a, b>> /\ a \in Char /\ a >= 48 /\ b \in Char /\ b >= 48
    BY <1>2, <2>1, HexCodeLaw DEF IsCode
  <2> HIDE DEF p, a, b
  <2>3. /\ p \in Seq(Char) /\ Len(p) = 6 /\ p[1] = 92 /\ p[2] = 117 /\ p[3] = 48 /\ p[4] = 48
        /\ p[5] = a /\ p[6] = b
    BY <1>0, <2>2 DEF Char
  <2>4. \A j \in 1 .. 6 : j = 1 \/ j = 2 \/ j = 3 \/ j = 4 \/ j = 5 \/ j = 6
    OBVIOUS
  <2>5. \A j \in 1 .. 6 : p[j] \in Char /\ p[j] >= 48
    <3>1. a \in 48 .. 255 /\ b \in 48 .. 255
      BY <2>2 DEF Char
    <3> DEFINE T == 48 .. 255
    <3>2. p[1] \in T /\ p[2] \in T /\ p[3] \in T /\ p[4] \in T /\ p[5] \in T /\ p[6] \in T
      BY <2>3, <3>1
    <3> HIDE DEF T
    <3>3. \A j \in 1 .. 6 : p[j] \in T
      BY <2>4, <3>2
    <3>. QED BY SMTT(30), <3>3 DEF Char, T
  <2>6. \A j \in 1 .. Len(p) : p[j] >= 32 /\ p[j] # Quote
    <3> SUFFICES ASSUME NEW j \in 1 .. 6 PROVE p[j] >= 32 /\ p[j] # Quote
      BY <2>3
    <3> DEFINE v == p[j]
    <3>1. v \in 0 .. 255 /\ v >= 48
      BY <2>5 DEF Char
    <3> HIDE DEF v
    <3>2. v >= 32 /\ v # Quote
      BY <1>0, <3>1
    <3>. QED BY <3>2 DEF v
  <2>. QED BY <2>3, <2>6 DEF p
<1>3. CASE IsItself(c, p)
  <2>1. p = <<c>> /\ c >= 32 /\ c # Quote
    BY <1>3 DEF IsItself
  <2> HIDE DEF p
  <2>2. p \in Seq(Char) /\ Len(p) = 1 /\ \A j \in 1 .. Len(p) : p[j] = c
    BY <2>1
  <2>. QED BY <2>1, <2>2 DEF p
<1>. QED BY <1>1, <1>2, <1>3, EscapeCharLaw

\* What a reader makes of a piece.
LEMMA ReadShort ==
    ASSUME NEW x, NEW c \in HasShortEscape
    PROVE  ReadJsonChar(ReadJsonChar(ReaderAt(x, <<>>), Backslash), ShortEscape(c)) = ReaderAt(Append(x, c), <<>>)
<1> DEFINE r0 == ReaderAt(x, <<>>)
           r1 == ReadJsonChar(r0, Backslash)
<1>1. <<>> \in Seq(Char) /\ Len(<<>>) # 5 /\ Append(<<>>, Backslash) = <<Backslash>> /\ <<>> # <<Backslash>>
  OBVIOUS
<1>2. ReadJsonChar(ReaderAt(x, <<>>), Backslash) = ReaderAt(x, Append(<<>>, Backslash))
  BY <1>1, ReadMore, Zenon
<1>3. r1 = ReaderAt(x, <<Backslash>>)
  BY <1>1, <1>2, Zenon
<1>4. ShortEscape(c) # 117 /\ EscapedBy(ShortEscape(c)) = c
  BY EscapedByLaw
<1>5. ReadJsonChar(ReaderAt(x, <<Backslash>>), ShortEscape(c)) = ReaderAt(Append(x, EscapedBy(ShortEscape(c))), <<>>)
  BY <1>4, ReadEscaped, Zenon
<1>. QED BY <1>3, <1>4, <1>5, Zenon

\* Short sequences, built one by one.
LEMMA Appended ==
    ASSUME NEW S, NEW a \in S, NEW b \in S, NEW c \in S, NEW d \in S, NEW e \in S
    PROVE  /\ Append(<<>>, a) = <<a>> /\ Append(<<a>>, b) = <<a, b>> /\ Append(<<a, b>>, c) = <<a, b, c>>
           /\ Append(<<a, b, c>>, d) = <<a, b, c, d>> /\ Append(<<a, b, c, d>>, e) = <<a, b, c, d, e>>
<1>0. \A q \in Seq(S), v \in S : /\ Append(q, v) \in Seq(S) /\ Len(Append(q, v)) = Len(q) + 1
                                 /\ \A j \in 1 .. Len(q) : Append(q, v)[j] = q[j]
                                 /\ Append(q, v)[Len(q) + 1] = v
  OBVIOUS
<1>1. Append(<<>>, a) = <<a>>
  OBVIOUS
<1>2. Append(<<a>>, b) = <<a, b>>
  <2> DEFINE q == <<a>>
             z == <<a, b>>
             y == Append(q, b)
  <2>1. q \in Seq(S) /\ Len(q) = 1 /\ z \in Seq(S) /\ Len(z) = 2
    OBVIOUS
  <2>2. q[1] = a /\ z[1] = a /\ z[2] = b
    OBVIOUS
  <2> HIDE DEF q, z, y
  <2>3. /\ y \in Seq(S) /\ Len(y) = 2 /\ \A j \in 1 .. 1 : y[j] = q[j]
        /\ y[2] = b
    <3>1. /\ y \in Seq(S) /\ Len(y) = Len(q) + 1 /\ \A j \in 1 .. Len(q) : y[j] = q[j]
          /\ y[Len(q) + 1] = b
      BY <1>0, <2>1 DEF y
    <3>. QED BY <2>1, <3>1
  <2>4. y[1] = q[1]
    BY <2>3
  <2>5. \A j \in 1 .. 2 : j = 1 \/ j = 2
    OBVIOUS
  <2>6. \A j \in 1 .. 2 : y[j] = z[j]
    BY <2>2, <2>3, <2>4, <2>5
  <2>7. y = z
    BY <2>1, <2>3, <2>6, SameSequence
  <2>. QED BY <2>7 DEF q, y, z
<1>3. Append(<<a, b>>, c) = <<a, b, c>>
  <2> DEFINE q == <<a, b>>
             z == <<a, b, c>>
             y == Append(q, c)
  <2>1. q \in Seq(S) /\ Len(q) = 2 /\ z \in Seq(S) /\ Len(z) = 3
    OBVIOUS
  <2>2. q[1] = a /\ q[2] = b /\ z[1] = a /\ z[2] = b /\ z[3] = c
    OBVIOUS
  <2> HIDE DEF q, z, y
  <2>3. /\ y \in Seq(S) /\ Len(y) = 3 /\ \A j \in 1 .. 2 : y[j] = q[j]
        /\ y[3] = c
    <3>1. /\ y \in Seq(S) /\ Len(y) = Len(q) + 1 /\ \A j \in 1 .. Len(q) : y[j] = q[j]
          /\ y[Len(q) + 1] = c
      BY <1>0, <2>1 DEF y
    <3>. QED BY <2>1, <3>1
  <2>4. y[1] = q[1] /\ y[2] = q[2]
    BY <2>3
  <2>5. \A j \in 1 .. 3 : j = 1 \/ j = 2 \/ j = 3
    OBVIOUS
  <2>6. \A j \in 1 .. 3 : y[j] = z[j]
    BY <2>2, <2>3, <2>4, <2>5
  <2>7. y = z
    BY <2>1, <2>3, <2>6, SameSequence
  <2>. QED BY <2>7 DEF q, y, z
<1>4. Append(<<a, b, c>>, d) = <<a, b, c, d>>
  <2> DEFINE q == <<a, b, c>>
             z == <<a, b, c, d>>
             y == Append(q, d)
  <2>1. q \in Seq(S) /\ Len(q) = 3 /\ z \in Seq(S) /\ Len(z) = 4
    OBVIOUS
  <2>2. q[1] = a /\ q[2] = b /\ q[3] = c /\ z[1] = a /\ z[2] = b /\ z[3] = c /\ z[4] = d
    OBVIOUS
  <2> HIDE DEF q, z, y
  <2>3. /\ y \in Seq(S) /\ Len(y) = 4 /\ \A j \in 1 .. 3 : y[j] = q[j]
        /\ y[4] = d
    <3>1. /\ y \in Seq(S) /\ Len(y) = Len(q) + 1 /\ \A j \in 1 .. Len(q) : y[j] = q[j]
          /\ y[Len(q) + 1] = d
      BY <1>0, <2>1 DEF y
    <3>. QED BY <2>1, <3>1
  <2>4. y[1] = q[1] /\ y[2] = q[2] /\ y[3] = q[3]
    BY <2>3
  <2>5. \A j \in 1 .. 4 : j = 1 \/ j = 2 \/ j = 3 \/ j = 4
    OBVIOUS
  <2>6. \A j \in 1 .. 4 : y[j] = z[j]
    BY <2>2, <2>3, <2>4, <2>5
  <2>7. y = z
    BY <2>1, <2>3, <2>6, SameSequence
  <2>. QED BY <2>7 DEF q, y, z
<1>5. Append(<<a, b, c, d>>, e) = <<a, b, c, d, e>>
  <2> DEFINE q == <<a, b, c, d>>
             z == <<a, b, c, d, e>>
             y == Append(q, e)
  <2>1. q \in Seq(S) /\ Len(q) = 4 /\ z \in Seq(S) /\ Len(z) = 5
    OBVIOUS
  <2>2. q[1] = a /\ q[2] = b /\ q[3] = c /\ q[4] = d /\ z[1] = a /\ z[2] = b /\ z[3] = c /\ z[4] = d /\ z[5] = e
    OBVIOUS
  <2> HIDE DEF q, z, y
  <2>3. /\ y \in Seq(S) /\ Len(y) = 5 /\ \A j \in 1 .. 4 : y[j] = q[j]
        /\ y[5] = e
    <3>1. /\ y \in Seq(S) /\ Len(y) = Len(q) + 1 /\ \A j \in 1 .. Len(q) : y[j] = q[j]
          /\ y[Len(q) + 1] = e
      BY <1>0, <2>1 DEF y
    <3>. QED BY <2>1, <3>1
  <2>4. y[1] = q[1] /\ y[2] = q[2] /\ y[3] = q[3] /\ y[4] = q[4]
    BY <2>3
  <2>5. \A j \in 1 .. 5 : j = 1 \/ j = 2 \/ j = 3 \/ j = 4 \/ j = 5
    OBVIOUS
  <2>6. \A j \in 1 .. 5 : y[j] = z[j]
    BY <2>2, <2>3, <2>4, <2>5
  <2>7. y = z
    BY <2>1, <2>3, <2>6, SameSequence
  <2>. QED BY <2>7 DEF q, y, z
<1>. QED BY <1>1, <1>2, <1>3, <1>4, <1>5

\* A code of four digits is read as the character it was written for.
LEMMA ReadCode ==
    ASSUME NEW x, NEW c \in 0 .. 31
    PROVE  ReadJsonChar(ReadJsonChar(ReadJsonChar(ReadJsonChar(ReadJsonChar(ReadJsonChar(
               ReaderAt(x, <<>>), Backslash), 117), 48), 48), HexCode(c \div 16)), HexCode(c % 16))
               = ReaderAt(Append(x, c), <<>>)
<1> DEFINE r0 == ReaderAt(x, <<>>)
           r1 == ReadJsonChar(r0, Backslash)
           r2 == ReadJsonChar(r1, 117)
           r3 == ReadJsonChar(r2, 48)
           r4 == ReadJsonChar(r3, 48)
           r5 == ReadJsonChar(r4, HexCode(c \div 16))
           r6 == ReadJsonChar(r5, HexCode(c % 16))
           a == HexCode(c \div 16)
           b == HexCode(c % 16)
           p0 == <<>>
           p1 == <<Backslash>>
           p2 == <<Backslash, 117>>
           p3 == <<Backslash, 117, 48>>
           p4 == <<Backslash, 117, 48, 48>>
           p5 == <<Backslash, 117, 48, 48, a>>
<1>1. c \div 16 \in 0 .. 15 /\ c % 16 \in 0 .. 15 /\ 16 * (c \div 16) + (c % 16) = c /\ 0 \in 0 .. 15
  OBVIOUS
<1>2. /\ a \in Char /\ HexCodeValue(a) = c \div 16
      /\ b \in Char /\ HexCodeValue(b) = c % 16
  BY <1>1, HexCodeLaw
<1>3. HexCodeValue(48) = 0
  <2>1. HexCode(0) = 48
    BY DEF HexCode
  <2>. QED BY <1>1, <2>1, HexCodeLaw
<1>4. Backslash \in Char /\ 117 \in Char /\ 48 \in Char /\ Backslash # 117
  BY DEF Char, Backslash
<1>r. /\ r1 = ReadJsonChar(r0, Backslash) /\ r2 = ReadJsonChar(r1, 117) /\ r3 = ReadJsonChar(r2, 48)
      /\ r4 = ReadJsonChar(r3, 48) /\ r5 = ReadJsonChar(r4, a) /\ r6 = ReadJsonChar(r5, b)
  OBVIOUS
<1> HIDE DEF a, b
<1>5. /\ p0 \in Seq(Char) /\ p1 \in Seq(Char) /\ p2 \in Seq(Char) /\ p3 \in Seq(Char)
      /\ p4 \in Seq(Char) /\ p5 \in Seq(Char)
  BY <1>2, <1>4
<1>6. /\ Len(p0) = 0 /\ Len(p1) = 1 /\ Len(p2) = 2 /\ Len(p3) = 3 /\ Len(p4) = 4 /\ Len(p5) = 5
  OBVIOUS
<1>y. /\ Len(p0) # 5 /\ Len(p1) # 5 /\ Len(p2) # 5 /\ Len(p3) # 5 /\ Len(p4) # 5
  BY <1>6
<1>7. /\ Append(p0, Backslash) = p1 /\ Append(p1, 117) = p2 /\ Append(p2, 48) = p3
      /\ Append(p3, 48) = p4 /\ Append(p4, a) = p5
  BY <1>2, <1>4, Appended
<1>8. p5[3] = 48 /\ p5[4] = 48 /\ p5[5] = a
  OBVIOUS
<1>9. /\ p0 # <<Backslash>> /\ p1 # <<>> /\ p2 # <<>> /\ p2 # <<Backslash>> /\ p3 # <<>>
      /\ p3 # <<Backslash>> /\ p4 # <<>> /\ p4 # <<Backslash>>
  BY <1>6
<1>10. CodePoint(p5, b) = c
  <2>1. CodePoint(p5, b) = 4096 * 0 + 256 * 0 + 16 * (c \div 16) + (c % 16)
    BY <1>2, <1>3, <1>8 DEF CodePoint
  <2>. QED BY <1>1, <2>1
<1>x. r0 = ReaderAt(x, p0)
  OBVIOUS
<1> HIDE DEF p0, p1, p2, p3, p4, p5, r0, r1, r2, r3, r4, r5, r6
<1>11. r1 = ReaderAt(x, p1)
  <2>1. ReadJsonChar(ReaderAt(x, p0), Backslash) = ReaderAt(x, Append(p0, Backslash))
    BY <1>5, <1>y, <1>9, ReadMore
  <2>. QED BY <1>7, <1>r, <1>x, <2>1
<1>12. r2 = ReaderAt(x, p2)
  <2>1. ReadJsonChar(ReaderAt(x, p1), 117) = ReaderAt(x, Append(p1, 117))
    BY <1>5, <1>y, <1>9, ReadMore
  <2>. QED BY <1>7, <1>r, <1>11, <2>1
<1>13. r3 = ReaderAt(x, p3)
  <2>1. ReadJsonChar(ReaderAt(x, p2), 48) = ReaderAt(x, Append(p2, 48))
    BY <1>5, <1>y, <1>9, ReadMore
  <2>. QED BY <1>7, <1>r, <1>12, <2>1
<1>14. r4 = ReaderAt(x, p4)
  <2>1. ReadJsonChar(ReaderAt(x, p3), 48) = ReaderAt(x, Append(p3, 48))
    BY <1>5, <1>y, <1>9, ReadMore
  <2>. QED BY <1>7, <1>r, <1>13, <2>1
<1>15. r5 = ReaderAt(x, p5)
  <2>1. ReadJsonChar(ReaderAt(x, p4), a) = ReaderAt(x, Append(p4, a))
    BY <1>5, <1>y, <1>9, ReadMore
  <2>. QED BY <1>7, <1>r, <1>14, <2>1
<1>16. r6 = ReaderAt(Append(x, CodePoint(p5, b)), <<>>)
  <2>1. ReadJsonChar(ReaderAt(x, p5), b) = ReaderAt(Append(x, CodePoint(p5, b)), <<>>)
    BY <1>5, <1>6, ReadLast
  <2>. QED BY <1>15, <1>r, <2>1
<1>. QED BY <1>10, <1>16 DEF r0, r1, r2, r3, r4, r5, r6

\* A reader that has read the characters before the k-th gets the k-th back.
LEMMA ReadsPiece ==
    ASSUME NEW x, NEW c \in Char, NEW r, NEW o \in Nat, NEW t,
           r[o] = ReaderAt(x, <<>>),
           \A j \in 1 .. Len(EscapeChar(c)) : /\ t[o + j] = EscapeChar(c)[j]
                                              /\ r[o + j] = ReadJsonChar(r[(o + j) - 1], t[o + j])
    PROVE  r[o + Len(EscapeChar(c))] = ReaderAt(Append(x, c), <<>>)
<1> DEFINE p == EscapeChar(c)
<1>0. \A j \in 1 .. Len(p) : r[o + j] = ReadJsonChar(r[(o + j) - 1], p[j])
  OBVIOUS
<1>a. o + 0 = o
  OBVIOUS
<1>1. CASE IsShort(c, p)
  <2>1. p = <<Backslash, ShortEscape(c)>> /\ c \in HasShortEscape
    BY <1>1 DEF IsShort
  <2> HIDE DEF p
  <2>2. Len(p) = 2 /\ p[1] = Backslash /\ p[2] = ShortEscape(c)
    BY <2>1
  <2>3. 1 \in 1 .. 2 /\ 2 \in 1 .. 2 /\ (o + 1) - 1 = o /\ (o + 2) - 1 = o + 1
    OBVIOUS
  <2>4. r[o + 1] = ReadJsonChar(r[o], Backslash) /\ r[o + 2] = ReadJsonChar(r[o + 1], ShortEscape(c))
    BY <1>0, <2>2, <2>3
  <2>5. r[o + 2] = ReaderAt(Append(x, c), <<>>)
    BY <2>1, <2>4, ReadShort
  <2>. QED BY <2>2, <2>5 DEF p
<1>2. CASE IsCode(c, p)
  <2>1. /\ p = <<Backslash, 117, 48, 48, HexCode(c \div 16), HexCode(c % 16)>> /\ c \in 0 .. 31
    BY <1>2 DEF IsCode
  <2> DEFINE a == HexCode(c \div 16)
             b == HexCode(c % 16)
  <2> HIDE DEF p, a, b
  <2>2. /\ Len(p) = 6 /\ p[1] = Backslash /\ p[2] = 117 /\ p[3] = 48 /\ p[4] = 48
        /\ p[5] = a /\ p[6] = b
    BY <2>1 DEF a, b
  <2>3. /\ 1 \in 1 .. 6 /\ 2 \in 1 .. 6 /\ 3 \in 1 .. 6 /\ 4 \in 1 .. 6 /\ 5 \in 1 .. 6 /\ 6 \in 1 .. 6
        /\ (o + 1) - 1 = o /\ (o + 2) - 1 = o + 1 /\ (o + 3) - 1 = o + 2
        /\ (o + 4) - 1 = o + 3 /\ (o + 5) - 1 = o + 4 /\ (o + 6) - 1 = o + 5
    OBVIOUS
  <2>4. \A j \in 1 .. 6 : r[o + j] = ReadJsonChar(r[(o + j) - 1], p[j])
    BY <1>0, <2>2
  <2>5. /\ r[o + 1] = ReadJsonChar(r[o], Backslash) /\ r[o + 2] = ReadJsonChar(r[o + 1], 117)
        /\ r[o + 3] = ReadJsonChar(r[o + 2], 48)
    BY <2>2, <2>3, <2>4
  <2>6. /\ r[o + 4] = ReadJsonChar(r[o + 3], 48)
        /\ r[o + 5] = ReadJsonChar(r[o + 4], a) /\ r[o + 6] = ReadJsonChar(r[o + 5], b)
    BY <2>2, <2>3, <2>4
  <2>7. r[o + 6] = ReaderAt(Append(x, c), <<>>)
    <3>1. ReadJsonChar(ReadJsonChar(ReadJsonChar(ReadJsonChar(ReadJsonChar(ReadJsonChar(
              ReaderAt(x, <<>>), Backslash), 117), 48), 48), a), b) = ReaderAt(Append(x, c), <<>>)
      BY <2>1, ReadCode DEF a, b
    <3>. QED BY <2>5, <2>6, <3>1
  <2>. QED BY <2>2, <2>7 DEF p
<1>3. CASE IsItself(c, p)
  <2>1. p = <<c>> /\ c # Backslash
    BY <1>3 DEF IsItself
  <2> HIDE DEF p
  <2>2. Len(p) = 1 /\ p[1] = c /\ 1 \in 1 .. 1 /\ (o + 1) - 1 = o
    BY <2>1
  <2>3. r[o + 1] = ReadJsonChar(r[o], c)
    BY <1>0, <2>2
  <2>4. r[o + 1] = ReaderAt(Append(x, c), <<>>)
    BY <2>1, <2>3, ReadPlain
  <2>. QED BY <2>2, <2>4 DEF p
<1>. QED BY <1>1, <1>2, <1>3, EscapeCharLaw

\* The beginning of a sequence, one element longer.
LEMMA PrefixGrows ==
    ASSUME NEW S, NEW s \in Seq(S), NEW k \in 1 .. Len(s)
    PROVE  Append(SubSeq(s, 1, k - 1), s[k]) = SubSeq(s, 1, k)
<1> DEFINE a == SubSeq(s, 1, k - 1)
           b == SubSeq(s, 1, k)
           c == Append(a, s[k])
<1>0. k - 1 \in Nat /\ k \in Nat /\ k - 1 <= Len(s) /\ k <= Len(s) /\ s[k] \in S
  OBVIOUS
<1>1. a \in Seq(S) /\ Len(a) = k - 1 /\ \A j \in 1 .. k - 1 : a[j] = s[j]
  BY <1>0, PrefixLaw
<1>2. b \in Seq(S) /\ Len(b) = k /\ \A j \in 1 .. k : b[j] = s[j]
  BY <1>0, PrefixLaw
<1> HIDE DEF a, b
<1>3. /\ c \in Seq(S) /\ Len(c) = k /\ \A j \in 1 .. k - 1 : c[j] = a[j]
      /\ c[k] = s[k]
  <2>1. /\ c \in Seq(S) /\ Len(c) = Len(a) + 1 /\ \A j \in 1 .. Len(a) : c[j] = a[j]
        /\ c[Len(a) + 1] = s[k]
    BY <1>0, <1>1
  <2>2. Len(a) + 1 = k
    BY <1>0, <1>1
  <2> HIDE DEF c
  <2>. QED BY <1>1, <2>1, <2>2
<1> HIDE DEF c
<1>4. \A j \in 1 .. Len(c) : c[j] = b[j]
  <2> SUFFICES ASSUME NEW j \in 1 .. k PROVE c[j] = b[j]
    BY <1>3
  <2>1. CASE j = k
    BY <1>2, <1>3, <2>1
  <2>2. CASE j # k
    <3>1. j \in 1 .. k - 1
      BY <1>0, <2>2
    <3>. QED BY <1>1, <1>2, <1>3, <3>1
  <2>. QED BY <2>1, <2>2
<1>5. c = b
  BY <1>2, <1>3, <1>4, SameSequence
<1>. QED BY <1>5 DEF a, b, c

\* Every text is escaped by jsonEscape() so that a reader of JSON gets it back.
THEOREM JsonEscapesAreReversible == JsonEscapeIsReversible
<1> SUFFICES ASSUME NEW s \in Texts
             PROVE  /\ \A n \in DOMAIN JsonEscape(s) : JsonEscape(s)[n] >= 32
                    /\ \A n \in DOMAIN JsonEscape(s) :
                          JsonEscape(s)[n] = Quote => n > 1 /\ JsonEscape(s)[n - 1] = Backslash
                    /\ JsonString(JsonEscape(s))[Len(JsonEscape(s))] = [plain |-> s, pending |-> <<>>]
  BY DEF JsonEscapeIsReversible
<1> DEFINE N == Len(s)
           seqs == [n \in DOMAIN s |-> EscapeChar(s[n])]
           whole == JsonEscape(s)
<1>0. s \in Seq(Char) /\ N \in Nat /\ DOMAIN s = 1 .. N
  BY StatusAssumption DEF Char
<1>1. \A k \in 1 .. N : s[k] \in Char
  BY <1>0
<1>2. ASSUME NEW k \in 1 .. N
      PROVE  /\ EscapeChar(s[k]) \in Seq(Char)
             /\ \A j \in 1 .. Len(EscapeChar(s[k])) : EscapeChar(s[k])[j] >= 32
             /\ \A j \in 1 .. Len(EscapeChar(s[k])) :
                   EscapeChar(s[k])[j] = Quote => j > 1 /\ EscapeChar(s[k])[j - 1] = Backslash
  BY <1>1, PieceLaw
<1>3. seqs \in Seq(Seq(Char)) /\ Len(seqs) = N /\ \A k \in 1 .. N : seqs[k] = EscapeChar(s[k])
  <2> DEFINE T == Seq(Char)
  <2>1. \A k \in 1 .. N : EscapeChar(s[k]) \in T
    BY <1>2
  <2> HIDE DEF T
  <2>2. seqs \in Seq(T) /\ Len(seqs) = N /\ \A k \in 1 .. N : seqs[k] = EscapeChar(s[k])
    BY <1>0, <2>1
  <2>. QED BY <2>2 DEF T
<1>4. whole = FlattenSeq(seqs)
  BY DEF JsonEscape
<1> HIDE DEF seqs, whole
<1>5. whole \in Seq(Char) /\ \E pos : IsPlaced(pos, seqs, whole)
  BY <1>3, <1>4, FlattenPlaces
<1>6. PICK pos : IsPlaced(pos, seqs, whole)
  BY <1>5
<1> DEFINE p(k) == EscapeChar(s[k])
<1>7. /\ pos \in [0 .. N -> Nat] /\ pos[0] = 0 /\ pos[N] = Len(whole)
      /\ \A k \in 1 .. N :
            /\ pos[k] = pos[k - 1] + Len(p(k)) /\ pos[k] <= Len(whole)
            /\ \A j \in 1 .. Len(p(k)) : whole[pos[k - 1] + j] = p(k)[j]
      /\ \A m \in 1 .. Len(whole) : \E k \in 1 .. N : m - pos[k - 1] \in 1 .. Len(p(k))
  <2> HIDE DEF p
  <2>1. \A k \in 1 .. N : seqs[k] = p(k)
    BY <1>3 DEF p
  <2>2. /\ pos \in [0 .. N -> Nat] /\ pos[0] = 0 /\ pos[N] = Len(whole)
    BY <1>3, <1>6 DEF IsPlaced
  <2>3. \A k \in 1 .. N :
            /\ pos[k] = pos[k - 1] + Len(seqs[k]) /\ pos[k] <= Len(whole)
            /\ \A j \in 1 .. Len(seqs[k]) : whole[pos[k - 1] + j] = seqs[k][j]
    BY <1>3, <1>6 DEF IsPlaced
  <2>4. \A m \in 1 .. Len(whole) : \E k \in 1 .. N : m - pos[k - 1] \in 1 .. Len(seqs[k])
    BY <1>3, <1>6 DEF IsPlaced
  <2>. QED BY <2>1, <2>2, <2>3, <2>4
<1>a. pos \in [0 .. N -> Nat] /\ pos[0] = 0
  BY <1>7
<1>8. Len(whole) \in Nat /\ DOMAIN whole = 1 .. Len(whole)
  BY <1>5
<1>9. ASSUME NEW n \in DOMAIN whole
      PROVE  whole[n] >= 32 /\ (whole[n] = Quote => n > 1 /\ whole[n - 1] = Backslash)
  <2>1. PICK k \in 1 .. N : n - pos[k - 1] \in 1 .. Len(p(k))
    BY <1>7, <1>8
  <2> DEFINE j == n - pos[k - 1]
             o == pos[k - 1]
  <2>2. k - 1 \in 0 .. N /\ o \in Nat
    <3>1. k - 1 \in 0 .. N
      BY <1>0
    <3>. QED BY <1>a, <3>1
  <2>3. n \in Nat /\ j \in 1 .. Len(p(k)) /\ o + j = n
    BY <1>8, <2>1, <2>2
  <2>4. Len(p(k)) \in Nat
    BY <1>2
  <2>5. whole[o + j] = p(k)[j]
    BY <1>7, <2>3
  <2> HIDE DEF j, o
  <2>6. p(k)[j] >= 32 /\ (p(k)[j] = Quote => j > 1 /\ p(k)[j - 1] = Backslash)
    BY <1>2, <2>3
  <2>7. j > 1 => n > 1 /\ j - 1 \in 1 .. Len(p(k)) /\ o + (j - 1) = n - 1
    BY <2>2, <2>3, <2>4
  <2>8. j > 1 => whole[n - 1] = p(k)[j - 1]
    <3>1. j > 1 => whole[o + (j - 1)] = p(k)[j - 1]
      BY <1>7, <2>7 DEF o
    <3>. QED BY <2>7, <3>1
  <2>. QED BY <2>3, <2>5, <2>6, <2>7, <2>8
<1> DEFINE r == JsonString(whole)
<1>10. /\ r[0] = ReaderAt(<<>>, <<>>)
       /\ \A n \in 1 .. Len(whole) : r[n] = ReadJsonChar(r[n - 1], whole[n])
  BY <1>5, JsonStringLaw DEF ReaderAt
<1> HIDE DEF r, N
<1> DEFINE G == {k \in 0 .. N : r[pos[k]] = ReaderAt(SubSeq(s, 1, k), <<>>)}
<1>11. \A k \in 0 .. N : k \in G
  <2>1. 0 \in G
    <3>1. SubSeq(s, 1, 0) = <<>>
      BY <1>0
    <3>2. 0 \in 0 .. N
      BY <1>0
    <3>. QED BY <1>a, <1>10, <3>1, <3>2
  <2>2. ASSUME NEW k \in 1 .. N, k - 1 \in G PROVE k \in G
    <3> DEFINE o == pos[k - 1]
               x == SubSeq(s, 1, k - 1)
               c == s[k]
    <3>1. k - 1 \in 0 .. N /\ o \in Nat /\ c \in Char /\ k \in 0 .. N
      BY <1>0, <1>1, <1>7
    <3>2. r[o] = ReaderAt(x, <<>>)
      BY <2>2
    <3>3. Len(EscapeChar(c)) \in Nat
      BY <1>2
    <3>4. pos[k] = o + Len(EscapeChar(c)) /\ pos[k] <= Len(whole)
      BY <1>7
    <3>5. ASSUME NEW j \in 1 .. Len(EscapeChar(c))
          PROVE  whole[o + j] = EscapeChar(c)[j] /\ r[o + j] = ReadJsonChar(r[(o + j) - 1], whole[o + j])
      <4>1. whole[o + j] = EscapeChar(c)[j]
        BY <1>7
      <4>2. o + j \in 1 .. Len(whole)
        <5> HIDE DEF o, c
        <5>. QED BY <1>8, <3>1, <3>3, <3>4
      <4>3. r[o + j] = ReadJsonChar(r[(o + j) - 1], whole[o + j])
        BY <1>10, <4>2
      <4>. QED BY <4>1, <4>3
    <3>6. Append(x, c) = SubSeq(s, 1, k)
      BY <1>0, PrefixGrows DEF N
    <3> HIDE DEF o, x, c
    <3>7. r[o + Len(EscapeChar(c))] = ReaderAt(Append(x, c), <<>>)
      BY ZenonT(30), <3>1, <3>2, <3>5, ReadsPiece
    <3>. QED BY <3>1, <3>4, <3>6, <3>7
  <2> HIDE DEF G
  <2>. QED BY <1>0, <2>1, <2>2, InductionUpTo
<1>12. r[Len(whole)] = ReaderAt(s, <<>>)
  <2>1. N \in 0 .. N /\ SubSeq(s, 1, N) = s
    BY <1>0 DEF N
  <2>. QED BY <1>7, <1>11, <2>1
<1>. QED BY <1>9, <1>12 DEF whole, r, ReaderAt

-----------------------------------------------------------------------------
(* The document.                                                           *)

Token == {"open", "close", "comma", "name"} \cup Value

\* Braces count, other tokens do not.
LEMMA OpenedLaw ==
    /\ Opened("open") = 1 /\ Opened("close") = -1 /\ \A t \in Token : Opened(t) \in Int
    /\ \A t : t # "open" /\ t # "close" => Opened(t) = 0
BY DEF Opened

\* How many objects are open after n tokens.
LEMMA DepthLaw ==
    ASSUME NEW s \in Seq(Token)
    PROVE  /\ Depth(s)[0] = 0
           /\ \A n \in 0 .. Len(s) : Depth(s)[n] \in Int
           /\ \A n \in 1 .. Len(s) : Depth(s)[n] = Depth(s)[n - 1] + Opened(s[n])
<1> DEFINE N == Len(s)
           step == [k \in 1 .. N |-> [x \in Int |-> x + Opened(s[k])]]
           depth[n \in 0 .. N] == IF n = 0 THEN 0 ELSE depth[n - 1] + Opened(s[n])
<1>1. Depth(s) = depth
  BY DEF Depth
<1> HIDE DEF depth
<1>2. N \in Nat /\ 0 \in Int
  OBVIOUS
<1>3. ASSUME NEW k \in 1 .. N, NEW x \in Int PROVE x + Opened(s[k]) \in Int
  BY OpenedLaw
<1> HIDE DEF N
<1>4. step \in StepsIn(Int, N)
  BY <1>3 DEF StepsIn
<1>5. PICK f \in RunsIn(Int, N) : IsRecursive(f, 0, N, step)
  <2> HIDE DEF step
  <2>. QED BY <1>2, <1>4, RecursionExists
<1>6. f \in [0 .. N -> Int] /\ f[0] = 0
  BY <1>5 DEF RunsIn, IsRecursive
<1>7. ASSUME NEW n \in 1 .. N PROVE f[n] = f[n - 1] + Opened(s[n])
  <2>1. n - 1 \in 0 .. N
    BY <1>2
  <2>2. f[n - 1] \in Int
    BY <1>6, <2>1
  <2>3. f[n] = step[n][f[n - 1]]
    BY <1>5 DEF IsRecursive
  <2>. QED BY <2>2, <2>3
<1> HIDE DEF step
<1>8. depth = [n \in 0 .. N |-> IF n = 0 THEN 0 ELSE depth[n - 1] + Opened(s[n])]
  <2>1. \A n \in 0 .. N : f[n] = IF n = 0 THEN 0 ELSE f[n - 1] + Opened(s[n])
    BY <1>2, <1>6, <1>7
  <2>2. f = [n \in 0 .. N |-> IF n = 0 THEN 0 ELSE f[n - 1] + Opened(s[n])]
    BY <1>6, <2>1
  <2>. QED BY <2>2 DEF depth
<1>9. ASSUME NEW n \in 1 .. N PROVE depth[n] = depth[n - 1] + Opened(s[n])
  <2>1. n \in 0 .. N /\ n # 0
    BY <1>2
  <2>. QED BY <1>8, <2>1
<1>10. depth[0] = 0
  BY <1>2, <1>8
<1> DEFINE G == {n \in 0 .. N : depth[n] \in Int}
<1>11. \A n \in 0 .. N : n \in G
  <2>1. 0 \in G
    BY <1>2, <1>10
  <2>2. ASSUME NEW n \in 1 .. N, n - 1 \in G PROVE n \in G
    <3>1. n \in 0 .. N
      BY <1>2
    <3>2. depth[n - 1] \in Int
      BY <2>2
    <3>3. depth[n] \in Int
      BY <1>3, <1>9, <3>2
    <3>. QED BY <3>1, <3>3
  <2> HIDE DEF G
  <2>. QED BY <1>2, <2>1, <2>2, InductionUpTo
<1>. QED BY <1>1, <1>9, <1>10, <1>11 DEF N

\* The depth in a document of two parts.
LEMMA DepthConcat ==
    ASSUME NEW a \in Seq(Token), NEW b \in Seq(Token)
    PROVE  /\ \A n \in 0 .. Len(a) : Depth(a \o b)[n] = Depth(a)[n]
           /\ \A n \in 0 .. Len(b) : Depth(a \o b)[Len(a) + n] = Depth(a)[Len(a)] + Depth(b)[n]
<1> DEFINE c == a \o b
           A == Len(a)
           B == Len(b)
           da == Depth(a)
           db == Depth(b)
           dc == Depth(c)
<1>1. /\ c \in Seq(Token) /\ A \in Nat /\ B \in Nat /\ Len(c) = A + B
      /\ \A j \in 1 .. A : c[j] = a[j]
      /\ \A j \in 1 .. B : c[A + j] = b[j]
  BY ConcatLaw
<1> HIDE DEF c
<1>2. /\ da[0] = 0 /\ \A n \in 0 .. A : da[n] \in Int
      /\ \A n \in 1 .. A : da[n] = da[n - 1] + Opened(a[n])
  BY DepthLaw
<1>3. /\ db[0] = 0 /\ \A n \in 0 .. B : db[n] \in Int
      /\ \A n \in 1 .. B : db[n] = db[n - 1] + Opened(b[n])
  BY DepthLaw
<1>4. /\ dc[0] = 0 /\ \A n \in 0 .. A + B : dc[n] \in Int
      /\ \A n \in 1 .. A + B : dc[n] = dc[n - 1] + Opened(c[n])
  <2>1. /\ dc[0] = 0 /\ \A n \in 0 .. Len(c) : dc[n] \in Int
        /\ \A n \in 1 .. Len(c) : dc[n] = dc[n - 1] + Opened(c[n])
    BY <1>1, DepthLaw
  <2> HIDE DEF A, B, dc
  <2>. QED BY <1>1, <2>1
<1>5. \A n \in 1 .. B : Opened(b[n]) \in Int
  BY OpenedLaw
<1> HIDE DEF A, B, da, db, dc
<1> DEFINE G == {n \in 0 .. A : dc[n] = da[n]}
<1>6. \A n \in 0 .. A : n \in G
  <2>1. 0 \in G
    BY <1>1, <1>2, <1>4
  <2>2. ASSUME NEW n \in 1 .. A, n - 1 \in G PROVE n \in G
    <3>1. n \in 0 .. A /\ n \in 1 .. A + B
      BY <1>1
    <3>2. dc[n - 1] = da[n - 1]
      BY <2>2
    <3>3. dc[n] = dc[n - 1] + Opened(c[n]) /\ da[n] = da[n - 1] + Opened(a[n]) /\ c[n] = a[n]
      BY <1>1, <1>2, <1>4, <3>1
    <3>4. dc[n] = da[n]
      BY <3>2, <3>3
    <3>. QED BY <3>1, <3>4
  <2> HIDE DEF G
  <2>. QED BY <1>1, <2>1, <2>2, InductionUpTo
<1> DEFINE H == {n \in 0 .. B : dc[A + n] = da[A] + db[n]}
<1>7. \A n \in 0 .. B : n \in H
  <2>0. A \in 0 .. A /\ dc[A] = da[A] /\ da[A] \in Int
    BY <1>1, <1>2, <1>6
  <2>1. 0 \in H
    <3>1. A + 0 = A /\ da[A] + 0 = da[A] /\ 0 \in 0 .. B
      BY <1>1, <2>0
    <3>. QED BY <1>3, <2>0, <3>1
  <2>2. ASSUME NEW n \in 1 .. B, n - 1 \in H PROVE n \in H
    <3>1. n \in 0 .. B /\ n - 1 \in 0 .. B /\ A + n \in 1 .. A + B /\ (A + n) - 1 = A + (n - 1)
      BY <1>1
    <3>2. dc[A + (n - 1)] = da[A] + db[n - 1]
      BY <2>2
    <3>3. dc[A + n] = dc[(A + n) - 1] + Opened(c[A + n])
      BY <1>4, <3>1
    <3>4. db[n] = db[n - 1] + Opened(b[n]) /\ c[A + n] = b[n] /\ db[n - 1] \in Int /\ Opened(b[n]) \in Int
      BY <1>1, <1>3, <1>5, <3>1
    <3>5. dc[A + n] = (da[A] + db[n - 1]) + Opened(b[n])
      BY <3>1, <3>2, <3>3, <3>4
    <3>6. (da[A] + db[n - 1]) + Opened(b[n]) = da[A] + (db[n - 1] + Opened(b[n]))
      BY <2>0, <3>4
    <3>7. dc[A + n] = da[A] + db[n]
      BY <3>4, <3>5, <3>6
    <3>. QED BY <3>1, <3>7
  <2> HIDE DEF H
  <2>. QED BY <1>1, <2>1, <2>2, InductionUpTo
<1>8. (\A n \in 0 .. A : dc[n] = da[n]) /\ (\A n \in 0 .. B : dc[A + n] = da[A] + db[n])
  BY <1>6, <1>7
<1>. QED BY <1>8 DEF A, B, da, db, dc, c

\* A part of a document that closes the objects it opens and no others, whose
\* tokens may follow each other, and which begins and ends with given tokens.
IsBlock(a, firsts, lasts) ==
    /\ a \in Seq(Token) /\ Len(a) > 0 /\ a[1] \in firsts /\ a[Len(a)] \in lasts
    /\ \A n \in 2 .. Len(a) : <<a[n - 1], a[n]>> \in Follows
    /\ \A n \in 0 .. Len(a) : Depth(a)[n] >= 0
    /\ Depth(a)[Len(a)] = 0

\* A token that is no brace.
LEMMA TokenIsBlock ==
    ASSUME NEW t \in Token, t # "open", t # "close"
    PROVE  IsBlock(<<t>>, {t}, {t})
<1> DEFINE a == <<t>>
<1>1. a \in Seq(Token) /\ Len(a) = 1 /\ a[1] = t
  OBVIOUS
<1> HIDE DEF a
<1>2. Depth(a)[0] = 0 /\ \A n \in 1 .. 1 : Depth(a)[n] = Depth(a)[n - 1] + Opened(a[n])
  BY <1>1, DepthLaw
<1>3. Opened(t) = 0
  BY OpenedLaw
<1>4. Depth(a)[1] = 0
  <2>1. Depth(a)[1] = Depth(a)[1 - 1] + Opened(a[1])
    BY <1>2
  <2>. QED BY <1>1, <1>2, <1>3, <2>1
<1>5. \A n \in 0 .. 1 : Depth(a)[n] >= 0
  <2>1. \A n \in 0 .. 1 : n = 0 \/ n = 1
    OBVIOUS
  <2>. QED BY <1>2, <1>4, <2>1
<1>6. ~ \E n \in 2 .. 1 : TRUE
  OBVIOUS
<1>7. IsBlock(a, {t}, {t})
  BY <1>1, <1>4, <1>5, <1>6 DEF IsBlock
<1>. QED BY <1>7 DEF a

\* One part behind the other, if the second may follow the first.
LEMMA BlocksJoin ==
    ASSUME NEW a, NEW b, NEW F, NEW L, NEW G, NEW M, IsBlock(a, F, L), IsBlock(b, G, M),
           \A x \in L, y \in G : <<x, y>> \in Follows
    PROVE  IsBlock(a \o b, F, M)
<1> DEFINE c == a \o b
           A == Len(a)
           B == Len(b)
<1>a. a \in Seq(Token) /\ b \in Seq(Token)
  BY DEF IsBlock
<1>1. /\ c \in Seq(Token) /\ A \in Nat /\ B \in Nat /\ Len(c) = A + B
      /\ \A j \in 1 .. A : c[j] = a[j]
      /\ \A j \in 1 .. B : c[A + j] = b[j]
  BY <1>a, ConcatLaw
<1>2. /\ \A n \in 0 .. A : Depth(c)[n] = Depth(a)[n]
      /\ \A n \in 0 .. B : Depth(c)[A + n] = Depth(a)[A] + Depth(b)[n]
  BY <1>a, DepthConcat
<1>3. /\ A > 0 /\ a[1] \in F /\ a[A] \in L /\ Depth(a)[A] = 0
      /\ \A n \in 2 .. A : <<a[n - 1], a[n]>> \in Follows
      /\ \A n \in 0 .. A : Depth(a)[n] >= 0
  BY DEF IsBlock
<1>4. /\ B > 0 /\ b[1] \in G /\ b[B] \in M /\ Depth(b)[B] = 0
      /\ \A n \in 2 .. B : <<b[n - 1], b[n]>> \in Follows
      /\ \A n \in 0 .. B : Depth(b)[n] >= 0
  BY DEF IsBlock
<1>5. \A n \in 0 .. B : Depth(b)[n] \in Int
  BY <1>a, DepthLaw
<1> HIDE DEF c, A, B
<1>6. c[1] \in F /\ c[A + B] \in M /\ A + B > 0
  <2>1. 1 \in 1 .. A /\ B \in 1 .. B /\ A + B > 0
    BY <1>1, <1>3, <1>4
  <2>. QED BY <1>1, <1>3, <1>4, <2>1
<1>7. ASSUME NEW n \in 2 .. A + B PROVE <<c[n - 1], c[n]>> \in Follows
  <2>1. CASE n <= A
    <3>1. n \in 2 .. A /\ n \in 1 .. A /\ n - 1 \in 1 .. A
      BY <1>1, <2>1
    <3>. QED BY <1>1, <1>3, <3>1
  <2>2. CASE n = A + 1
    <3>1. n - 1 = A /\ A \in 1 .. A /\ 1 \in 1 .. B
      BY <1>1, <1>3, <1>4, <2>2
    <3>2. c[n - 1] = a[A] /\ c[A + 1] = b[1]
      BY <1>1, <3>1
    <3>. QED BY <1>3, <1>4, <2>2, <3>2
  <2>3. CASE n > A + 1
    <3> DEFINE m == n - A
    <3>1. m \in 2 .. B /\ m \in 1 .. B /\ m - 1 \in 1 .. B /\ A + m = n /\ A + (m - 1) = n - 1
      BY <1>1, <2>3
    <3> HIDE DEF m
    <3>2. c[n] = b[m] /\ c[n - 1] = b[m - 1]
      <4>1. c[A + m] = b[m] /\ c[A + (m - 1)] = b[m - 1]
        BY <1>1, <3>1
      <4>. QED BY <3>1, <4>1
    <3>. QED BY <1>4, <3>1, <3>2
  <2>. QED BY <1>1, <2>1, <2>2, <2>3
<1>8. ASSUME NEW n \in 0 .. A + B PROVE Depth(c)[n] >= 0
  <2>1. CASE n <= A
    <3>1. n \in 0 .. A
      BY <1>1, <2>1
    <3>. QED BY <1>2, <1>3, <3>1
  <2>2. CASE n > A
    <3> DEFINE m == n - A
    <3>1. m \in 0 .. B /\ A + m = n
      BY <1>1, <2>2
    <3> HIDE DEF m
    <3>2. Depth(c)[A + m] = 0 + Depth(b)[m] /\ Depth(b)[m] \in Int /\ Depth(b)[m] >= 0
      BY <1>2, <1>3, <1>4, <1>5, <3>1
    <3>3. Depth(c)[n] = 0 + Depth(b)[m]
      BY <3>1, <3>2
    <3>. QED BY <3>2, <3>3
  <2>. QED BY <1>1, <2>1, <2>2
<1>9. Depth(c)[A + B] = 0
  <2>1. B \in 0 .. B
    BY <1>1
  <2>2. Depth(c)[A + B] = 0 + 0
    BY <1>2, <1>3, <1>4, <2>1
  <2>. QED BY <2>2
<1>10. IsBlock(c, F, M)
  BY <1>1, <1>6, <1>7, <1>8, <1>9 DEF IsBlock
<1>. QED BY <1>10 DEF c

\* What may begin and end what is written: a member, a value, a comma.
NameOnly == {"name"}
Ended == Value \cup {"close"}
Comma == {"comma"}
Begun == Value \cup {"open"}

\* What may follow what, for the kinds of tokens that begin and end a block.
LEMMA FollowsLaw ==
    /\ \A x \in Ended, y \in Comma : <<x, y>> \in Follows
    /\ \A x \in Comma, y \in NameOnly : <<x, y>> \in Follows
    /\ \A x \in NameOnly, y \in Begun : <<x, y>> \in Follows
    /\ \A y \in NameOnly : <<"open", y>> \in Follows
    /\ \A x \in Ended : <<x, "close">> \in Follows
    /\ <<"open", "close">> \in Follows
BY DEF Follows, Ended, Comma, NameOnly, Begun

\* A block may be said to begin and end with less than is known.
LEMMA BlocksWiden ==
    ASSUME NEW a, NEW F, NEW L, NEW G, NEW M, IsBlock(a, F, L), F \subseteq G, L \subseteq M
    PROVE  IsBlock(a, G, M)
BY DEF IsBlock

\* An object, with members or without, is JSON.
LEMMA ObjectIsJson ==
    ASSUME NEW m, IsBlock(m, NameOnly, Ended) \/ m = <<>>
    PROVE  IsJson(JsonObject(m)) /\ IsBlock(JsonObject(m), Begun, Ended)
<1> DEFINE a == <<"open">>
           b == a \o m
           e == <<"close">>
           c == b \o e
           N == Len(m)
<1>1. JsonObject(m) = c
  BY DEF JsonObject
<1>2. /\ a \in Seq(Token) /\ Len(a) = 1 /\ a[1] = "open" /\ e \in Seq(Token) /\ Len(e) = 1 /\ e[1] = "close"
  BY DEF Token
<1>3. m \in Seq(Token) /\ N \in Nat
  <2>1. CASE m = <<>>
    BY <2>1
  <2>2. CASE IsBlock(m, NameOnly, Ended)
    BY <2>2 DEF IsBlock
  <2>. QED BY <2>1, <2>2
<1> HIDE DEF a, e
<1>4. /\ b \in Seq(Token) /\ Len(b) = 1 + N /\ b[1] = "open" /\ \A j \in 1 .. N : b[1 + j] = m[j]
  <2>1. /\ b \in Seq(Token) /\ Len(b) = Len(a) + Len(m)
        /\ \A j \in 1 .. Len(a) : b[j] = a[j]
        /\ \A j \in 1 .. Len(m) : b[Len(a) + j] = m[j]
    BY <1>2, <1>3, ConcatLaw
  <2> HIDE DEF b
  <2>2. 1 \in 1 .. 1
    OBVIOUS
  <2>. QED BY <1>2, <2>1, <2>2
<1>5. /\ \A n \in 0 .. 1 : Depth(b)[n] = Depth(a)[n]
      /\ \A n \in 0 .. N : Depth(b)[1 + n] = Depth(a)[1] + Depth(m)[n]
  <2>1. /\ \A n \in 0 .. Len(a) : Depth(b)[n] = Depth(a)[n]
        /\ \A n \in 0 .. Len(m) : Depth(b)[Len(a) + n] = Depth(a)[Len(a)] + Depth(m)[n]
    BY <1>2, <1>3, DepthConcat
  <2> HIDE DEF b
  <2>. QED BY <1>2, <2>1
<1> HIDE DEF b
<1>6. /\ c \in Seq(Token) /\ Len(c) = N + 2 /\ \A j \in 1 .. 1 + N : c[j] = b[j]
      /\ c[N + 2] = "close"
  <2>1. /\ c \in Seq(Token) /\ Len(c) = Len(b) + Len(e)
        /\ \A j \in 1 .. Len(b) : c[j] = b[j]
        /\ \A j \in 1 .. Len(e) : c[Len(b) + j] = e[j]
    BY <1>2, <1>4, ConcatLaw
  <2> HIDE DEF c, N
  <2>2. 1 \in 1 .. Len(e) /\ Len(b) + 1 = N + 2 /\ Len(b) + Len(e) = N + 2
    BY <1>2, <1>3, <1>4
  <2>3. c[Len(b) + 1] = e[1]
    BY <2>1, <2>2
  <2>. QED BY <1>2, <1>4, <2>1, <2>2, <2>3
<1>7. /\ \A n \in 0 .. 1 + N : Depth(c)[n] = Depth(b)[n]
      /\ Depth(c)[N + 2] = Depth(b)[1 + N] + Depth(e)[1]
  <2>1. /\ \A n \in 0 .. Len(b) : Depth(c)[n] = Depth(b)[n]
        /\ \A n \in 0 .. Len(e) : Depth(c)[Len(b) + n] = Depth(b)[Len(b)] + Depth(e)[n]
    BY <1>2, <1>4, DepthConcat
  <2> HIDE DEF c, N
  <2>2. 1 \in 0 .. Len(e) /\ Len(b) + 1 = N + 2
    BY <1>2, <1>3, <1>4
  <2>3. Depth(c)[Len(b) + 1] = Depth(b)[Len(b)] + Depth(e)[1]
    BY <2>1, <2>2
  <2>. QED BY <1>4, <2>1, <2>2, <2>3
<1>8. Depth(a)[0] = 0 /\ Depth(a)[1] = 1 /\ Depth(e)[1] = -1
  <2>1. Depth(a)[0] = 0 /\ \A n \in 1 .. 1 : Depth(a)[n] = Depth(a)[n - 1] + Opened(a[n])
    BY <1>2, DepthLaw
  <2>2. Depth(e)[0] = 0 /\ \A n \in 1 .. 1 : Depth(e)[n] = Depth(e)[n - 1] + Opened(e[n])
    BY <1>2, DepthLaw
  <2>3. Depth(a)[1] = Depth(a)[1 - 1] + Opened(a[1]) /\ Depth(e)[1] = Depth(e)[1 - 1] + Opened(e[1])
    BY <2>1, <2>2
  <2>. QED BY <1>2, <2>1, <2>2, <2>3, OpenedLaw
<1>9. /\ \A n \in 0 .. N : Depth(m)[n] \in Int /\ Depth(m)[n] >= 0
      /\ Depth(m)[0] = 0 /\ Depth(m)[N] = 0
  <2>1. Depth(m)[0] = 0 /\ \A n \in 0 .. N : Depth(m)[n] \in Int
    BY <1>3, DepthLaw
  <2>2. CASE m = <<>>
    <3>1. N = 0
      BY <2>2
    <3> HIDE DEF N
    <3>2. \A n \in 0 .. N : n = 0
      BY <3>1
    <3>. QED BY <2>1, <3>1, <3>2
  <2>3. CASE IsBlock(m, NameOnly, Ended)
    BY <2>1, <2>3 DEF IsBlock
  <2>. QED BY <2>2, <2>3
<1>10. ASSUME NEW n \in 2 .. N + 2 PROVE <<c[n - 1], c[n]>> \in Follows
  <2> HIDE DEF c
  <2>1. CASE m = <<>>
    <3>1. N = 0
      BY <2>1
    <3> HIDE DEF N
    <3>2. n = 2 /\ n - 1 = 1 /\ 1 \in 1 .. 1 + N /\ n = N + 2
      BY <3>1
    <3>3. c[1] = "open" /\ c[n] = "close"
      BY <1>4, <1>6, <3>2
    <3>. QED BY <3>2, <3>3, FollowsLaw
  <2>2. CASE IsBlock(m, NameOnly, Ended)
    <3>1. /\ N > 0 /\ m[1] \in NameOnly /\ m[N] \in Ended
          /\ \A k \in 2 .. N : <<m[k - 1], m[k]>> \in Follows
      BY <2>2 DEF IsBlock
    <3> HIDE DEF N
    <3>2. CASE n = 2
      <4>1. 1 \in 1 .. 1 + N /\ 2 \in 1 .. 1 + N /\ 1 \in 1 .. N /\ 1 + 1 = 2 /\ n - 1 = 1
        BY <1>3, <3>1, <3>2
      <4>2. c[1] = "open" /\ c[2] = b[2] /\ b[1 + 1] = m[1]
        BY <1>4, <1>6, <4>1
      <4>3. c[n - 1] = "open" /\ c[n] = m[1]
        BY <3>2, <4>1, <4>2
      <4>. QED BY <3>1, <4>3, FollowsLaw
    <3>3. CASE n > 2 /\ n < N + 2
      <4> DEFINE k == n - 1
      <4>1. /\ k \in 2 .. N /\ k \in 1 .. N /\ k - 1 \in 1 .. N /\ 1 + k = n /\ 1 + (k - 1) = n - 1
            /\ n \in 1 .. 1 + N /\ n - 1 \in 1 .. 1 + N
        BY <1>3, <3>3
      <4> HIDE DEF k
      <4>2. b[1 + k] = m[k] /\ b[1 + (k - 1)] = m[k - 1] /\ c[n] = b[n] /\ c[n - 1] = b[n - 1]
        BY <1>4, <1>6, <4>1
      <4>3. c[n] = m[k] /\ c[n - 1] = m[k - 1]
        BY <4>1, <4>2
      <4>. QED BY <3>1, <4>1, <4>3
    <3>4. CASE n = N + 2
      <4>1. n - 1 = 1 + N /\ 1 + N \in 1 .. 1 + N /\ N \in 1 .. N
        BY <1>3, <3>1, <3>4
      <4>2. c[1 + N] = b[1 + N] /\ b[1 + N] = m[N] /\ c[n] = "close"
        BY <1>4, <1>6, <3>4, <4>1
      <4>3. c[n - 1] = m[N]
        BY <4>1, <4>2
      <4>. QED BY <3>1, <4>2, <4>3, FollowsLaw
    <3>. QED BY <1>3, <3>2, <3>3, <3>4
  <2>. QED BY <2>1, <2>2
<1> HIDE DEF c, N
<1>11. ASSUME NEW n \in 1 .. N + 1 PROVE Depth(c)[n] \in Int /\ Depth(c)[n] > 0
  <2> DEFINE k == n - 1
  <2>1. k \in 0 .. N /\ 1 + k = n /\ n \in 0 .. 1 + N
    BY <1>3
  <2> HIDE DEF k
  <2>2. Depth(c)[n] = Depth(b)[n] /\ Depth(b)[1 + k] = Depth(a)[1] + Depth(m)[k]
    BY <1>5, <1>7, <2>1
  <2>3. Depth(c)[n] = 1 + Depth(m)[k] /\ Depth(m)[k] \in Int /\ Depth(m)[k] >= 0
    BY <1>8, <1>9, <2>1, <2>2
  <2>. QED BY <2>3
<1>12. Depth(c)[N + 2] = 0
  <2>1. N \in 0 .. N
    BY <1>3
  <2>2. Depth(b)[1 + N] = 1 + 0
    BY <1>5, <1>8, <1>9, <2>1
  <2>3. Depth(c)[N + 2] = (1 + 0) + (-1)
    BY <1>7, <1>8, <2>2
  <2>. QED BY <2>3
<1>13. c[1] = "open"
  <2>1. 1 \in 1 .. 1 + N
    BY <1>3
  <2>. QED BY <1>4, <1>6, <2>1
<1>14. IsJson(c)
  <2>1. N + 2 > 0 /\ (N + 2) - 1 = N + 1
    BY <1>3
  <2>. QED BY <1>6, <1>10, <1>11, <1>12, <1>13, <2>1 DEF IsJson
<1>15. IsBlock(c, Begun, Ended)
  <2>1. \A n \in 0 .. N + 2 : Depth(c)[n] >= 0
    <3> SUFFICES ASSUME NEW n \in 0 .. N + 2 PROVE Depth(c)[n] >= 0
      OBVIOUS
    <3>1. CASE n = 0
      <4>1. Depth(c)[0] = 0
        BY <1>6, DepthLaw
      <4>. QED BY <3>1, <4>1
    <3>2. CASE n = N + 2
      BY <1>12, <3>2
    <3>3. CASE n # 0 /\ n # N + 2
      <4>1. n \in 1 .. N + 1
        BY <1>3, <3>3
      <4>. QED BY <1>11, <4>1
    <3>. QED BY <3>1, <3>2, <3>3
  <2>2. c[1] \in Begun /\ c[N + 2] \in Ended /\ N + 2 > 0
    BY <1>3, <1>6, <1>13 DEF Begun, Ended
  <2>. QED BY <1>6, <1>10, <1>12, <2>1, <2>2 DEF IsBlock
<1>. QED BY <1>1, <1>14, <1>15

\* Parts of the same kind, one behind the other, of which the last may end in
\* another way.
LEMMA FlattenedBlocks ==
    ASSUME NEW seqs \in Seq(Seq(Token)), Len(seqs) > 0, NEW F, NEW L, NEW M,
           \A x \in L, y \in F : <<x, y>> \in Follows,
           \A k \in 1 .. Len(seqs) - 1 : IsBlock(seqs[k], F, L),
           IsBlock(seqs[Len(seqs)], F, M)
    PROVE  IsBlock(FlattenSeq(seqs), F, M)
<1> DEFINE n == Len(seqs)
<1>0. n \in Nat /\ n > 0 /\ \A k \in 1 .. n : seqs[k] \in Seq(Token)
  OBVIOUS
<1>1. PICK flat : IsFlattened(flat, seqs, Token)
  BY FlattenGrows
<1>2. /\ flat[0] = <<>> /\ flat[n] = FlattenSeq(seqs) /\ flat \in [0 .. n -> Seq(Token)]
      /\ \A k \in 1 .. n : flat[k] = flat[k - 1] \o seqs[k]
  BY <1>1 DEF IsFlattened
<1>3. (\A k \in 1 .. n - 1 : IsBlock(seqs[k], F, L)) /\ IsBlock(seqs[n], F, M)
  OBVIOUS
<1> HIDE DEF n
<1>4. flat[1] = seqs[1]
  <2>1. 1 \in 1 .. n
    BY <1>0
  <2>2. flat[1] = flat[1 - 1] \o seqs[1] /\ seqs[1] \in Seq(Token)
    BY <1>0, <1>2, <2>1
  <2>3. flat[1] = <<>> \o seqs[1]
    <3>1. flat[0] = <<>> /\ 1 - 1 = 0
      BY <1>2
    <3>2. flat[1] = flat[0] \o seqs[1]
      BY <2>2, <3>1
    <3>. QED BY <3>1, <3>2
  <2>. QED BY <2>2, <2>3
<1> DEFINE G == {k \in 0 .. n - 1 : k = 0 \/ IsBlock(flat[k], F, L)}
<1>5. \A k \in 0 .. n - 1 : k \in G
  <2>0. n - 1 \in Nat
    BY <1>0
  <2>1. 0 \in G
    BY <1>0
  <2>2. ASSUME NEW k \in 1 .. n - 1, k - 1 \in G PROVE k \in G
    <3>0. k \in 0 .. n - 1 /\ k \in 1 .. n
      BY <1>0
    <3>1. IsBlock(flat[k], F, L)
      <4>1. CASE k = 1
        BY <1>3, <1>4, <4>1
      <4>2. CASE k # 1
        <5>1. k - 1 # 0
          BY <4>2
        <5>2. IsBlock(flat[k - 1], F, L) /\ IsBlock(seqs[k], F, L)
          BY <1>3, <2>2, <5>1
        <5>3. IsBlock(flat[k - 1] \o seqs[k], F, L)
          BY <5>2, BlocksJoin
        <5>. QED BY <1>2, <3>0, <5>3
      <4>. QED BY <4>1, <4>2
    <3>. QED BY <3>0, <3>1
  <2> HIDE DEF G
  <2>. QED BY <2>0, <2>1, <2>2, InductionUpTo
<1>6. IsBlock(flat[n], F, M)
  <2>1. CASE n = 1
    BY <1>3, <1>4, <2>1
  <2>2. CASE n # 1
    <3>1. n - 1 \in 0 .. n - 1 /\ n - 1 # 0 /\ n \in 1 .. n
      BY <1>0, <2>2
    <3>2. IsBlock(flat[n - 1], F, L)
      BY <1>5, <3>1
    <3>3. IsBlock(flat[n - 1] \o seqs[n], F, M)
      BY <1>3, <3>2, BlocksJoin
    <3>. QED BY <1>2, <3>1, <3>3
  <2>. QED BY <2>1, <2>2
<1>. QED BY <1>2, <1>6

\* Members: one, a comma behind them, more of them, a value with a name.
LEMMA MemberBlock ==
    ASSUME NEW v \in Value
    PROVE  IsBlock(Member(v), NameOnly, Ended)
<1>1. v \in Token /\ v # "open" /\ v # "close" /\ "name" \in Token /\ "name" # "open" /\ "name" # "close"
  BY DEF Value, Token
<1>2. IsBlock(<<"name">>, {"name"}, {"name"}) /\ IsBlock(<<v>>, {v}, {v})
  BY <1>1, TokenIsBlock
<1>3. <<"name", v>> \in Follows
  BY FollowsLaw DEF Begun, NameOnly
<1>4. IsBlock(<<"name">> \o <<v>>, {"name"}, {v})
  BY <1>2, <1>3, BlocksJoin
<1>5. <<"name">> \o <<v>> = <<"name", v>>
  <2> DEFINE a == <<"name">>
             b == <<v>>
             c == <<"name", v>>
             d == a \o b
  <2>1. /\ a \in Seq(Token) /\ Len(a) = 1 /\ a[1] = "name" /\ b \in Seq(Token) /\ Len(b) = 1 /\ b[1] = v
    BY <1>1
  <2>2. c \in Seq(Token) /\ Len(c) = 2 /\ c[1] = "name" /\ c[2] = v
    BY <1>1
  <2> HIDE DEF a, b, c
  <2>3. /\ d \in Seq(Token) /\ Len(d) = Len(a) + Len(b)
        /\ \A j \in 1 .. Len(a) : d[j] = a[j]
        /\ \A j \in 1 .. Len(b) : d[Len(a) + j] = b[j]
    BY <2>1, ConcatLaw
  <2> HIDE DEF d
  <2>4. Len(d) = 2 /\ d[1] = "name" /\ d[2] = v
    <3>1. 1 \in 1 .. 1 /\ 1 + 1 = 2
      OBVIOUS
    <3>2. d[1] = a[1] /\ d[1 + 1] = b[1]
      BY <2>1, <2>3, <3>1
    <3>. QED BY <2>1, <2>3, <3>1, <3>2
  <2>5. \A j \in 1 .. 2 : d[j] = c[j]
    <3>1. \A j \in 1 .. 2 : j = 1 \/ j = 2
      OBVIOUS
    <3>. QED BY <2>2, <2>4, <3>1
  <2>6. d = c
    BY <2>2, <2>3, <2>4, <2>5, SameSequence
  <2>. QED BY <2>6 DEF a, b, c, d
<1>6. IsBlock(Member(v), {"name"}, {v})
  BY <1>4, <1>5 DEF Member
<1>7. {"name"} \subseteq NameOnly /\ {v} \subseteq Ended
  BY DEF NameOnly, Ended
<1>. QED BY <1>6, <1>7, BlocksWiden

\* A comma is a block.
LEMMA CommaBlock == IsBlock(<<"comma">>, Comma, Comma)
<1>1. "comma" \in Token /\ "comma" # "open" /\ "comma" # "close"
  BY DEF Token
<1>. QED BY <1>1, TokenIsBlock DEF Comma

\* Members and a comma behind them.
LEMMA ThenComma ==
    ASSUME NEW a, IsBlock(a, NameOnly, Ended)
    PROVE  IsBlock(a \o <<"comma">>, NameOnly, Comma)
BY CommaBlock, FollowsLaw, BlocksJoin

\* Members behind a comma.
LEMMA ThenMembers ==
    ASSUME NEW a, NEW b, NEW L, IsBlock(a, NameOnly, Comma), IsBlock(b, NameOnly, L)
    PROVE  IsBlock(a \o b, NameOnly, L)
BY FollowsLaw, BlocksJoin

\* A value with its name.
LEMMA NamedBlock ==
    ASSUME NEW a, IsBlock(a, Begun, Ended)
    PROVE  IsBlock(Named(a), NameOnly, Ended)
<1>1. "name" \in Token /\ "name" # "open" /\ "name" # "close"
  BY DEF Token
<1>2. IsBlock(<<"name">>, NameOnly, NameOnly)
  BY <1>1, TokenIsBlock DEF NameOnly
<1>. QED BY <1>2, FollowsLaw, BlocksJoin DEF Named

\* An object with its name, also an empty one.
LEMMA NamedObject ==
    ASSUME NEW m, IsBlock(m, NameOnly, Ended) \/ m = <<>>
    PROVE  IsBlock(Named(JsonObject(m)), NameOnly, Ended)
BY ObjectIsJson, NamedBlock

\* Members with a comma between each two, and none behind the last.
LEMMA SeparatedBlock ==
    ASSUME NEW members \in Seq(Seq(Token)), Len(members) > 0,
           \A k \in 1 .. Len(members) : IsBlock(members[k], NameOnly, Ended)
    PROVE  IsBlock(Separated(members), NameOnly, Ended)
<1> DEFINE n == Len(members)
           seqs == [k \in DOMAIN members |-> IF k < n THEN members[k] \o <<"comma">> ELSE members[k]]
           T == Seq(Token)
<1>1. n \in Nat /\ n > 0 /\ DOMAIN members = 1 .. n
  OBVIOUS
<1>2. Separated(members) = FlattenSeq(seqs)
  BY DEF Separated
<1>3. \A k \in 1 .. n : members[k] \in T /\ members[k] \o <<"comma">> \in T
  <2>1. <<"comma">> \in Seq(Token)
    BY CommaBlock DEF IsBlock
  <2>2. \A k \in 1 .. n : members[k] \in Seq(Token)
    OBVIOUS
  <2>. QED BY <2>1, <2>2
<1>4. \A k \in 1 .. n : IsBlock(members[k], NameOnly, Ended) /\ IsBlock(members[k] \o <<"comma">>, NameOnly, Comma)
  BY ThenComma
<1> HIDE DEF n, T
<1>5. seqs \in Seq(T) /\ Len(seqs) = n
  BY <1>1, <1>3
<1>6. \A k \in 1 .. n - 1 : IsBlock(seqs[k], NameOnly, Comma)
  <2> SUFFICES ASSUME NEW k \in 1 .. n - 1 PROVE IsBlock(seqs[k], NameOnly, Comma)
    OBVIOUS
  <2>1. k \in 1 .. n /\ k < n
    BY <1>1
  <2>2. seqs[k] = members[k] \o <<"comma">>
    BY <1>1, <2>1
  <2>. QED BY <1>4, <2>1, <2>2
<1>7. IsBlock(seqs[n], NameOnly, Ended)
  <2>1. n \in 1 .. n /\ ~(n < n)
    BY <1>1
  <2>2. seqs[n] = members[n]
    BY <1>1, <2>1
  <2>. QED BY <1>4, <2>1, <2>2
<1> HIDE DEF seqs
<1>8. IsBlock(FlattenSeq(seqs), NameOnly, Ended)
  <2>1. seqs \in Seq(Seq(Token)) /\ Len(seqs) > 0
    BY <1>1, <1>5 DEF T
  <2>2. (\A k \in 1 .. Len(seqs) - 1 : IsBlock(seqs[k], NameOnly, Comma)) /\ IsBlock(seqs[Len(seqs)], NameOnly, Ended)
    BY <1>5, <1>6, <1>7
  <2>. QED BY <2>1, <2>2, FollowsLaw, FlattenedBlocks
<1>. QED BY <1>2, <1>8

\* Any number of members of one kind.
LEMMA MembersBlock ==
    ASSUME NEW n \in Nat, NEW v \in Value
    PROVE  IF n = 0 THEN Members(n, v) = <<>> ELSE IsBlock(Members(n, v), NameOnly, Ended)
<1> DEFINE x == Member(v)
           members == [k \in 1 .. n |-> x]
           T == Seq(Token)
<1>1. IsBlock(x, NameOnly, Ended) /\ x \in T
  BY MemberBlock DEF IsBlock
<1>2. Members(n, v) = Separated(members)
  BY DEF Members
<1>3. CASE n = 0
  <2>1. members = <<>>
    BY <1>3
  <2>2. Separated(<<>>) = FlattenSeq(<<>>)
    <3>1. [k \in DOMAIN <<>> |-> IF k < Len(<<>>) THEN <<>>[k] \o <<"comma">> ELSE <<>>[k]] = <<>>
      OBVIOUS
    <3>. QED BY <3>1 DEF Separated
  <2>3. FlattenSeq(<<>>) = <<>>
    BY DEF FlattenSeq
  <2>. QED BY <1>2, <1>3, <2>1, <2>2, <2>3
<1>4. CASE n # 0
  <2> HIDE DEF x, T
  <2>1. members \in Seq(T) /\ Len(members) = n /\ n > 0 /\ \A k \in 1 .. n : members[k] = x
    BY <1>1, <1>4
  <2> HIDE DEF members
  <2>2. IsBlock(Separated(members), NameOnly, Ended)
    <3>1. members \in Seq(Seq(Token)) /\ Len(members) > 0
      BY <2>1 DEF T
    <3>2. \A k \in 1 .. Len(members) : IsBlock(members[k], NameOnly, Ended)
      BY <1>1, <2>1
    <3>. QED BY <3>1, <3>2, SeparatedBlock
  <2>. QED BY <1>2, <1>4, <2>2
<1>. QED BY <1>3, <1>4

\* The parts of the status document.
LEMMA SeparatedTuples ==
    ASSUME NEW a, NEW b, NEW c, NEW d, NEW e, NEW f,
           IsBlock(a, NameOnly, Ended), IsBlock(b, NameOnly, Ended), IsBlock(c, NameOnly, Ended),
           IsBlock(d, NameOnly, Ended), IsBlock(e, NameOnly, Ended), IsBlock(f, NameOnly, Ended)
    PROVE  /\ IsBlock(Separated(<<a, b>>), NameOnly, Ended)
           /\ IsBlock(Separated(<<a, b, c, d>>), NameOnly, Ended)
           /\ IsBlock(Separated(<<a, b, c, d, e, f>>), NameOnly, Ended)
<1> DEFINE T == Seq(Token)
           B(x) == IsBlock(x, NameOnly, Ended)
<1>0. a \in T /\ b \in T /\ c \in T /\ d \in T /\ e \in T /\ f \in T
  BY DEF IsBlock
<1>b. B(a) /\ B(b) /\ B(c) /\ B(d) /\ B(e) /\ B(f)
  OBVIOUS
<1>s. ASSUME NEW m \in Seq(T), Len(m) > 0, \A k \in 1 .. Len(m) : B(m[k]) PROVE B(Separated(m))
  BY <1>s, SeparatedBlock
<1> HIDE DEF T, B
<1>2. B(Separated(<<a, b>>))
  <2> DEFINE m == <<a, b>>
  <2>1. m \in Seq(T) /\ Len(m) = 2 /\ m[1] = a /\ m[2] = b
    BY <1>0
  <2> HIDE DEF m
  <2>2. \A k \in 1 .. 2 : k = 1 \/ k = 2
    OBVIOUS
  <2>3. \A k \in 1 .. 2 : B(m[k])
    BY <1>b, <2>1, <2>2
  <2>4. m \in Seq(T) /\ Len(m) > 0 /\ \A k \in 1 .. Len(m) : B(m[k])
    BY <2>1, <2>3
  <2>5. B(Separated(m))
    BY ONLY <1>s, <2>4
  <2>. QED BY <2>5 DEF m
<1>4. B(Separated(<<a, b, c, d>>))
  <2> DEFINE m == <<a, b, c, d>>
  <2>1. m \in Seq(T) /\ Len(m) = 4 /\ m[1] = a /\ m[2] = b /\ m[3] = c /\ m[4] = d
    BY <1>0
  <2> HIDE DEF m
  <2>2. \A k \in 1 .. 4 : k = 1 \/ k = 2 \/ k = 3 \/ k = 4
    OBVIOUS
  <2>3. \A k \in 1 .. 4 : B(m[k])
    BY <1>b, <2>1, <2>2
  <2>4. m \in Seq(T) /\ Len(m) > 0 /\ \A k \in 1 .. Len(m) : B(m[k])
    BY <2>1, <2>3
  <2>5. B(Separated(m))
    BY ONLY <1>s, <2>4
  <2>. QED BY <2>5 DEF m
<1>6. B(Separated(<<a, b, c, d, e, f>>))
  <2> DEFINE m == <<a, b, c, d, e, f>>
  <2>1. m \in Seq(T) /\ Len(m) = 6 /\ m[1] = a /\ m[2] = b /\ m[3] = c /\ m[4] = d /\ m[5] = e /\ m[6] = f
    BY <1>0
  <2> HIDE DEF m
  <2>2. \A k \in 1 .. 6 : k = 1 \/ k = 2 \/ k = 3 \/ k = 4 \/ k = 5 \/ k = 6
    OBVIOUS
  <2>3. \A k \in 1 .. 6 : B(m[k])
    BY <1>b, <2>1, <2>2
  <2>4. m \in Seq(T) /\ Len(m) > 0 /\ \A k \in 1 .. Len(m) : B(m[k])
    BY <2>1, <2>3
  <2>5. B(Separated(m))
    BY ONLY <1>s, <2>4
  <2>. QED BY <2>5 DEF m
<1>. QED BY <1>2, <1>4, <1>6 DEF B

\* The part of the host, whatever of it could be read.
LEMMA SystemBlock ==
    ASSUME NEW status
    PROVE  IsBlock(RenderJsonSystem(status), NameOnly, Comma)
<1> DEFINE loads == IF status.loadValid THEN JsonObject(Members(3, "number")) ELSE <<"null">>
           v == IF status.memValid THEN "number" ELSE "null"
           mem == Members(3, v)
           a == Named(loads)
           b == a \o <<"comma">>
           c == b \o mem
           d == Named(JsonObject(c))
<1>1. "number" \in Value /\ v \in Value /\ 3 \in Nat /\ 3 # 0
  BY DEF Value
<1>2. IsBlock(Members(3, "number"), NameOnly, Ended) /\ IsBlock(mem, NameOnly, Ended)
  <2> HIDE DEF v
  <2>. QED BY <1>1, MembersBlock
<1>3. IsBlock(loads, Begun, Ended)
  <2>1. IsBlock(JsonObject(Members(3, "number")), Begun, Ended)
    BY <1>2, ObjectIsJson
  <2>2. "null" \in Token /\ "null" # "open" /\ "null" # "close" /\ {"null"} \subseteq Begun /\ {"null"} \subseteq Ended
    BY DEF Token, Value, Begun, Ended
  <2>3. IsBlock(<<"null">>, {"null"}, {"null"})
    BY <2>2, TokenIsBlock
  <2>4. IsBlock(<<"null">>, Begun, Ended)
    BY <2>2, <2>3, BlocksWiden
  <2>. QED BY <2>1, <2>4
<1>4. RenderJsonSystem(status) = d \o <<"comma">>
  BY DEF RenderJsonSystem
<1> HIDE DEF loads, v, mem
<1>5. IsBlock(a, NameOnly, Ended)
  BY <1>3, NamedBlock
<1> HIDE DEF a
<1>6. IsBlock(b, NameOnly, Comma)
  BY <1>5, ThenComma
<1> HIDE DEF b
<1>7. IsBlock(c, NameOnly, Ended)
  BY <1>2, <1>6, ThenMembers
<1> HIDE DEF c
<1>8. IsBlock(d, NameOnly, Ended)
  BY <1>7, NamedObject
<1> HIDE DEF d
<1>. QED BY <1>4, <1>8, ThenComma

\* The part of the MQTT client.
LEMMA MqttBlock == IsBlock(RenderJsonMqtt, NameOnly, Comma)
<1> DEFINE bool == Member("bool")
           string == Member("string")
           number == Member("number")
           a == Separated(<<bool, string, number, number, number, string>>)
           x == <<"comma">> \o number
           seqs == [n \in 1 .. 9 |-> x]
           b == FlattenSeq(seqs)
           c == a \o b
           d == Named(JsonObject(c))
           T == Seq(Token)
<1>1. RenderJsonMqtt = d \o <<"comma">>
  BY DEF RenderJsonMqtt
<1>2. IsBlock(bool, NameOnly, Ended) /\ IsBlock(string, NameOnly, Ended) /\ IsBlock(number, NameOnly, Ended)
  <2>1. "bool" \in Value /\ "string" \in Value /\ "number" \in Value
    BY DEF Value
  <2>. QED BY <2>1, MemberBlock
<1> HIDE DEF bool, string, number
<1>3. IsBlock(a, NameOnly, Ended)
  BY <1>2, SeparatedTuples
<1>4. IsBlock(x, Comma, Ended) /\ x \in T
  <2>1. IsBlock(x, Comma, Ended)
    BY <1>2, CommaBlock, FollowsLaw, BlocksJoin
  <2>. QED BY <2>1 DEF IsBlock
<1> HIDE DEF x, T
<1>5. seqs \in Seq(T) /\ Len(seqs) = 9 /\ \A k \in 1 .. 9 : seqs[k] = x
  BY <1>4
<1> HIDE DEF seqs
<1>6. IsBlock(b, Comma, Ended)
  <2>1. seqs \in Seq(Seq(Token)) /\ Len(seqs) > 0
    BY <1>5 DEF T
  <2>2. (\A k \in 1 .. Len(seqs) - 1 : IsBlock(seqs[k], Comma, Ended)) /\ IsBlock(seqs[Len(seqs)], Comma, Ended)
    BY <1>4, <1>5
  <2>. QED BY <2>1, <2>2, FollowsLaw, FlattenedBlocks
<1> HIDE DEF a, b
<1>7. IsBlock(c, NameOnly, Ended)
  BY <1>3, <1>6, FollowsLaw, BlocksJoin
<1> HIDE DEF c
<1>8. IsBlock(d, NameOnly, Ended)
  BY <1>7, NamedObject
<1> HIDE DEF d
<1>. QED BY <1>1, <1>8, ThenComma

\* The part of the handlers, with or without a table.
LEMMA HitsBlock ==
    ASSUME NEW available, NEW n \in Nat
    PROVE  IsBlock(RenderHits(available, n), NameOnly, Ended)
<1> DEFINE m == IF ~available \/ n = 0 THEN <<>> ELSE Members(n, "number")
           h == Named(JsonObject(m))
<1>1. "number" \in Value
  BY DEF Value
<1>2. IsBlock(m, NameOnly, Ended) \/ m = <<>>
  BY <1>1, MembersBlock
<1>3. RenderHits(available, n) = Named(JsonObject(h))
  BY DEF RenderHits
<1> HIDE DEF m
<1>4. IsBlock(h, NameOnly, Ended)
  BY <1>2, NamedObject
<1> HIDE DEF h
<1>. QED BY <1>3, <1>4, NamedObject

\* The status document is JSON whatever there is to report.
LEMMA RenderStatusJsonIsJson ==
    ASSUME NEW status, NEW entries \in Nat, NEW available, NEW handled \in Nat
    PROVE  IsJson(RenderStatusJson(status, entries, available, handled))
<1> DEFINE bool == Member("bool")
           string == Member("string")
           number == Member("number")
           comma == <<"comma">>
           system == RenderJsonSystem(status)
           light == Named(JsonObject(Separated(<<bool, number, number, number>>)))
           display == Named(JsonObject(Separated(<<string, bool>>)))
           strip == Named(JsonObject(string))
           mqtt == RenderJsonMqtt
           inner == Named(JsonObject(RenderJsonPairs(entries)))
           five == Members(5, "number")
           dictionary == Named(JsonObject(five \o comma \o inner))
           handlers == RenderHits(available, handled)
           x1 == number \o comma
           x2 == x1 \o system
           x3 == x2 \o light
           x4 == x3 \o comma
           x5 == x4 \o number
           x6 == x5 \o comma
           x7 == x6 \o display
           x8 == x7 \o comma
           x9 == x8 \o strip
           x10 == x9 \o comma
           x11 == x10 \o mqtt
           x12 == x11 \o dictionary
           x13 == x12 \o comma
           x14 == x13 \o handlers
           Ends(x) == IsBlock(x, NameOnly, Ended)
           Commas(x) == IsBlock(x, NameOnly, Comma)
<1>1. RenderStatusJson(status, entries, available, handled) = JsonObject(x14)
  BY DEF RenderStatusJson
<1>2. "bool" \in Value /\ "string" \in Value /\ "number" \in Value
  BY DEF Value
<1>3. Ends(bool) /\ Ends(string) /\ Ends(number)
  BY <1>2, MemberBlock
<1> HIDE DEF bool, string, number
<1>4. Ends(Separated(<<bool, number, number, number>>)) /\ Ends(Separated(<<string, bool>>))
  <2>1. \A a, b, c, d : Ends(a) /\ Ends(b) /\ Ends(c) /\ Ends(d) =>
            Ends(Separated(<<a, b>>)) /\ Ends(Separated(<<a, b, c, d>>))
    BY SeparatedTuples
  <2> HIDE DEF Ends
  <2>. QED BY <1>3, <2>1
<1>5. Ends(light) /\ Ends(display) /\ Ends(strip)
  BY <1>3, <1>4, NamedObject
<1>6. Commas(system) /\ Commas(mqtt) /\ Ends(handlers)
  BY SystemBlock, MqttBlock, HitsBlock
<1>a. ASSUME NEW x, Ends(x) PROVE Commas(x \o comma)
  BY <1>a, ThenComma
<1>b. ASSUME NEW x, NEW y, Commas(x), Ends(y) PROVE Ends(x \o y)
  BY <1>b, ThenMembers
<1>c. ASSUME NEW x, NEW y, Commas(x), Commas(y) PROVE Commas(x \o y)
  BY <1>c, ThenMembers
<1>7. Ends(dictionary)
  <2>1. IF entries = 0 THEN RenderJsonPairs(entries) = <<>> ELSE Ends(RenderJsonPairs(entries))
    BY <1>2, MembersBlock DEF RenderJsonPairs
  <2>2. Ends(inner)
    BY <2>1, NamedObject
  <2>3. Ends(five)
    <3>1. 5 \in Nat /\ 5 # 0
      OBVIOUS
    <3>. QED BY <1>2, <3>1, MembersBlock
  <2> DEFINE y == five \o comma
             z == y \o inner
  <2> HIDE DEF inner, five
  <2>4. Ends(z)
    <3>1. Commas(y)
      BY <1>a, <2>3
    <3> HIDE DEF y, Ends, Commas
    <3>. QED BY <1>b, <2>2, <3>1
  <2>5. dictionary = Named(JsonObject(z))
    OBVIOUS
  <2> HIDE DEF z, dictionary
  <2>. QED BY <2>4, <2>5, NamedObject
<1> HIDE DEF system, light, display, strip, mqtt, dictionary, handlers, comma, Ends, Commas
<1>8. Commas(x1)
  BY <1>a, <1>3
<1> HIDE DEF x1
<1>9. Commas(x2)
  BY <1>c, <1>6, <1>8
<1> HIDE DEF x2
<1>10. Ends(x3)
  BY <1>b, <1>5, <1>9
<1> HIDE DEF x3
<1>11. Commas(x4)
  BY <1>a, <1>10
<1> HIDE DEF x4
<1>12. Ends(x5)
  BY <1>b, <1>3, <1>11
<1> HIDE DEF x5
<1>13. Commas(x6)
  BY <1>a, <1>12
<1> HIDE DEF x6
<1>14. Ends(x7)
  BY <1>b, <1>5, <1>13
<1> HIDE DEF x7
<1>15. Commas(x8)
  BY <1>a, <1>14
<1> HIDE DEF x8
<1>16. Ends(x9)
  BY <1>b, <1>5, <1>15
<1> HIDE DEF x9
<1>17. Commas(x10)
  BY <1>a, <1>16
<1> HIDE DEF x10
<1>18. Commas(x11)
  BY <1>c, <1>6, <1>17
<1> HIDE DEF x11
<1>19. Ends(x12)
  BY <1>b, <1>7, <1>18
<1> HIDE DEF x12
<1>20. Commas(x13)
  BY <1>a, <1>19
<1> HIDE DEF x13
<1>21. Ends(x14)
  BY <1>b, <1>6, <1>20
<1> HIDE DEF x14
<1>22. IsJson(JsonObject(x14))
  BY <1>21, ObjectIsJson DEF Ends
<1>. QED BY <1>1, <1>22

\* What renderStatusJson() returns is JSON, with any number of entries and handlers.
THEOREM StatusDocumentsAreWellFormed == StatusJsonIsWellFormed
<1>1. \A n \in 0 .. MaxMembers : n \in Nat
  BY StatusAssumption
<1>. QED BY <1>1, RenderStatusJsonIsJson DEF StatusJsonIsWellFormed

-----------------------------------------------------------------------------
(* What a user sends arrives, and what a user reads is true.               *)

\* What is chosen on a page arrives as it was chosen, for every form and every
\* body: parsePost() takes apart what a browser put together and stays within
\* its buffer, and the post handlers of display, strip and dictionary take each
\* field as the parameter of its name.
THEOREM EveryFormArrivesAsSent == Spec => []FormsArriveAsSent
<1>1. FormsArriveAsSent
  BY PostsAreParsedAsSent, PostsFitTheirBuffer, FormsAreUnderstoodEverywhere
  DEF FormsArriveAsSent
<1>. QED BY <1>1, PTL

\* readSystemStatus() reports what the files of the kernel say, all of it or
\* nothing, and renderStatusJson() makes of it a JSON document from which every
\* text reads back as it was: for all texts, files, numbers of entries and
\* handlers, and widths of an unsigned integer.
THEOREM EveryStatusIsTrueAndReadable == Spec => []StatusIsTrueAndReadable
<1>1. StatusIsTrueAndReadable
  BY LoadsAreReadOrRefused, SystemStatusesAreWholeOrNothing,
     JsonEscapesAreReversible, StatusDocumentsAreWellFormed
  DEF StatusIsTrueAndReadable
<1>. QED BY <1>1, PTL
=============================================================================
