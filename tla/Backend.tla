------------------------------ MODULE Backend ------------------------------
(***************************************************************************)
(* The devices: GPIO lines (src/src/gpio/gpiodV2Gpio.cpp, with values read *)
(* and written through requests or through mapped registers), the SPI port *)
(* of the LED strip (src/src/spi/linuxSpidevOutput.cpp) and the ADC of the *)
(* light sensor (src/src/adc/linuxIioAnalogInput.cpp).  main() initializes *)
(* them one after the other, four threads use them, and main() destroys    *)
(* them in the reverse order when it returns.  Every call into the kernel  *)
(* may fail; the kernel's side is a count of what it holds open for the    *)
(* process.  Operations of an object hold its mutex, so each is one step   *)
(* once the object is shared.                                              *)
(***************************************************************************)
EXTENDS Integers, Sequences, FiniteSets

CONSTANTS
    Builds,        \* how the program is built: with which value path, with SPI or not
    ChipPaths,     \* how many /dev/gpiochip* there are
    MatrixPins,    \* sequence of the pins of the matrix
    StripPins,     \* and of the strip, where it has no SPI port
    MotionPin

User == {"display", "strip", "motion", "light"}
PinsOf(t) == CASE t = "display" -> MatrixPins
               [] t = "strip" -> StripPins
               [] t = "motion" -> <<MotionPin>>
               [] t = "light" -> <<>>
PinSet(t) == {PinsOf(t)[i] : i \in DOMAIN PinsOf(t)}
Pin == UNION {PinSet(t) : t \in User}
Handle == {"chip", "gpiomem", "mapping", "spidev", "directory"}

ASSUME BackendAssumption ==
    /\ Builds # {} /\ Builds \subseteq [mapped : BOOLEAN, spi : BOOLEAN]
    /\ ChipPaths \in Nat
    /\ \A t \in User : PinsOf(t) \in Seq(Nat)
    /\ \A t, u \in User : t # u => PinSet(t) \cap PinSet(u) = {}

VARIABLES
    build,
    dev,          \* where main() is with the devices
    candidates,   \* paths of chips not yet looked at
    chip_, lines_, registers_, fd_, devicePath_,   \* members of the objects
    kernel,       \* kernel[h]: open handles of kind h
    requests,     \* requests[p]: line requests the kernel has for pin p
    burst,        \* the pins the matrix writes through registers
    user,         \* user[t]: where thread t is with its device
    end           \* how the process ended by itself, if it did
memberVars == <<chip_, lines_, registers_, fd_, devicePath_>>
backendVars == <<build, dev, candidates, memberVars, kernel, requests, burst, user, end>>

BackendInit ==
    /\ build \in Builds
    /\ dev = "probe"
    /\ candidates = ChipPaths
    /\ chip_ = "null" /\ registers_ = "null" /\ fd_ = -1 /\ devicePath_ = "empty"
    /\ lines_ = [p \in Pin |-> "none"]
    /\ kernel = [h \in Handle |-> 0]
    /\ requests = [p \in Pin |-> 0]
    /\ burst = {}
    /\ user = [t \in User |-> "none"]
    /\ end = "no"

Open(k, h) == [k EXCEPT ![h] = @ + 1]
Close(k, h) == [k EXCEPT ![h] = @ - 1]

-----------------------------------------------------------------------------
(* initialize() of the GPIO backend: discoverChip, validateRequiredOffsets *)
(* and the value path, each of which may throw.                            *)

\* releaseLines(): the number of requests each pin is left with.
Released == [p \in Pin |-> IF lines_[p] = "none" THEN requests[p] ELSE requests[p] - 1]

\* The handler of the exception closes the chip, if there is one.
GpioFails(k) ==
    /\ dev' = "failed"
    /\ kernel' = IF chip_ = "null" THEN k ELSE Close(k, "chip")
    /\ chip_' = "null"
    /\ lines_' = [p \in Pin |-> "none"]
    /\ requests' = Released

\* The next path is opened, or passed over.
OpenCandidate ==
    /\ dev = "probe" /\ candidates > 0
    /\ \/ /\ kernel' = Open(kernel, "chip")
          /\ dev' = "examine"
          /\ UNCHANGED candidates
       \/ /\ candidates' = candidates - 1
          /\ UNCHANGED <<dev, kernel>>
    /\ UNCHANGED <<build, memberVars, requests, burst, user, end>>

\* A chip that tells nothing of itself, has another label or too few lines is
\* closed again; the first that matches is kept.
ExamineCandidate ==
    /\ dev = "examine"
    /\ \/ /\ chip_' = "open"
          /\ dev' = "validate"
          /\ UNCHANGED <<candidates, kernel>>
       \/ /\ kernel' = Close(kernel, "chip")
          /\ candidates' = candidates - 1
          /\ dev' = "probe"
          /\ UNCHANGED chip_
    /\ UNCHANGED <<build, lines_, registers_, fd_, devicePath_, requests, burst, user, end>>

NoChip ==
    /\ dev = "probe" /\ candidates = 0
    /\ GpioFails(kernel)
    /\ UNCHANGED <<build, candidates, registers_, fd_, devicePath_, burst, user, end>>

ValidateRequiredOffsets ==
    /\ dev = "validate"
    /\ \/ /\ dev' = "valuePath"
          /\ UNCHANGED <<chip_, lines_, kernel, requests>>
       \/ GpioFails(kernel)
    /\ UNCHANGED <<build, candidates, registers_, fd_, devicePath_, burst, user, end>>

\* initialize() of the value path: nothing to do for requests; to map the
\* registers, open and then mmap, which gives the descriptor back if it fails.
InitializeValueIo ==
    /\ dev = "valuePath"
    /\ \/ /\ ~build.mapped
          /\ dev' = "spi"
          /\ UNCHANGED <<chip_, lines_, kernel, requests>>
       \/ /\ build.mapped
          /\ dev' = "mmap"
          /\ kernel' = Open(kernel, "gpiomem")
          /\ UNCHANGED <<chip_, lines_, requests>>
       \/ /\ build.mapped
          /\ GpioFails(kernel)
    /\ UNCHANGED <<build, candidates, registers_, fd_, devicePath_, burst, user, end>>

MapRegisters ==
    /\ dev = "mmap"
    /\ \/ /\ kernel' = Open(kernel, "mapping")
          /\ registers_' = "mapped"
          /\ dev' = "spi"
          /\ UNCHANGED <<chip_, lines_, requests>>
       \/ /\ GpioFails(Close(kernel, "gpiomem"))
          /\ UNCHANGED registers_
    /\ UNCHANGED <<build, candidates, fd_, devicePath_, burst, user, end>>

-----------------------------------------------------------------------------
(* initialize() of the SPI port and of the ADC.                            *)

\* discoverStripDevice and open.
OpenStripDevice ==
    /\ dev = "spi"
    /\ \/ /\ ~build.spi
          /\ dev' = "adc"
          /\ UNCHANGED <<fd_, kernel>>
       \/ /\ build.spi
          /\ kernel' = Open(kernel, "spidev")
          /\ fd_' = 0
          /\ dev' = "configure"
       \/ /\ build.spi
          /\ dev' = "failed"
          /\ UNCHANGED <<fd_, kernel>>
    /\ UNCHANGED <<build, candidates, chip_, lines_, registers_, devicePath_, requests, burst, user, end>>

\* The port is set up and read back; a port that differs is closed.
\* Fault: it is left open, and forgotten.
ConfigureStripDevice_leaks ==
    /\ dev = "configure"
    /\ \/ /\ dev' = "adc"
          /\ UNCHANGED <<fd_, kernel>>
       \/ /\ kernel' = kernel
          /\ fd_' = -1
          /\ dev' = "failed"
    /\ UNCHANGED <<build, candidates, chip_, lines_, registers_, devicePath_, requests, burst, user, end>>
ConfigureStripDevice ==
    /\ dev = "configure"
    /\ \/ /\ dev' = "adc"
          /\ UNCHANGED <<fd_, kernel>>
       \/ /\ kernel' = Close(kernel, "spidev")
          /\ fd_' = -1
          /\ dev' = "failed"
    /\ UNCHANGED <<build, candidates, chip_, lines_, registers_, devicePath_, requests, burst, user, end>>

OpenIioDirectory ==
    /\ dev = "adc"
    /\ \/ /\ kernel' = Open(kernel, "directory")
          /\ dev' = "search"
       \/ /\ dev' = "failed"
          /\ UNCHANGED kernel
    /\ UNCHANGED <<build, candidates, memberVars, requests, burst, user, end>>

\* The directory is closed before it is known whether exactly one device
\* matched, has the right name and channels that can be read.
SearchIioDirectory ==
    /\ dev = "search"
    /\ kernel' = Close(kernel, "directory")
    /\ \/ /\ devicePath_' = "found"
          /\ dev' = "up"
       \/ /\ dev' = "failed"
          /\ UNCHANGED devicePath_
    /\ UNCHANGED <<build, candidates, chip_, lines_, registers_, fd_, requests, burst, user, end>>

InitializeDevices ==
    OpenCandidate \/ ExamineCandidate \/ NoChip \/ ValidateRequiredOffsets
        \/ InitializeValueIo \/ MapRegisters \/ OpenStripDevice \/ ConfigureStripDevice
        \/ OpenIioDirectory \/ SearchIioDirectory

-----------------------------------------------------------------------------
(* The destructors, when main() returns.                                   *)

DestroyStripDevice ==
    /\ dev = "destroy"
    /\ kernel' = IF fd_ >= 0 THEN Close(kernel, "spidev") ELSE kernel
    /\ fd_' = -1
    /\ dev' = "destroyGpio"
    /\ UNCHANGED <<build, candidates, chip_, lines_, registers_, devicePath_, requests, burst, user, end>>

DestroyGpio ==
    /\ dev = "destroyGpio"
    /\ requests' = Released
    /\ lines_' = [p \in Pin |-> "none"]
    /\ kernel' = IF chip_ = "null" THEN kernel ELSE Close(kernel, "chip")
    /\ chip_' = "null"
    /\ dev' = "destroyValuePath"
    /\ UNCHANGED <<build, candidates, registers_, fd_, devicePath_, burst, user, end>>

\* closeMapping()
DestroyValueIo ==
    /\ dev = "destroyValuePath"
    /\ kernel' = IF registers_ = "null" THEN kernel
                 ELSE Close(Close(kernel, "mapping"), "gpiomem")
    /\ registers_' = "null"
    /\ dev' = "gone"
    /\ UNCHANGED <<build, candidates, chip_, lines_, fd_, devicePath_, requests, burst, user, end>>

DestroyDevices == DestroyStripDevice \/ DestroyGpio \/ DestroyValueIo

-----------------------------------------------------------------------------
(* The threads: each configures its pins, then uses its device until it is *)
(* told to end.  An exception that leaves a thread ends the process.       *)

Direction(t) == IF t = "motion" THEN "input" ELSE "output"
BitBangs(t) == t # "light" /\ (t = "strip" => ~build.spi)
Unconfigured(t) ==
    {i \in DOMAIN PinsOf(t) : BitBangs(t) /\ lines_[PinsOf(t)[i]] = "none"}

\* A process that ended has no threads.
NoThreads == [t \in User |-> "none"]

\* configure(): the next pin of the thread.  A line it had is released first,
\* also when the new request fails.
IsNext(t, i) == i \in Unconfigured(t) /\ \A j \in Unconfigured(t) : i <= j
RequestsLeft(p) == IF lines_[p] = "none" THEN requests[p] ELSE requests[p] - 1
Configure(t) ==
    /\ user[t] = "configure" /\ chip_ = "open"
    /\ \E i \in DOMAIN PinsOf(t) : LET p == PinsOf(t)[i] IN
          /\ IsNext(t, i)
          /\ requests' = [requests EXCEPT ![p] = RequestsLeft(p) + 1]
          /\ lines_' = [lines_ EXCEPT ![p] = Direction(t)]
    /\ UNCHANGED <<build, dev, candidates, chip_, registers_, fd_, devicePath_, kernel, burst, user, end>>
ConfigureFails(t) ==
    /\ user[t] = "configure"
    /\ \E i \in DOMAIN PinsOf(t) : LET p == PinsOf(t)[i] IN
          /\ IsNext(t, i)
          /\ IF chip_ = "open"
             THEN /\ requests' = [requests EXCEPT ![p] = RequestsLeft(p)]
                  /\ lines_' = [lines_ EXCEPT ![p] = "none"]
                  /\ end' = "kernel"
             ELSE end' = "misuse" /\ UNCHANGED <<lines_, requests>>
    /\ user' = NoThreads
    /\ UNCHANGED <<build, dev, candidates, chip_, registers_, fd_, devicePath_, kernel, burst>>

\* acquireBurst(): the registers are handed out for lines that are all outputs,
\* if the value path has registers.
BurstRegisters == registers_ = "mapped"
BurstFor(pins) ==
    IF BurstRegisters /\ \A p \in pins : lines_[p] = "output" THEN pins ELSE {}

\* The matrix asks for the registers once its pins are configured.
Begin(t) ==
    /\ user[t] = "configure" /\ Unconfigured(t) = {}
    /\ burst' = IF t = "display" THEN BurstFor(PinSet(t)) ELSE burst
    /\ user' = [user EXCEPT ![t] = "run"]
    /\ UNCHANGED <<build, dev, candidates, memberVars, kernel, requests, end>>

\* What an operation of thread t needs of its device: getConfiguredLine and
\* ensureInitialized, an open port, a device that was found, and the registers
\* for a burst, which nothing looks at.
DeviceIsReady(t) ==
    /\ BitBangs(t) => chip_ = "open" /\ \A p \in PinSet(t) : lines_[p] = Direction(t)
    /\ BitBangs(t) /\ build.mapped => registers_ = "mapped"
    /\ t = "strip" /\ build.spi => fd_ >= 0
    /\ t = "light" => devicePath_ # "empty"

\* An operation throws, because the kernel refuses it or because the device is
\* not ready for it.  Values that go through registers ask nothing of the kernel.
Throws(t, callsKernel) ==
    /\ user[t] = "run"
    /\ DeviceIsReady(t) => callsKernel
    /\ end' = IF DeviceIsReady(t) THEN "kernel" ELSE "misuse"
    /\ user' = NoThreads
    /\ UNCHANGED <<build, dev, candidates, memberVars, kernel, requests, burst>>
CallsKernel == ~build.mapped
ReadOrWriteThrows(t) == BitBangs(t) /\ Throws(t, CallsKernel)
TransferThrows(t) == t = "strip" /\ build.spi /\ Throws(t, TRUE)
ReadAnalogThrows(t) == t = "light" /\ Throws(t, TRUE)
UseFails(t) == ReadOrWriteThrows(t) \/ TransferThrows(t) \/ ReadAnalogThrows(t)

EndUse(t) ==
    /\ user[t] = "run"
    /\ user' = [user EXCEPT ![t] = "ended"]
    /\ UNCHANGED <<build, dev, candidates, memberVars, kernel, requests, burst, end>>

-----------------------------------------------------------------------------
BackendTypeOK ==
    /\ build \in Builds
    /\ dev \in {"probe", "examine", "validate", "valuePath", "mmap", "spi", "configure", "adc",
                "search", "up", "failed", "destroy", "destroyGpio", "destroyValuePath", "gone"}
    /\ candidates \in 0..ChipPaths
    /\ chip_ \in {"null", "open"} /\ registers_ \in {"null", "mapped"}
    /\ fd_ \in {-1, 0} /\ devicePath_ \in {"empty", "found"}
    /\ lines_ \in [Pin -> {"none", "input", "output"}]
    /\ kernel \in [Handle -> {0, 1}]
    /\ requests \in [Pin -> {0, 1}]
    /\ burst \subseteq Pin
    /\ user \in [User -> {"none", "configure", "run", "ended"}]
    /\ end \in {"no", "kernel", "misuse"}

\* What the kernel holds open is what the objects will give back: no path out
\* of initialize(), through any of its failures, forgets a chip, a mapping, a
\* port or a directory, nor does configure() forget a request.
KernelAgrees ==
    /\ kernel["chip"] = IF chip_ = "open" \/ dev = "examine" THEN 1 ELSE 0
    /\ kernel["mapping"] = IF registers_ = "mapped" THEN 1 ELSE 0
    /\ kernel["gpiomem"] = IF registers_ = "mapped" \/ dev = "mmap" THEN 1 ELSE 0
    /\ kernel["spidev"] = IF fd_ >= 0 THEN 1 ELSE 0
    /\ kernel["directory"] = IF dev = "search" THEN 1 ELSE 0
    /\ \A p \in Pin : requests[p] = IF lines_[p] = "none" THEN 0 ELSE 1

\* Writes through the registers go to lines this process has requested as
\* outputs, as long as the matrix may write.
BurstPinsAreOwned ==
    \A p \in burst : user["display"] = "run" =>
        registers_ = "mapped" /\ lines_[p] = "output" /\ requests[p] = 1

\* No thread meets a device that is not initialized, not configured for what it
\* does or already destroyed: only the kernel makes an operation throw.
OnlyTheKernelAborts == end # "misuse"

\* Objects, kernel and threads agree about the devices, whichever call fails: what
\* is held is known, what is written through registers is held, and a thread
\* finds its device usable unless the kernel fails it.
DevicesAreOwned == KernelAgrees /\ BurstPinsAreOwned /\ OnlyTheKernelAborts
=============================================================================
