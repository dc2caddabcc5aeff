# A formal model of oclock

oclock drives a wall clock: an LED matrix (HT1632 chips), a strip of LEDs
(LPD8806), a motion sensor and a light sensor, with a web interface (an embedded
HTTP server, pulsar) and an MQTT client.  It is one C++ process with seven
threads of its own, the workers of the web server, and a handful of mutexes.

This directory holds TLA+ modules that model the parts of the program where its
correctness depends on the order of things, TLC configurations that check them on
small instances, and TLAPS proofs of their safety properties for every instance.
`PROJECT.json` maps every definition to the lines it models and lists the runs,
the faults each property was shown to catch, the hazards, the findings and the
theorems.

    tlc -workers 2 -config MCTimerTick.cfg MCTimerTick     # a run
    tlapm TimerTickProofs.tla                              # the proofs of a module

Contents: [1 the system](#1-the-system), [2 the modules](#2-the-modules-and-the-code),
[3 the runs](#3-the-runs), [4 fairness](#4-fairness), [5 the proofs](#5-the-proofs),
[6 findings](#6-where-the-code-disagrees-with-what-is-said-of-it),
[7 what is not modelled](#7-what-is-not-modelled), [8 plan](#8-plan).

## 1 The system

### Parts

| Part | State it keeps | Operations | What makes it correct |
| --- | --- | --- | --- |
| TimerTick (`src/src/timerTick.*`) | registry cookie -> raw pointer to a service; per service cookie, `ticksLeft`, a latched flag or a condition variable | register, start, unregister; the 12 ms loop | no dangling pointer, every interval fires on its tick, no waiter is stranded |
| Inbox, InboxRegistry (`inbox.*`) | one queue of messages per thread, created on demand | getInbox, broadcast, addMessage, getMessage, waitForMessage, clear | a broadcast reaches whoever has an inbox |
| main and the thread loops (`main.cpp`, `*threadMain*`, `runThreadLoop` of each part) | the threads, the singletons | start everything, serve, Terminate, join, tear down | shutdown is missed by nobody, completes, and leaves nothing behind |
| Dictionary (`dictionary.*`) | map key -> entry with an optional timer; counters of its status | add, set, del, get, getFirst/getNext, purge | behaves as a map although expired entries linger |
| Display (`display.cpp`, `displayInternal.cpp`) | queue of posts, mode, data of the message mode, chips' brightness | one post and the due handlers per round | messages end when asked, are visible, empty rooms go dark |
| MotionSensor, LightSensor | reading and time since its change; window of samples | one read per second | no wrap of the counters, no flicker |
| HT1632 driver (`ht1632/`) | words of pixels per board, flags and marks of what to rewrite, the chips' selection and brightness | draw, clear, transition, render word by word, refresh | no old pixel is left, no word goes to the wrong chip, survives noise on the pins |
| LED strip (`ledStrip*.cpp`, `lpd8806/`) | mode, its timeout, pixels | one post and the due handlers per round | modes end, no state leaks from one to the next |
| MQTT client (`mqttClient.cpp`) | connection, dampers, gate of its ticks, what was published | publish on change, report, reconnect | reconnects; retained topics are not left stale |
| GPIO, SPI and ADC backends (`gpio/`, `spi/`, `adc/`) | handles, line requests, mappings, pins owned for bursts | probe, open, configure, read and write, close | nothing leaks when a step fails, nothing is used before it is there |
| pulsar (`pulsar/`) | configuration, sockets, one event loop per worker | start, serve, signal, stop, join, free | one worker that fails does not take the others' memory with it; a stop always ends it |
| Web handlers (`webHandlerInternal.cpp`) | table path -> handler with its hits | look up, parse a posted body, hand the parameters to a part | every request is counted once, every form is understood as it was sent |
| Status report (`statusReport*.cpp`) | nothing | reads all the others and files of the host | reads only what exists; numbers are whole or absent; the JSON is JSON |

### How they interact

*Ticks.*  The TimerTick thread wakes everyone: Display and LedStrip on a fast tick,
the sensors once a second through condition variables, MqttClient and Dictionary by
messages to their inbox.  The services live on the stacks of those threads (or in
entries of the dictionary), the registry only points to them.

*Posts.*  Web workers queue a post with Display or LedStrip under its lock, and
change the Dictionary directly.

*Broadcasts.*  Display (mode, brightness) and MotionSensor (motion) tell everybody;
main() broadcasts Terminate.

*Devices.*  main() opens them before any thread runs and destroys them after the last
one is joined; the sensors, the display and the strip use them in between, and an
exception there ends the process.

*Requests.*  pulsar's workers share a listening socket, look up a handler in the table
main() filled, and run it.  `/stop` raises a signal that ends the main event loop; the
main thread then stops and joins the workers, and `pulsar_main` returns to main().

*Calls.*  Display reads the sensors and the Dictionary; status reports read all.
The locks are taken in an acyclic order: Display before Dictionary, the sensors and
InboxRegistry; Dictionary before TimerTick; TimerTick before the condition variable
or inbox of a service; InboxRegistry before an Inbox.  No part calls back up.

### What is hard

The loop of TimerTick follows pointers whose owners come and go; threads block on a
tick whose thread must be the last to stop; a thread may be told to terminate before
it has begun to run; `bind()` creates a singleton on first use, also during the
tear-down; a `set` and an iteration of the dictionary take several critical sections;
expired entries remain until touched; message modes count with unsigned and signed
integers that have a special value; the chips may be disturbed at any time; words that
need no rewriting are skipped while chips advance their own addresses; a network comes
and goes under retained topics that subscribers believe; a dozen calls into the kernel
and the allocator may fail one by one while threads are already running; a signal may
come at any time, also while workers are being started.
`PROJECT.json` lists these hazards, each at its line, with the properties that cover
it or the reason none does.

## 2 The modules and the code

| Module | Models | Checked by | Proofs |
| --- | --- | --- | --- |
| `TimerTick` | `timerTick.{h,cpp}` | `MCTimerTick` | `TimerTickProofs` |
| `InboxRegistry` | `inbox.{h,cpp}`, as operators on the registry | through `Lifecycle` | |
| `Lifecycle` | `main.cpp`, the loops of all the threads | `MCLifecycle` | `LifecycleProofs` |
| `DictionaryMap` | what callers of the dictionary may rely on | through `Dictionary` | |
| `Dictionary` | `dictionary.{h,cpp}` | `MCDictionary` | `DictionaryProofs` |
| `MotionSensor` | `motionSensor.cpp` | through `Display` | `DisplayProofs` |
| `Matrix` | `lightSensor.cpp`, `updateDim`, `checkHT1632`, configuration in `HT1632.cpp` | through `Display` | `DisplayProofs` |
| `Face` | the car animation and the background tables of `displayInternal.cpp`, as functions | through `Display` | `DisplayProofs` |
| `Display` | `display.cpp`, the modes of `displayInternal.cpp`; composes the three above | `MCDisplay` | `DisplayProofs` |
| `LedStrip` | `ledStrip.cpp`, `ledStripInternal.cpp`, the pixel buffer of `LPD8806.cpp` | `MCLedStrip` | `LedStripProofs` |
| `Mqtt` | `mqttClient.cpp`; library, broker and network as it uses them | `MCMqtt` | `MqttProofs` |
| `Pixels` | addresses, images, texts and bit orders of `HT1632.cpp`, as functions | through `HT1632` | `HT1632Proofs` |
| `HT1632` | buffers, rendering, selection and brightness of `HT1632.cpp`, and the chips | `MCHT1632` | `HT1632Proofs` |
| `Backend` | `gpio/`, `spi/`, `adc/` and the threads' use of them | through `Program` | `ProgramProofs` |
| `Web` | the table of handlers in `webHandlerInternal.cpp` | through `Program` | `ProgramProofs` |
| `Server` | `pulsar/`; uses `Web` for what a request does | through `Program` | `ProgramProofs` |
| `Forms` | pages, `parsePost` and the parameters the post handlers look for, as functions | through `Program` | `ProgramProofs` |
| `Status` | `statusReport.cpp`, as functions | through `Program` | `ProgramProofs` |
| `Program` | `main.cpp`; composes `Backend`, `Web` and `Server`, with the functions of `Forms` and `Status` | `MCProgram` | `ProgramProofs` |

Definitions keep the names of the code.  An operator named `X_fault` is a faulty
variant of `X`, the change a plausible mistake would make; no specification uses it.
For every property a fault is recorded in `PROJECT.json` that makes TLC find it
violated.

**TimerTick.**  Owners act on one service at a time under the lock of the registry;
a tick is `TickBegin`, one `TickVisit` per registered service in any order (the
registry is an unordered map) and `TickEnd`, all under that lock.  What owners do
*without* the lock - `getAndResetExpired`, returning from `wait`, reading the inbox,
opening the gate of a conditional service - interleaves with the visits.  `age` and
`firedAt` are history variables that count ticks for `FiresOnTime`.  Usage the code
keeps to is in the guards: a service is unregistered before it is destroyed, and one
that a thread blocks on is periodic and started when registered.

**Lifecycle.**  `main()` goes through its phases with `mainPc`; each thread has a
`pc`.  Threads come in three shapes (blocked on a tick, blocked on the inbox, the
tick thread), so the model is parameterised by the set of threads of each shape.
One tick is one action here; its interleavings are those of TimerTick.  `internal`
is the pointer to the heap object of Display and LedStrip with the two steps of
`delete internal; internal = nullptr`, which no lock protects from the report of the
MQTT thread.  `live` is the set of singletons that exist.

**Dictionary.**  Every action is one critical section.  An entry holds its data, the
kind of its timeout, whether its timer still has ticks left, and an identity.  The
second half of a `set` is an action of its own, as other clients come between.
Readers iterate with a cursor, and remove expired entries on the way as `get` does.
The variable `answer` is what the last call returned; `Visible` hides what has
expired, and with it `Dictionary` is shown to implement `DictionaryMap`.

**Display.**  A round of the thread is five actions: the post and the handlers of the
fast, 250 ms, 500 ms and 1 s ticks.  The thread holds the display's lock during the
round, so web workers post only between rounds, but the sensors and the tick thread
run on: each handler may see another reading.  `Int32U` and `int` are given the width
`MaxInt`, so that a test of three-bit integers reaches every wrap.  `asked`, `elapsed`
and `shown` are history variables.  The boot message of `initDisplay` is the initial
state.

**MotionSensor** keeps the three byte counters with their carries and the saturating
hours.  **Matrix** keeps the samples, the hysteresis, and what the driver believes
apart from what the chips do: `Glitch` changes the latter.

**LedStrip.**  `pixels` is the buffer of the driver and `strip` what `show()` last
sent; both are sets of lit pixels, as no property is about a particular color.  A
round is the post, the fast handler, and the handlers of the ticks that are due, with
`checkIfModeTimedOut` after the one of a second.  A frame of the scan is one action
per pixel it visits, since the strip is refreshed after each.  The static variables of
the scan and of the counter survive a change of mode, as in the code.  A post is what
the code makes of its parameters: a timeout may be missing, a number, or no number
(for which the code takes 0).  `elapsed`, `ended`, `painted`, `wrapped` and `tint` are
history variables.  `Terminate` clears the strip, and `Stopped` is the state after it.
Posts and `Terminate` happen between rounds: the thread holds the lock during a round
and looks at its inbox after it.

**Mqtt.**  The thread's `pc` follows `runThreadLoop`: open the gate and wait, take a
message, handle it, let the library work, decide about a report and a reconnect.  News
of motion and display enter the inbox at any time; `net` says whether the broker is out
of reach, turns the client away or is up, `conn` is the connection as library and broker
have it and `connected` the flag of the code, which lags behind it.  A publication while
there is no connection is dropped, and what the broker retains is "old" until a later one
arrives.  `source` is what the sensors and the display last told, `retained` what the
broker tells a new subscriber; the properties relate the two.  The tick thread asks the
gate (`CheckGate`) and sends its message (`SendTick`) in two steps with nothing locked
between them that the client would take, so that a tick may arrive behind a gate that has
just been shut; until it has sent (`firing`), it lets no damper expire and no service be
changed.  `late` counts such ticks and `behind` what arrived while the library works.

**HT1632.**  `render()` is one action per address, because noise (`Glitch`) may come
between two words; the other calls are one action each.  A chip is a memory, an address
of its own that advances with each word, a select line driven through a shift register,
an LED switch and a level.  Boards are the buffers of the colors; the last buffer is the
secondary one of the transitions.  After a disturbance nothing is claimed until the
chips are initialized again (`disturbed`).  **Pixels** has what is pure: the
address of a pixel, the copying of an image at every offset (on symbolic pixels, since
the code never looks at one), the columns of a text, the bits on the wire.

**Backend, Web, Server, Program.**  `Program` is main() as a sequence of stages, and each
stage is a step of one of the others.  In `Backend` every call into the kernel succeeds
or fails; `kernel` and `requests` count what the kernel holds for the process, the
other variables are the members of the objects, and `KernelAgrees` relates the two.  In
`Server` the main thread goes through configuration, allocation, listening, launching,
the event loop, stopping, joining and freeing, with the early returns and labels of the
code; each worker has its own phases, and asserts where the code does.  A worker that
ends takes the listening socket, which all share, along (`evhttp_free`), and the others
and the server close its number again (`CloseListening`).  `heap` counts
allocations, so a second free is a negative count.  `Web` has the table, its lookups and
counters.  Two builds are checked, with mapped registers and an SPI port and without.

**Forms, Status, Face, Pixels** are functions of their inputs: a step of the parser, of a
reader, of an animation or of the copying per character, line, round or word.  Where
they are checked over many inputs, the property is evaluated in one initial state of the
run.  What a user or the kernel may write is a constant (`SentForms`, `Bodies`,
`LoadTokens`, `MemFiles`, `Texts`): a run gives it all short inputs, the proofs take any.
What the repository has no code for, the encoding of a form by a browser (`FormBody`) and
a reader of JSON (`JsonString`, `IsJson`), is there to say what arriving and being read
back mean; a form in these properties has no zero bytes in it, and at least one field.

## 3 The runs

| Run | Question | States |
| --- | --- | --- |
| `timertick` | Do registering, starting, unregistering and destroying interleave with a tick without a dangling pointer or a cookie that disagrees with the registry (`RegistryIsSound`), an interval off by a tick (`FiresOnTime`) or a stranded waiter (`WaiterWillBeWoken`, and as liveness `WaitReturnsEventually`)? | 358 000 |
| `lifecycle` | From start to exit, with a server that may return at once: does everybody get Terminate, and is nobody left waiting for a stopped tick thread (`NobodyIsStranded`)?  Are services withdrawn, do singletons outlive their users, and are all gone at exit (`TearDownIsOrderly`)?  Does the process end once the server has returned (`ShutdownCompletes`)? | 111 000 |
| `lifecycle_report` | Does a report follow `internal` only while the object exists?  Violated, section 6. | |
| `dictionary` | Two clients race for two keys while the purge iterates: do counters, timers and sets agree with the entries (`StoreIsSound`), do iterations miss nothing (`IterationMissesNothing`), is the dictionary the map of `DictionaryMap` to its callers (`MapSpec`), and do entries leave the memory without being asked for (`EntriesExpire`)? | 484 000 |
| `display_safety` | Do messages end in time or after their repeats (`MessagesEnd`) and stay visible (`SteadyMessageIsVisible`), and does an empty room stay idle (`IdleUntilMotion`)?  Do the car and the backgrounds follow what was told last (`FaceFollowsItsNews`)? | 2 476 000 |
| `display_live` | Does the brightness stay put between the water marks (`NoFlicker`), do disturbed chips come back (`ChipsFollowTheLight`), does motion turn the display on and an empty room turn it off (`DisplayFollowsTheRoom`)? | 313 000 |
| `display_timeout`, `display_repeats` | Is what the comments say of `timeout` and `repeats` so?  Violated, section 6. | |
| `ledstrip` | Do modes end in time and leave a dark strip (`TimeoutIsKept`)?  Does nothing of one mode leak into the next (`ModesDoNotMix`, `CounterShowsItsValue`)?  Does the strip return to the manual mode (`StripReturnsToManual`), and the scan sweep all of it (`ScanSweeps`)? | 450 000 |
| `mqtt` | Is no `on` left behind in an empty room, and do retained topics tell the truth unless a publication was lost (`NoTopicIsStale`)?  Do ticks not pile up behind a slow library (`TicksDoNotPileUp`: while it works there arrive no more than were past the gate when it was shut), does the client find back to a broker that is up (`ClientReconnects`), and is motion reported again after every damper (`MotionIsReportedAgain`)? | 708 000 |
| `ht1632` | Is every word that is shown wrongly flagged or marked, and does a render show the buffer (`NoOldPixelStays`)?  Is one chip selected at a time and in step with `render()` (`ChipsAreSelectedAlone`), do fades and refreshes keep the brightness (`ChipsKeepTheBrightness`)?  On the whole screen: has each pixel a bit of its own, do images and texts land where they should, do chips get the bits that were meant (`ScreenShowsWhatIsDrawn`)? | 596 000 |
| `program` | With every call into the kernel and every allocation failing once: is nothing closed or freed twice but the listening socket (`TypeOK`), do the members agree with what the kernel holds, are pins written through registers owned, and is it only the kernel that makes a thread throw (`DevicesAreOwned`)?  Do workers find what they use, the listening socket at least until server_free stops them (`WorkersFindWhatTheyUse`), is every request counted once (`RequestsAreCounted`), is a stop never fatal (`StopNeverKills`), does it always lead to the end (`StopEndsTheProgram`), and is nothing left then (`NothingIsLeft`)?  Over all short inputs: do forms arrive as sent through the parser and the handlers (`FormsArriveAsSent`), is the status whole, escaped and JSON (`StatusIsTrueAndReadable`)? | 378 000 |

A property that is a conjunction names its parts, each with its own comment in the
module.  The types of the state are proved for every module, and checked in `program`,
where they say that nothing is closed or freed twice, the listening socket apart.
Deadlock is checked in all runs but `ht1632`, where the bound on the number of calls ends
every behaviour: the threads never stop by themselves, and the end is an explicit action
(`Over` in Lifecycle and Program, `Stopped` in LedStrip, the terminated thread of Mqtt).

### Bounds

* `timertick`: one service of each kind - a cv tick of exactly 12 ms (two ticks), a
  one-shot of 11 ms (one), a conditional message service with a negative interval.
  `MaxCookie = 4` lets each register and one register again; `MaxMsgs = 2` lets a
  backlog form.  The proofs cover all other instances.
* `lifecycle`: two cv threads, one message thread and the tick thread; `Display` owns the
  `internal` object a report reads.  LedStrip and LightSensor have the shape of Display
  and MotionSensor, the thread of the dictionary that of MqttClient without the reports.
  `MaxInbox = 1` ordinary message per inbox puts Terminate behind a backlog.  A tick
  message that finds the inbox at the bound is left out, as is a broadcast that would
  exceed it.  The proofs are for any number of threads.
* `dictionary`: two keys give every order of two entries and a cursor between them; two
  clients are needed for the race inside a `set`.  `MaxId = 2` entries lets the second
  client come between the halves of a `set`, and an entry be replaced.  The data is one
  value, the empty string: the dictionary only passes data on, and the empty string is
  the value that could be taken for no answer.  The proofs, the refinement among them,
  are for any keys, data, clients, readers and number of entries.
* `display_*`: integers of three bits (`MaxInt = 3`; 2 in `display_live`), posts at the edges: 0, 1, 2 and
  unlimited seconds; 0, 1, unlimited and the least int of repeats; a minute of two
  seconds, an hour of two minutes, two hours.  One post waits (`MaxTodo = 1`), since
  the thread takes one per round.  `display_live` has one message with a time limit, the
  shortest times, two channels of light that read low or high, which gives samples below,
  between and above the water marks, a window of two samples, one disturbance, and a
  refresh every third half second, so that the count of the refresh and its reset by a
  message both happen.  Only values relative to these bounds matter to the code, and the
  proofs about Display are for every value of them.
  The tables of `Face` have two entries and its counter a limit of three, with five calls
  and two posts; the proofs are for any numbers of these.
* `ledstrip`: three pixels, the least number for a scan that turns in the middle of a
  frame (two pixels per frame) and for a counter of two bits beside the last pixel.
  `CounterSize = 4`, and one post starts the counter just before it wraps.  Timeouts
  are none, no number, 0, 1 and -1.  One post waits, as one is taken per round.
* `mqtt`: one topic of the display beside that of motion; at most one tick waits
  in the inbox when the gate is asked, and one other message (`MaxTicks`, `MaxNews`), so
  that a tick that was on its way and news can come in while the library works.  The topics are independent, and the proofs are
  for any number of them.
* `ht1632`: two chips with two words for each of two boards, and words of one row: the
  least in which a skipped word ends a session, a session passes from chip to chip and
  one board is rendered while another is stale.  Six calls, each render taking as many
  steps as there are words, and two disturbed states: everything selected and everything
  garbage, or one chip selected and no address known.  The functions of Pixels are
  evaluated for every pixel, every height from four to sixteen rows at every offset, all
  texts of up to three characters, every word, address and level; the proofs are for
  every width of the screen, length of a text and font.
* `program`: two workers, so that one can fail before, between and after the other, and
  two requests, one of each method that is treated differently; one path of a GPIO chip
  to pass over, two pins of the matrix, one of the strip.  Bodies of up to four
  characters and forms of two fields, files of up to three lines, strings of up to three
  characters, over an alphabet with every delimiter and one of each other class.
  Integers of the load have 16 bits (`UintMax`), so that texts of six characters reach
  beyond the largest.  The proofs about Program are for any numbers of workers, paths,
  pins and requests, for bodies, forms, files and texts of any length, and for any
  `UintMax` of at least 1099, below which the code's subtraction would itself wrap (it
  is 2^32 - 1 in the code).

## 4 Fairness

* TimerTick: weak fairness of the tick loop (it sleeps 12 ms and takes a lock held
  only for the length of a call), of `wait` returning once satisfied, and of reading
  mail that has arrived.
* Lifecycle: weak fairness of `main()` and of every thread.  The server returning is
  not fair: it is up to the user.
* Dictionary: the timer of every entry fires in the end, and readers go on iterating
  (the purge runs on every tick message).  Clients are not fair.
* Display: rounds go on, ticks come due, and the sensor is read while it reads the
  same; nothing makes a reading change, nobody has to post, and noise and the light
  are free.
* LedStrip: rounds go on and ticks expire until the thread is stopped.  Posts and
  `Terminate` are not fair.
* Mqtt: weak fairness of the thread, of the two steps of its loop tick, and of the
  keep-alive by which the library finds a broken connection; strong fairness of the dampers
  of reconnecting and of motion, since the tick thread has them expire between the
  ticks it sends, and it comes back to them every round.  A broker
  in reach answers, and not always in the instant between `mosquitto_loop` and a reconnect
  of the client (strong fairness of `BrokerAnswers /\ pc # "decide"`): an answer in that
  instant is lost by the reconnect at `src/src/mqttClient.cpp:188`, and without this
  assumption every answer could be.  The network need not come up: `ClientReconnects`
  speaks of behaviours in which it stays up.
* Program: some thread that can run does, as long as there is one.  Nobody has to ask for
  anything, and no device, event loop or assertion has to fail: `DeviceThrows` and
  `EventsFail` are not fair, so that a stop has to find its way through the signal, the
  end of the main loop, the bytes to the workers and the joins.

All of it amounts to this: a thread that can run is scheduled, and the tick thread
runs until it is told to stop.

## 5 The proofs

All are of the form `Spec => []P` (or `Spec => [][A]_v`, and one refinement) and
assume only the named `ASSUME` of the module about its constants, which TLC evaluates
in the runs.  None assumes finiteness of the sets of services, threads or keys.

* **TimerTickProofs.** `RegistrySound` (from `RegistryConsistent` and `NoDangling`),
  `TimelyFiring`, `NoStrandedWaiter`, `TypeCorrect`.  The properties alone are not
  inductive: that a service fires on time needs `age + ticksLeft = StartTicks` for
  running countdowns, and that a waiter is woken needs that a registered cv service
  never stops counting.  These, and that outside a tick nothing is left to visit, are
  `Countdowns`.
* **LifecycleProofs.** `NobodyStranded` (from `TerminateReachesAll` and
  `NoStrandedThread`), `OrderlyTearDown`, `TypeCorrect`, for any sets of threads,
  periods and order.  The invariant says what main() has achieved in each phase
  (`Phases`: inboxes exist before launch, threads joined so far are done), that only
  main() stops the tick thread, after the joins (`TickStops`), and that a client has a
  service exactly while it is in its loop (`Services`).  `OrderlyTearDown` joins
  `ServicesWithdrawn` with `SingletonsStay` and `NothingStays` about the singletons,
  which follow from a second invariant on top of it: when the tear-down begins everybody
  has been joined, and what it has passed stays away (`TornDown`), since only the
  dictionary brings another singleton back, and TimerTick comes after it.
* **DictionaryProofs.** `StoreSound` (from `CountersAddUp`, `NoTimerLeaks` and
  `SetReplaces`), `IterationComplete`, `TypeCorrect`, and `ImplementsMap`: the
  refinement `MapSpec`.  The invariant has a part for the store, the clients and the
  readers; a step changes the store by an erasure, a firing or an insertion, and clients
  and readers need only know that what is in the map was there before or is new
  (`Evolves`).
* **DisplayProofs.** `MessagesDoEnd` (from `TimedMessageEnds` and `RepeatsEnd`),
  `SteadyIsVisible`, `IdleIsStable`, `TypeCorrect`, for every width of the integers.
  The invariant ties the counts to the history: `timeout = asked.timeout - elapsed`,
  `repeats = asked.repeats - shown` while a message is shown.  `LightDoesNotFlicker`
  rests on bounds of the mean: the sum of the first i samples is between i times the
  least and i times the greatest.  `FaceIsCurrent` joins `CarDrivesWithMotion`, by
  induction over the calls (the count is at most k, below its limit, exactly if there
  was an `on` and since then at most k calls that found an entry), and
  `BackgroundsFollowPosts`, by induction over the posts (an entry of the table is the
  one post that lives in it, or none).
* **LedStripProofs.** `TimeoutKept` (from `TimedModeEnds` and `DarkAfterTimeout`),
  `ModesKeptApart` (from `ScanShowsOnePixel` and `FillIsAsAsked`), `TypeCorrect`, for
  every length of the strip, size of a frame and set of posts, and `RainbowLightsAll`
  about the wheel of colors.  `CounterIsShown`: the pixels lit are the bits set in the
  value, as a step redraws the bits up to the highest of the new value and none above
  it was set before (lemmas on quotients by powers of two).  The invariant adds that the
  count of a timed mode is what is left of its time and never negative (`TimeLeft`), that
  a mode ended by a timeout is the manual one and that only the scan is ever inside a
  frame (`Sequencing`).
* **MqttProofs.** `TopicsAreCurrent` (from `EmptyRoomHolds` and `SubscribersHold`),
  `NoTicksPileUp`, `TypeCorrect`, for any topics, values and bounds.  The invariant
  follows news on their way: the last news of a topic in the inbox is what its source
  told last, and if there is none the message at hand is; what was handled last is what
  is retained, or what is retained is old (`DisplayIsCurrent`, `MotionIsCurrent`); an `on`
  that the broker retains is remembered as published (`OnIsRemembered`), so that an
  `off` is due for it; and the gate is shut from the tick until the thread waits again,
  so that no tick passes it in that time and those that had are all there are
  (`GateIsShut`).
* **HT1632Proofs.** `NoOldPixels` (from `MarksHold` and `RenderHolds`),
  `SelectionHolds`, `BrightnessHolds`, `TypeCorrect`, for any number of chips, words,
  colors, rows, calls and disturbances.  The invariant says that a session is open only
  inside a render, for the chip the last word was in (`SessionIsCurrent`), and that the
  words the render is past are shown (`PastWordsAreShown`).  Beneath it are lemmas on
  quotients and remainders (no two words share a place) and on the shift register
  (pushing one bit through it selects one chip).  `ScreenIsAsDrawn` joins what the
  functions of `Pixels` do: `PixelsAreApart` (the address of a pixel can be taken apart
  again), `TextsAreAsWide` and `ImagesAreCopied` by induction over the characters and
  over the words of an image (which rows have been copied so far, and that what is
  carried over is the rest of the word before), and `ChipsReceiveIt`.
* **ProgramProofs.** `TypeCorrect`, `DevicesStayOwned`, `WorkersAreSafe`,
  `RequestsStayCounted`, `StopIsSafe`, `EverythingIsGivenBack`, for any numbers of
  workers, requests, pins and paths, whichever of the steps fails.  That nothing is left
  at the end is not inductive: the invariant has to say, for each place `main()` may be
  in, what is allocated, open and running there.  `DeviceStages` and `UserStages` do so
  for the devices and the threads that use them; `ServerStages` and `WorkerStages` for
  the server, whose cleanup starts from any of a dozen early exits and must free the
  workers that were made and join those that were started, no others; `WebStages` for
  the table; `Phases` says how far each of them can be in each phase of `main()`, and
  that a process that was killed has no threads.  A request is counted once because a
  worker holds it exactly while it is in a handler: the hits of a handler are the
  requests accepted for it less those in progress.  `Listening` is for the socket the
  workers share: none is told to end before server_free, so who closed it under the server
  is a worker that has ended.
  `EveryFormArrivesAsSent` joins three theorems about `Forms`.  `PostsFitTheirBuffer`: a
  character of the body moves the largest index written to by at most one
  (`ParseCharTyped`).  `PostsAreParsedAsSent`: the body is cut into what was made of each
  field (`FlattenPlaces`), and by induction over the characters of a text
  (`TextCollected`) and over the fields (`FieldCollected`) the parser stands, behind each
  piece, with exactly the fields so far in its map, the last of each name
  (`AreOfOneMore`).  `FormsAreUnderstoodEverywhere`: no field is the beginning of a name
  that is compared before its own.
  `EveryStatusIsTrueAndReadable` joins four about `Status`.  `LoadsAreReadOrRefused`: the
  guard in front of every digit refuses exactly the numbers beyond `MaxWhole`
  (`AddDigitLaw`), so nothing wraps around (`WholeIsDecimal`).
  `SystemStatusesAreWholeOrNothing`: what `Discard` leaves, by the two flags.
  `JsonEscapesAreReversible`: the reader, started on what was written of a character, ends
  with that character read and nothing pending (`ReadsPiece`), hence on a text too.
  `StatusDocumentsAreWellFormed`: a block is a run of tokens that may follow each other,
  is as deep at its end as at its begin and never less deep between (`IsBlock`); blocks
  whose ends fit join to blocks (`BlocksJoin`), and braces around one make JSON
  (`ObjectIsJson`).

Induction over data.  The library's induction theorems cannot be instantiated by the
provers at hand, but a least counterexample can be taken: a nonempty set of natural
numbers has a least element (`LeastNatural`, from the well-foundedness of `<`), so a set
that holds 0 and successors holds all numbers up to n (`InductionUpTo`), and a function
given by a first value and a step exists (`RecursionExists`).  With these three lemmas the
properties of functions that go through a sequence of any length are proved, if they are
written as recursive functions.

Only model-checked: every liveness property (the prover has no support for fairness and
`ENABLED`).  Every other property that a passing run checks is also the statement of a
theorem.  The modules avoid `RECURSIVE` operators, which the prover does not support.

## 6 Where the code disagrees with what is said of it

* `lifecycle_report`: `src/src/statusReportGather.cpp:13-15` relies on each singleton
  guarding its own state.  At the end of its loop the display thread runs
  `delete internal; internal = nullptr` without the lock under which the getters test
  and follow the pointer (`src/src/display.cpp:203`; LedStrip does the same at
  `src/src/ledStrip.cpp:180`), while a report of the MQTT thread may be in progress.
* `display_timeout`: the comment at `src/src/displayInternal.cpp:100` calls `timeout`
  the maximal number of seconds, with ~0 for forever.  The count is decremented before
  it is tested and 0 wraps to ~0: a message with timeout 0 stays.
* `display_repeats`: the comment at `src/src/displayInternal.cpp:98` calls `repeats`
  the number of times the message is displayed.  It is displayed once more than that.

## 7 What is not modelled

Where the clock face puts its digits; fonts, images, fortunes and other tables of data.
The text status page and the wording of the HTML pages: formatting.  The string helpers
of `commonUtils`.  Parsing of the options of the MQTT client and the counters of its
status.  The encoding of colors on the wire of the LPD8806, and colors beyond lit and
dark: pure I/O.  The timing of edges on the pins and the waits inside a frame of the
scan.  HTTP itself, which is libevent's; a failing `send()` in `worker_stop`.  The
numbers of descriptors: an owner closes its own file, whatever number it has (see the
first observation below for the one place where that matters).  The cut of background
messages at 119 bytes (`src/src/displayInternal.cpp:1217`).
Failure to create one of main()'s own threads, which the code does not handle.  The
programs under `src/misc`.
`CounterShowsItsValue` says nothing after the 64-bit counter has wrapped: the loop at
`src/src/ledStripInternal.cpp:278` stops at the highest bit of the value, so the bits
above it keep what they showed.

Observations made on the way, which are no findings because nothing in the repository
says otherwise:

* Each worker's `evhttp_free` (`src/pulsar/worker.c:100`) closes the listening socket, and
  `src/pulsar/server.c:126` does so at last.  A worker that has just been created when
  another ends would accept on a closed number, and its assertion may fail; and by the second
  close the number may be that of a file another thread has opened since (the socket of
  MQTT, a file of /proc, a line of a thread that is still configuring its pins), which is
  then lost to it.  The properties of the devices assume that this does not hit theirs.
* An image whose height is not a multiple of four spills the padding of its last word onto
  the rows below it unless it is put at the top of a word; one of less than four rows
  would be cut when it is not (no image in the repository is so low).
* `render()` clears no flag: words once drawn to are sent again until `clear()`.  The
  transitions of the driver have no caller.
* The prefix `largestChangedLed` of the LPD8806 driver is compiled out (`#if 0`):
  `show()` always sends the whole buffer.
* A pair `a=b=c` in a posted body gives `a` the value `c`, and `%00` ends a value early.
  The field `rawFormat` of the strip's page is ignored (the FIXME at
  `src/src/ledStripInternal.cpp:61`).  The root page links to `/sound`, for which there is
  no handler.
* The car of the garage drives on while an entry that is no longer `on` is still there,
  as the comment at `src/src/displayInternal.cpp:453` says; when the last of the entries
  expires it stops at once.

## 8 Plan

Done, in this order: TimerTick, InboxRegistry and Lifecycle, Dictionary with its
abstract map, MotionSensor, Matrix and Display, LedStrip, Mqtt, HT1632 with Pixels,
each with its proofs; then Backend, Web, Server and their composition Program, and the
functions of Forms, Status and Face; then the proofs about Program, the counter of the
strip, the mean of the light sensor and the functions of Pixels and Face; at last those
about Forms and Status, with which every safety property is proved.

Left:

1. That the single-step tick of Lifecycle is what TimerTick does: a refinement.
2. An abstract specification of what a subscriber of the retained topics sees, which
   Mqtt implements while nothing is lost.
3. Where the clock face puts its digits, and the options of the MQTT client.
