------------------------------ MODULE Program ------------------------------
(***************************************************************************)
(* main() (src/src/main.cpp) from the first device to the last destructor: *)
(* it initializes the devices, fills the table of web handlers, reads the  *)
(* options, starts the threads that use the devices, runs the HTTP server, *)
(* and when that returns it ends the threads, deletes the table and        *)
(* returns, which destroys the devices.  Module Lifecycle has the messages *)
(* and the ticks this takes; here it is about what each part leaves behind *)
(* and what the others find, when any of the steps fails.                  *)
(***************************************************************************)
EXTENDS Backend, Server, Forms, Status

VARIABLE main     \* where main() is
vars == <<main, backendVars, serverVars, webVars>>

Init ==
    /\ BackendInit /\ ServerInit /\ WebInit
    /\ main = "devices"

\* The process is there and has something left to do.
Running == end = "no" /\ killed = "no" /\ srv # "exited" /\ dev # "gone"

-----------------------------------------------------------------------------
InitializeDevice ==
    /\ main = "devices"
    /\ InitializeDevices
    /\ UNCHANGED <<main, serverVars, webVars>>

\* A device that fails makes main() return.
DeviceFailed ==
    /\ main = "devices" /\ dev = "failed"
    /\ dev' = "destroy"
    /\ main' = "return"
    /\ UNCHANGED <<build, candidates, memberVars, kernel, requests, burst, user, end, serverVars, webVars>>

StartHandlers ==
    /\ main = "devices" /\ dev = "up"
    /\ StartWeb
    /\ main' = "options"
    /\ UNCHANGED <<backendVars, serverVars>>

ReadOptions ==
    /\ main = "options"
    /\ ParseArgs
    /\ UNCHANGED <<main, backendVars, webVars>>

StartThreads ==
    /\ main = "options" /\ srv = "parsed"
    /\ user' = [t \in User |-> IF t = "light" THEN "run" ELSE "configure"]
    /\ srv' = "new"
    /\ main' = "server"
    /\ UNCHANGED <<build, dev, candidates, memberVars, kernel, requests, burst, end, webVars,
                   i, workers, heap, log_fd, fd, files, w, sockets, signals, loopexit, result,
                   killed, served>>

PulsarMain ==
    /\ main = "server"
    /\ RunServer
    /\ UNCHANGED <<main, backendVars, webVars>>

\* The message to terminate goes to every thread.
BroadcastTerminate ==
    /\ main = "server" /\ srv = "done"
    /\ main' = "join"
    /\ UNCHANGED <<backendVars, serverVars, webVars>>

JoinThreads ==
    /\ main = "join"
    /\ \A t \in User : user[t] = "ended"
    /\ main' = "shutdown"
    /\ UNCHANGED <<backendVars, serverVars, webVars>>

\* The singletons are deleted; main() returns.
ShutdownAndReturn ==
    /\ main = "shutdown"
    /\ ShutdownWeb
    /\ dev' = "destroy"
    /\ main' = "return"
    /\ UNCHANGED <<build, candidates, memberVars, kernel, requests, burst, user, end, serverVars>>

Destroy ==
    /\ main = "return"
    /\ DestroyDevices
    /\ UNCHANGED <<main, serverVars, webVars>>

MainThread ==
    InitializeDevice \/ DeviceFailed \/ StartHandlers \/ ReadOptions \/ StartThreads \/ PulsarMain
        \/ BroadcastTerminate \/ JoinThreads \/ ShutdownAndReturn \/ Destroy

-----------------------------------------------------------------------------
\* A thread ends its loop when it finds the message.
UserThread(t) ==
    /\ \/ Configure(t) \/ Begin(t)
       \/ main = "join" /\ EndUse(t)
    /\ UNCHANGED <<main, serverVars, webVars>>

DeviceThrows(t) ==
    /\ ConfigureFails(t) \/ UseFails(t)
    /\ w' = NoWorkerThreads
    /\ UNCHANGED <<main, webVars, srv, i, workers, heap, log_fd, fd, files, sockets, signals,
                   loopexit, result, killed, served>>

\* What kills the process leaves no thread.
OthersUnlessKilled ==
    /\ user' = IF killed' = "no" THEN user ELSE NoThreads
    /\ UNCHANGED <<main, build, dev, candidates, memberVars, kernel, requests, burst, end>>

WorkerThread(k) == WorkerStep(k) /\ OthersUnlessKilled

\* An event loop fails, or a call a worker asserts the success of.
EventsFail ==
    \/ /\ main = "server" /\ DispatchFails
       /\ UNCHANGED <<main, backendVars, webVars>>
    \/ /\ \E k \in Worker : AssertionFails(k)
       /\ OthersUnlessKilled

Client ==
    /\ \/ \E k \in Worker, request \in Requests : Accept(k, request)
       \/ \E sig \in {"sigint", "sighup"} : Signal(sig)
    /\ OthersUnlessKilled

Over == ~Running /\ UNCHANGED vars

Thread ==
    \/ MainThread
    \/ \E t \in User : UserThread(t)
    \/ \E k \in Worker : WorkerThread(k)

Next ==
    \/ /\ Running
       /\ \/ Thread
          \/ \E t \in User : DeviceThrows(t)
          \/ EventsFail
          \/ Client
    \/ Over

\* The scheduler does not leave all threads waiting that can run; nobody has to
\* ask for anything, and neither a device nor an event loop has to fail.
Fairness == WF_vars(Running /\ Thread)

Spec == Init /\ [][Next]_vars /\ Fairness

-----------------------------------------------------------------------------
\* Types, and that nothing is allocated, opened, freed or closed twice, but for the
\* listening socket, which every worker and then the server close.
TypeOK ==
    /\ BackendTypeOK /\ ServerTypeOK /\ WebTypeOK
    /\ main \in {"devices", "options", "server", "join", "shutdown", "return"}

\* A process that returns from main(), because a device failed, the server did
\* not start or someone stopped it, has given back every line, mapping, port,
\* file and socket, has freed what the server and the web handlers allocated,
\* and has no thread left.
NothingIsLeft ==
    dev = "gone" =>
        /\ \A h \in Handle : kernel[h] = 0
        /\ \A p \in Pin : requests[p] = 0
        /\ \A f \in DOMAIN files : files[f] = 0
        /\ \A o \in Object : heap[o] = 0
        /\ \A k \in Worker : sockets[k] = 0 /\ w[k].allocated = 0 /\ ~Runs(k)
        /\ \A h \in Handler : objects[h] = 0
        /\ \A t \in User : user[t] \in {"none", "ended"}

\* Asked to stop, by a request or a signal, the program comes to its end: main()
\* returns, unless something kills the process before.
StopEndsTheProgram == loopexit ~> ~Running

-----------------------------------------------------------------------------
\* The functions of Forms and Status have no state: a run evaluates them once.
AtFirst == dev = "probe" /\ candidates = ChipPaths /\ build.mapped

\* What is chosen on a page reaches the part it is for as it was chosen (texts up to
\* the length that part keeps), and no body sent instead does harm on the way.
FormsArriveAsSent == AtFirst => PostIsParsedAsSent /\ PostFitsItsBuffer /\ FormsAreUnderstood

\* The status page says what the host says, or zeros for a file it cannot read and
\* for an available memory the host does not tell, and can be read.
StatusIsTrueAndReadable ==
    AtFirst => /\ LoadIsReadOrRefused /\ SystemStatusIsWholeOrNothing
               /\ JsonEscapeIsReversible /\ StatusJsonIsWellFormed
=============================================================================
