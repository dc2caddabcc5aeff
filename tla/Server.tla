------------------------------- MODULE Server -------------------------------
(***************************************************************************)
(* The HTTP server (src/pulsar): its configuration, the main thread, which *)
(* starts the workers, sleeps in its event loop until a signal ends it and *)
(* then takes everything down again, and the workers, each with an event   *)
(* loop that serves requests and is ended by a byte on a pair of sockets.  *)
(* Every allocation and every call into the kernel may fail; an assertion  *)
(* that fails in a worker aborts the process.                              *)
(***************************************************************************)
EXTENDS Web, Sequences, FiniteSets

CONSTANTS
    MaxWorkers,        \* the most workers the options ask for
    DefaultWorkers,    \* how many there are without options
    MaxRequests        \* how many requests a run may have

Worker == 1 .. MaxWorkers
ASSUME ServerAssumption ==
    /\ MaxWorkers \in Nat \ {0} /\ DefaultWorkers \in Worker
    /\ MaxRequests \in Nat

VARIABLES
    srv,         \* where the main thread is in the server
    i,           \* its loop counter
    workers,     \* cfg->workers
    heap,        \* heap[o]: how many of o are allocated
    log_fd, fd,  \* the descriptors in the logger and in the server, -1 if none
    files,       \* files[f]: descriptors the kernel holds for the log and the listening socket
    w,           \* the workers
    sockets,     \* sockets[k]: ends of the pair of worker k the kernel holds
    signals,     \* signals with an event
    loopexit,    \* the main event loop was asked to end
    result,      \* what pulsar_main returns
    killed,      \* what ended the process, if anything did
    served       \* the requests accepted so far
serverVars == <<srv, i, workers, heap, log_fd, fd, files, w, sockets, signals, loopexit, result,
                killed, served>>

Object == {"log", "cfg", "server", "array"}
NoWorker == [allocated |-> 0, started |-> FALSE, stopRequested |-> FALSE, stopSockets |-> {},
             byte |-> FALSE, loopexit |-> FALSE, thread |-> "none", request |-> <<>>]

ServerInit ==
    /\ srv = "log" /\ i = 1 /\ workers = DefaultWorkers
    /\ heap = [o \in Object |-> 0]
    /\ log_fd = -1 /\ fd = -1
    /\ files = [f \in {"log", "listen"} |-> 0]
    /\ w = [k \in Worker |-> NoWorker]
    /\ sockets = [k \in Worker |-> 0]
    /\ signals = {} /\ loopexit = FALSE
    /\ result = "none" /\ killed = "no"
    /\ served = <<>>

Malloc(h, o) == [h EXCEPT ![o] = @ + 1]
Free(h, O) == [o \in Object |-> IF o \in O THEN h[o] - 1 ELSE h[o]]

-----------------------------------------------------------------------------
(* pulsar_parse_args.  exit() ends the process where it is.                *)

\* log_new: the logger lives also without its file.
LogNew ==
    /\ srv = "log" /\ srv' = "conf"
    /\ \/ UNCHANGED <<heap, log_fd, files>>
       \/ /\ heap' = Malloc(heap, "log")
          /\ \/ log_fd' = 0 /\ files' = [files EXCEPT !["log"] = @ + 1]
             \/ log_fd' = -1 /\ UNCHANGED files
    /\ UNCHANGED <<i, workers, fd, w, sockets, signals, loopexit, result, killed, served>>

ConfNew ==
    /\ srv = "conf"
    /\ \/ /\ heap' = Malloc(heap, "cfg")
          /\ srv' = IF heap["log"] = 0 THEN "exited" ELSE "options"
       \/ /\ srv' = "exited"
          /\ UNCHANGED heap
    /\ UNCHANGED <<i, workers, log_fd, fd, files, w, sockets, signals, loopexit, result, killed, served>>

\* -w, and the options that change nothing that matters here.
WorkersOption(n) ==
    /\ srv = "options"
    /\ workers' = n
    /\ UNCHANGED <<srv, i, heap, log_fd, fd, files, w, sockets, signals, loopexit, result, killed, served>>

\* -l: log_set_file closes the old file first.
LogOption ==
    /\ srv = "options"
    /\ LET closed == IF log_fd >= 0 THEN files["log"] - 1 ELSE files["log"]
       IN  \/ /\ log_fd' = 0
              /\ files' = [files EXCEPT !["log"] = closed + 1]
              /\ UNCHANGED srv
           \/ /\ log_fd' = -1
              /\ files' = [files EXCEPT !["log"] = closed]
              /\ srv' = "exited"
    /\ UNCHANGED <<i, workers, heap, fd, w, sockets, signals, loopexit, result, killed, served>>

\* -h, an option there is not, or a value that parse_number does not take.
BadOption ==
    /\ srv = "options"
    /\ srv' = "exited"
    /\ UNCHANGED <<i, workers, heap, log_fd, fd, files, w, sockets, signals, loopexit, result, killed, served>>

EndOfOptions ==
    /\ srv = "options"
    /\ srv' = "parsed"
    /\ UNCHANGED <<i, workers, heap, log_fd, fd, files, w, sockets, signals, loopexit, result, killed, served>>

ParseArgs ==
    \/ LogNew \/ ConfNew \/ LogOption \/ BadOption \/ EndOfOptions
    \/ \E n \in Worker : WorkersOption(n)

-----------------------------------------------------------------------------
(* server_new.  What fails frees what it made; pulsar_main frees the rest. *)

LogFree ==
    /\ files' = IF log_fd >= 0 THEN [files EXCEPT !["log"] = @ - 1] ELSE files
    /\ log_fd' = -1

PulsarFails(made) ==
    /\ heap' = Free(heap, made \cup {"cfg", "log"})
    /\ LogFree
    /\ result' = "failure"
    /\ srv' = "done"

ServerNew ==
    /\ srv = "new"
    /\ \/ heap' = Malloc(heap, "server") /\ srv' = "array" /\ UNCHANGED <<log_fd, files, result>>
       \/ PulsarFails({})
    /\ UNCHANGED <<i, workers, fd, w, sockets, signals, loopexit, killed, served>>

NewArray ==
    /\ srv = "array"
    /\ \/ heap' = Malloc(heap, "array") /\ srv' = "workers" /\ UNCHANGED <<log_fd, files, result>>
       \/ PulsarFails({"server"})
    /\ i' = 1
    /\ UNCHANGED <<workers, fd, w, sockets, signals, loopexit, killed, served>>

\* worker_new.  When it fails, the workers before this one are freed.
\* Fault: the first of them is forgotten.
WorkerNew_offByOne ==
    /\ srv = "workers"
    /\ \/ /\ w' = [w EXCEPT ![i].allocated = @ + 1]
          /\ i' = IF i = workers THEN 1 ELSE i + 1
          /\ srv' = IF i = workers THEN "base" ELSE srv
          /\ UNCHANGED <<heap, log_fd, files, result>>
       \/ /\ w' = [k \in Worker |-> IF k \in 2 .. i - 1 THEN [w[k] EXCEPT !.allocated = @ - 1] ELSE w[k]]
          /\ PulsarFails({"server", "array"})
          /\ UNCHANGED i
    /\ UNCHANGED <<workers, fd, sockets, signals, loopexit, killed, served>>
WorkerNew ==
    /\ srv = "workers"
    /\ \/ /\ w' = [w EXCEPT ![i].allocated = @ + 1]
          /\ i' = IF i = workers THEN 1 ELSE i + 1
          /\ srv' = IF i = workers THEN "base" ELSE srv
          /\ UNCHANGED <<heap, log_fd, files, result>>
       \/ /\ w' = [k \in Worker |-> IF k < i THEN [w[k] EXCEPT !.allocated = @ - 1] ELSE w[k]]
          /\ PulsarFails({"server", "array"})
          /\ UNCHANGED i
    /\ UNCHANGED <<workers, fd, sockets, signals, loopexit, killed, served>>

-----------------------------------------------------------------------------
(* server_start.  What fails goes to server_free.                          *)

ServerFree(rc) == srv' = "stop" /\ i' = 1 /\ result' = rc

\* event_base_new, and an event for each of the signals.
EventBaseNew ==
    /\ srv = "base"
    /\ \/ srv' = "sigint" /\ UNCHANGED <<i, result>>
       \/ ServerFree("failure")
    /\ UNCHANGED <<workers, heap, log_fd, fd, files, w, sockets, signals, loopexit, killed, served>>
AddSignal(sig, next) ==
    /\ srv = sig
    /\ \/ srv' = next /\ signals' = signals \cup {sig} /\ UNCHANGED <<i, result>>
       \/ ServerFree("failure") /\ UNCHANGED signals
    /\ UNCHANGED <<workers, heap, log_fd, fd, files, w, sockets, loopexit, killed, served>>
AddSignals == AddSignal("sigint", "sighup") \/ AddSignal("sighup", "socket")

\* server_setup_socket: what fails after socket() closes it.
SetupSocket ==
    /\ srv = "socket"
    /\ \/ srv' = "bind" /\ files' = [files EXCEPT !["listen"] = @ + 1] /\ UNCHANGED <<i, result>>
       \/ ServerFree("failure") /\ UNCHANGED files
    /\ UNCHANGED <<workers, heap, log_fd, fd, w, sockets, signals, loopexit, killed, served>>
BindAndListen ==
    /\ srv = "bind"
    /\ \/ srv' = "pair" /\ fd' = 0 /\ i' = 1 /\ UNCHANGED <<files, result>>
       \/ ServerFree("failure") /\ files' = [files EXCEPT !["listen"] = @ - 1] /\ UNCHANGED fd
    /\ UNCHANGED <<workers, heap, log_fd, w, sockets, signals, loopexit, killed, served>>

\* worker_start: the sockets, then the thread; without it they are closed.
SocketPair ==
    /\ srv = "pair"
    /\ \/ /\ srv' = "create"
          /\ sockets' = [sockets EXCEPT ![i] = 2]
          /\ w' = [w EXCEPT ![i].stopSockets = {0, 1}]
          /\ UNCHANGED <<i, result>>
       \/ ServerFree("failure") /\ UNCHANGED <<w, sockets>>
    /\ UNCHANGED <<workers, heap, log_fd, fd, files, signals, loopexit, killed, served>>
CreateWorker ==
    /\ srv = "create"
    /\ \/ /\ w' = [w EXCEPT ![i].started = TRUE, ![i].thread = "main"]
          /\ i' = IF i = workers THEN i ELSE i + 1
          /\ srv' = IF i = workers THEN "dispatch" ELSE "pair"
          /\ UNCHANGED <<sockets, result>>
       \/ /\ w' = [w EXCEPT ![i].stopSockets = {}]
          /\ sockets' = [sockets EXCEPT ![i] = 0]
          /\ ServerFree("failure")
    /\ UNCHANGED <<workers, heap, log_fd, fd, files, signals, loopexit, killed, served>>

\* event_base_dispatch returns when the loop was asked to end, or fails.
Dispatch ==
    /\ srv = "dispatch" /\ loopexit
    /\ ServerFree("success")
    /\ UNCHANGED <<workers, heap, log_fd, fd, files, w, sockets, signals, loopexit, killed, served>>
DispatchFails ==
    /\ srv = "dispatch"
    /\ ServerFree("failure")
    /\ UNCHANGED <<workers, heap, log_fd, fd, files, w, sockets, signals, loopexit, killed, served>>

-----------------------------------------------------------------------------
(* server_free.                                                            *)

\* worker_stop, for one after the other: a byte to a worker that was started.
\* Fault: the flag is set, and the byte is not sent.
WorkerStop_sendsNothing ==
    /\ srv = "stop"
    /\ w' = IF w[i].started /\ ~w[i].stopRequested
            THEN [w EXCEPT ![i].stopRequested = TRUE] ELSE w
    /\ i' = IF i = workers THEN 1 ELSE i + 1
    /\ srv' = IF i = workers THEN "free" ELSE srv
    /\ UNCHANGED <<workers, heap, log_fd, fd, files, sockets, signals, loopexit, result, killed, served>>
\* Fault: the signals lose their events before the workers end.
WorkerStop_signalsFirst ==
    /\ srv = "stop"
    /\ w' = IF w[i].started /\ ~w[i].stopRequested
            THEN [w EXCEPT ![i].stopRequested = TRUE, ![i].byte = TRUE] ELSE w
    /\ i' = IF i = workers THEN 1 ELSE i + 1
    /\ srv' = IF i = workers THEN "free" ELSE srv
    /\ signals' = {}
    /\ UNCHANGED <<workers, heap, log_fd, fd, files, sockets, loopexit, result, killed, served>>
WorkerStop ==
    /\ srv = "stop"
    /\ w' = IF w[i].started /\ ~w[i].stopRequested
            THEN [w EXCEPT ![i].stopRequested = TRUE, ![i].byte = TRUE] ELSE w
    /\ i' = IF i = workers THEN 1 ELSE i + 1
    /\ srv' = IF i = workers THEN "free" ELSE srv
    /\ UNCHANGED <<workers, heap, log_fd, fd, files, sockets, signals, loopexit, result, killed, served>>

\* worker_free: joins the thread, closes the ends that are left.
\* Fault: it does not wait for the thread.
WorkerFree_doesNotJoin ==
    /\ srv = "free"
    /\ sockets' = [sockets EXCEPT ![i] = @ - Cardinality(w[i].stopSockets)]
    /\ w' = [w EXCEPT ![i].stopSockets = {}, ![i].allocated = @ - 1]
    /\ i' = IF i = workers THEN 1 ELSE i + 1
    /\ srv' = IF i = workers THEN "signals" ELSE srv
    /\ UNCHANGED <<workers, heap, log_fd, fd, files, signals, loopexit, result, killed, served>>
WorkerFree ==
    /\ srv = "free"
    /\ w[i].started => w[i].thread = "done"
    /\ sockets' = [sockets EXCEPT ![i] = @ - Cardinality(w[i].stopSockets)]
    /\ w' = [w EXCEPT ![i].stopSockets = {}, ![i].allocated = @ - 1]
    /\ i' = IF i = workers THEN 1 ELSE i + 1
    /\ srv' = IF i = workers THEN "signals" ELSE srv
    /\ UNCHANGED <<workers, heap, log_fd, fd, files, signals, loopexit, result, killed, served>>

\* event_del: from here on the signals have their default action.
DeleteSignals ==
    /\ srv = "signals"
    /\ signals' = {}
    /\ srv' = "release"
    /\ UNCHANGED <<i, workers, heap, log_fd, fd, files, w, sockets, loopexit, result, killed, served>>

\* Who closes the listening socket closes the number in s->fd: the first worker
\* that ends has closed the socket (evhttp_free, see LeaveLoop), and all others and
\* server_free close the number again.  That is refused, or it meets a file some
\* thread has opened since; numbers are not modelled, and it has no effect here.
CloseListening(f) == [f EXCEPT !["listen"] = 0]

Release ==
    /\ srv = "release"
    /\ heap' = Free(heap, Object)
    /\ LET closed == IF fd >= 0 THEN CloseListening(files) ELSE files
       IN  files' = IF log_fd >= 0 THEN [closed EXCEPT !["log"] = @ - 1] ELSE closed
    /\ fd' = -1 /\ log_fd' = -1
    /\ srv' = "done"
    /\ UNCHANGED <<i, workers, w, sockets, signals, loopexit, result, killed, served>>

RunServer ==
    ServerNew \/ NewArray \/ WorkerNew \/ EventBaseNew \/ AddSignals \/ SetupSocket \/ BindAndListen
        \/ SocketPair \/ CreateWorker \/ Dispatch \/ WorkerStop \/ WorkerFree \/ DeleteSignals \/ Release

-----------------------------------------------------------------------------
(* The workers.                                                            *)

mainVars == <<srv, i, workers, heap, log_fd, fd, signals, result>>

\* A process that ended has no threads.
NoWorkerThreads == [k \in Worker |-> [w[k] EXCEPT !.thread = "none"]]

\* worker_main up to its loop ...
WorkerMain(k) ==
    /\ w[k].thread = "main"
    /\ w' = [w EXCEPT ![k].thread = "loop"]
    /\ UNCHANGED <<mainVars, files, sockets, loopexit, killed, served, webVars>>

\* ... where every step is asserted, and so is that the loop does not fail.
AssertionFails(k) ==
    /\ w[k].thread \in {"main", "loop"}
    /\ killed' = "assertion" /\ w' = NoWorkerThreads
    /\ UNCHANGED <<mainVars, files, sockets, loopexit, served, webVars>>

\* A request is accepted ...
Accept(k, request) ==
    /\ w[k].thread = "loop" /\ Len(served) < MaxRequests
    /\ served' = Append(served, request)
    /\ w' = [w EXCEPT ![k].thread = "handler", ![k].request = request]
    /\ UNCHANGED <<mainVars, files, sockets, loopexit, killed, webVars>>

\* server_stop: SIGHUP for the main thread.  Without an event it would end the
\* process at once.
Raise(sig, cause) ==
    IF sig \in signals THEN loopexit' = TRUE /\ UNCHANGED killed
                       ELSE killed' = cause /\ UNCHANGED loopexit

\* ... and worker_handler has it answered.
WorkerHandler(k) ==
    /\ w[k].thread = "handler"
    /\ w' = [w EXCEPT ![k].thread = "loop", ![k].request = <<>>]
    /\ IF ~Available THEN UNCHANGED <<loopexit, killed, hits>>
       ELSE LET h == FindWebHandler(w[k].request)
            IN  /\ hits' = [hits EXCEPT ![h] = @ + 1]
                /\ IF Stops(h) THEN Raise("sighup", "stop") ELSE UNCHANGED <<loopexit, killed>>
    /\ UNCHANGED <<mainVars, files, sockets, served, webHandlers, objects>>

\* worker_stop_handler drains the byte and asks the loop to end.
WorkerStopHandler(k) ==
    /\ w[k].thread = "loop" /\ w[k].byte
    /\ w' = [w EXCEPT ![k].byte = FALSE, ![k].loopexit = TRUE]
    /\ UNCHANGED <<mainVars, files, sockets, loopexit, killed, served, webVars>>

\* The loop ends; the worker frees what it made, with evhttp_free the listening
\* socket, which is not its own, and closes its own end of the pair.
LeaveLoop(k) ==
    /\ w[k].thread = "loop" /\ w[k].loopexit
    /\ w' = [w EXCEPT ![k].thread = "closing"]
    /\ files' = CloseListening(files)
    /\ UNCHANGED <<mainVars, sockets, loopexit, killed, served, webVars>>
CloseOwnSocket(k) ==
    /\ w[k].thread = "closing"
    /\ sockets' = [sockets EXCEPT ![k] = @ - 1]
    /\ w' = [w EXCEPT ![k].thread = "done", ![k].stopSockets = @ \ {0}]
    /\ UNCHANGED <<mainVars, files, loopexit, killed, served, webVars>>

WorkerStep(k) ==
    WorkerMain(k) \/ WorkerHandler(k) \/ WorkerStopHandler(k) \/ LeaveLoop(k) \/ CloseOwnSocket(k)

\* Someone sends the process a signal.
Signal(sig) ==
    /\ Raise(sig, "user")
    /\ w' = IF sig \in signals THEN w ELSE NoWorkerThreads
    /\ UNCHANGED <<mainVars, files, sockets, served, webVars>>

-----------------------------------------------------------------------------
WorkerRecord ==
    [allocated : {0, 1}, started : BOOLEAN, stopRequested : BOOLEAN, stopSockets : SUBSET {0, 1},
     byte : BOOLEAN, loopexit : BOOLEAN,
     thread : {"none", "main", "loop", "handler", "closing", "done"},
     request : Requests \cup {<<>>}]
ServerTypeOK ==
    /\ srv \in {"log", "conf", "options", "exited", "parsed", "new", "array", "workers", "base",
                "sigint", "sighup", "socket", "bind", "pair", "create", "dispatch", "stop", "free",
                "signals", "release", "done"}
    /\ i \in Worker /\ workers \in Worker
    /\ heap \in [Object -> {0, 1}]
    /\ log_fd \in {-1, 0} /\ fd \in {-1, 0}
    /\ files \in [{"log", "listen"} -> {0, 1}]
    /\ w \in [Worker -> WorkerRecord]
    /\ sockets \in [Worker -> 0 .. 2]
    /\ signals \subseteq {"sigint", "sighup"} /\ loopexit \in BOOLEAN
    /\ result \in {"none", "success", "failure"}
    /\ killed \in {"no", "user", "stop", "assertion"}
    /\ served \in Seq(Requests) /\ Len(served) <= MaxRequests

\* A worker that runs never meets what server_free, or a start that failed
\* half-way, has freed or closed, whichever of the others had started by then.
\* Only the listening socket may be gone under it: a worker that ends takes it
\* along, and none does before server_free has begun to stop them.
Runs(k) == w[k].thread \notin {"none", "done"}
HasLeft(k) == w[k].thread \in {"closing", "done"}
WorkersFindWhatTheyUse ==
    \A k \in Worker : Runs(k) =>
        /\ w[k].allocated = 1 /\ heap["server"] = 1 /\ heap["cfg"] = 1 /\ heap["log"] = 1
        /\ fd >= 0
        /\ files["listen"] = 1 \/ (srv \in {"stop", "free"} /\ \E l \in Worker : HasLeft(l))
        /\ 0 \in w[k].stopSockets /\ sockets[k] = 2
        /\ Available /\ \A h \in Handler : objects[h] = 1

\* Every answered request was counted once, by the handler of its method and
\* path, or by the one for any HEAD or for what is not found: a lost or double
\* count would show here, and a HEAD or an unknown method that stops the program.
HandlerFor(r) ==
    IF r \in DOMAIN Table THEN Table[r] ELSE IF r[1] = "head" THEN uriHead ELSE uriNotFound
Accepted(h) == {n \in DOMAIN served : HandlerFor(served[n]) = h}
InProgress(h) == {k \in Worker : w[k].request # <<>> /\ HandlerFor(w[k].request) = h}
RequestsAreCounted ==
    \A h \in Handler : hits[h] = Cardinality(Accepted(h)) - Cardinality(InProgress(h))

\* A request to stop, served by any worker at any time, reaches a main thread
\* that handles the signal: it never kills the process.
StopNeverKills == killed # "stop"
=============================================================================
