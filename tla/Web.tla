-------------------------------- MODULE Web --------------------------------
(***************************************************************************)
(* The table of web handlers (src/src/webHandlerInternal.cpp): main()      *)
(* fills it before it starts a thread and deletes it after all threads are *)
(* joined; the workers of the HTTP server look handlers up in it and count *)
(* their hits under its mutex, and run them without it.                    *)
(***************************************************************************)
EXTENDS Integers

CONSTANT Requests    \* what clients ask for: pairs of a method and a path
ASSUME WebAssumption == Requests \subseteq STRING \X STRING

VARIABLES
    webHandlers,     \* from keys to handlers; empty without the instance
    objects,         \* objects[h]: handlers h that are allocated
    hits             \* hits[h]: how often h was looked up
webVars == <<webHandlers, objects, hits>>

uriNotFound == <<"get", "__notFound">>
uriHead == <<"head", "/">>

\* _start(): a handler for each key, but the root page is one object with two.
\* Handlers are named by their keys.
Forms == {"/msgMode", "/imgBackground", "/msgBackground", "/ledStrip", "/dictionary"}
Key ==
    ({"get", "post"} \X Forms)
        \cup {uriNotFound, uriHead, <<"get", "/">>, <<"get", "/index.html">>, <<"get", "/status">>,
              <<"get", "/status.json">>, <<"get", "/stop">>, <<"post", "/stop">>}
Table == [k \in Key |-> IF k = <<"get", "/index.html">> THEN <<"get", "/">> ELSE k]
Handler == {Table[k] : k \in DOMAIN Table}
Stops(h) == h \in {<<"get", "/stop">>, <<"post", "/stop">>}

WebInit ==
    /\ webHandlers = <<>>
    /\ objects = [h \in Handler |-> 0]
    /\ hits = [h \in Handler |-> 0]

\* bind().start()
StartWeb ==
    /\ webHandlers' = Table
    /\ objects' = [h \in Handler |-> objects[h] + 1]
    /\ UNCHANGED hits

\* shutdown(): the handlers are collected in a set and then deleted.
\* Fault: they are deleted key by key.
ShutdownWeb_byKey ==
    /\ objects' = [h \in Handler |->
          IF \E k, l \in DOMAIN webHandlers :
                 k # l /\ webHandlers[k] = h /\ webHandlers[l] = h
          THEN objects[h] - 2 ELSE objects[h] - 1]
    /\ webHandlers' = <<>>
    /\ UNCHANGED hits
ShutdownWeb ==
    LET webHandlerPtrs == {webHandlers[k] : k \in DOMAIN webHandlers}
    IN  /\ objects' = [h \in Handler |->
              IF h \in webHandlerPtrs THEN objects[h] - 1 ELSE objects[h]]
        /\ webHandlers' = <<>>
        /\ UNCHANGED hits

\* process(): the keys that are looked up for a request, one after the other.
Lookups(request) ==
    IF request[1] = "head" THEN <<request, uriHead, uriNotFound>> ELSE <<request, uriNotFound>>

\* findWebHandler() for each of them, until one is found, whose hits it bumps.
\* Fault: the method of the request is left out of the key.
FindWebHandler_anyMethod(request) ==
    LET known == {k \in DOMAIN webHandlers : k[2] = request[2]}
    IN  IF known = {} THEN webHandlers[uriNotFound] ELSE webHandlers[CHOOSE k \in known : TRUE]
FindWebHandler(request) ==
    LET keys == Lookups(request)
        found == {i \in DOMAIN keys : keys[i] \in DOMAIN webHandlers}
    IN  webHandlers[keys[CHOOSE i \in found : \A j \in found : i <= j]]

\* handleRequest() without an instance answers that there is no server.
Available == webHandlers # <<>>

WebTypeOK ==
    /\ webHandlers \in {<<>>, Table}
    /\ objects \in [Handler -> {0, 1}]
    /\ hits \in [Handler -> Nat]
=============================================================================
