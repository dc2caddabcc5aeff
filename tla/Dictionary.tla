----------------------------- MODULE Dictionary -----------------------------
(***************************************************************************)
(* The dictionary of src/src/dictionary.{h,cpp}: a map from keys to data   *)
(* with an optional time to live, shared by the web workers (posts), the   *)
(* display thread (lookups), the status reports (iteration) and a thread   *)
(* of its own that purges what has expired.                                *)
(*                                                                         *)
(* Every action is one critical section under instanceMutex, so the two    *)
(* halves of a `set' and the steps of an iteration interleave with         *)
(* everything else.  An expired entry stays in the map until somebody      *)
(* touches it.  The timer of an entry is a service of module TimerTick,    *)
(* which fires without the dictionary's lock; only whether it has fired    *)
(* matters here.  getDictionaryStatus only reads, under a lock of its own. *)
(***************************************************************************)
EXTENDS Naturals, FiniteSets

CONSTANTS
    Key,     \* the keys, numbered in the order std::map keeps them in
    Data,    \* what can be stored, the empty string included
    Client,  \* the threads that post and look up
    Reader,  \* the threads that iterate: the purging one, status reports
    MaxId    \* bound: entries ever added

ASSUME DictionaryAssumption ==
    /\ Key \subseteq Nat \ {0}
    /\ MaxId \in Nat
    /\ Client \cap Reader = {}

\* The empty key: `before the first one', and never the key of an entry.
NoKey == 0

\* What std::stoi makes of the timeout: noExpiration (-1), a time from now,
\* any other negative number, or an exception.
Timeout == {"never", "timed", "past", "malformed"}

VARIABLES
    dictionaryEntries,  \* key -> entry
    timers,             \* the entries whose timer is registered with TimerTick
    nextId,             \* history: how many entries were added, plus one
    entriesAdded, entriesRemoved, entriesExpired,  \* dictionaryStatus
    pc,                 \* "idle", or "adding" inside a set
    request,            \* the post a client is in the middle of
    since,              \* history: nextId when that post began
    answer,             \* what the last call returned, and to whom
    active,             \* the readers in the middle of an iteration
    cursor,             \* the key each reader holds
    from,               \* history: nextId when the iteration began
    seen                \* history: the entries the iteration returned

statusVars == <<entriesAdded, entriesRemoved, entriesExpired>>
clientVars == <<pc, request, since>>
readerVars == <<active, cursor, from, seen>>
vars == <<dictionaryEntries, timers, nextId, statusVars, clientVars, answer, readerVars>>

NoRequest == [key |-> NoKey, data |-> "none", timeout |-> "never"]

Init ==
    /\ dictionaryEntries = [k \in {} |-> NoRequest]
    /\ timers = {}
    /\ nextId = 1
    /\ entriesAdded = 0 /\ entriesRemoved = 0 /\ entriesExpired = 0
    /\ pc = [c \in Client |-> "idle"]
    /\ request = [c \in Client |-> NoRequest]
    /\ since = [c \in Client |-> 0]
    /\ answer = [to |-> "nobody", is |-> "nothing"]
    /\ active = {}
    /\ cursor = [r \in Reader |-> NoKey]
    /\ from = [r \in Reader |-> 0]
    /\ seen = [r \in Reader |-> {}]

Answer(t, a) == answer' = [to |-> t, is |-> a]

-----------------------------------------------------------------------------
(* Entries.                                                                *)

\* DictionaryData::getIsExpired.
Expired(k) ==
    /\ dictionaryEntries[k].timeout # "never"
    /\ dictionaryEntries[k].ticks = "none"

Live == {k \in DOMAIN dictionaryEntries : ~Expired(k)}

\* Fault: the entry is deleted without withdrawing its timer.
EraseEntries_keepsTimer(keys, old) ==
    /\ dictionaryEntries' =
          [k \in DOMAIN dictionaryEntries \ keys |-> dictionaryEntries[k]]
    /\ entriesRemoved' = entriesRemoved + Cardinality(keys)
    /\ entriesExpired' = entriesExpired + Cardinality(old)
    /\ UNCHANGED timers

\* Erase the entries with the given keys and delete them, which withdraws
\* their timers; `old' of them are counted as expired.
EraseEntries(keys, old) ==
    /\ dictionaryEntries' =
          [k \in DOMAIN dictionaryEntries \ keys |-> dictionaryEntries[k]]
    /\ timers' = timers \ {dictionaryEntries[k].id : k \in keys}
    /\ entriesRemoved' = entriesRemoved + Cardinality(keys)
    /\ entriesExpired' = entriesExpired + Cardinality(old)

\* Dictionary::remove, and the `del' and `set' of a post.
RemoveKey(k) ==
    /\ EraseEntries({k} \cap DOMAIN dictionaryEntries, {})
    /\ UNCHANGED <<nextId, entriesAdded>>

\* The timer of an entry fires, on the tick thread.
TimerFires(k) ==
    /\ dictionaryEntries[k].id \in timers
    /\ ~Expired(k)
    /\ dictionaryEntries' = [dictionaryEntries EXCEPT ![k].ticks = "none"]
    /\ UNCHANGED <<timers, nextId, statusVars, clientVars, answer, readerVars>>

-----------------------------------------------------------------------------
(* Posts and lookups.                                                      *)


\* Dictionary::add: a key in use is refused, unless its entry has expired and
\* is removed on the way.  Nothing is done for a timeout that does not parse.
AddEntry(c, k, d, timeout) ==
    IF k = NoKey \/ timeout = "malformed"
    THEN /\ Answer(c, "rejected")
         /\ UNCHANGED <<dictionaryEntries, timers, nextId, statusVars>>
    ELSE IF k \in Live
    THEN /\ Answer(c, "inUse")
         /\ UNCHANGED <<dictionaryEntries, timers, nextId, statusVars>>
    ELSE LET old == {k} \cap DOMAIN dictionaryEntries
             new == [data |-> d, timeout |-> timeout, id |-> nextId,
                     ticks |-> IF timeout = "timed" THEN "left" ELSE "none"]
         IN  /\ nextId <= MaxId
             /\ dictionaryEntries' =
                   [j \in DOMAIN dictionaryEntries \cup {k} |->
                       IF j = k THEN new ELSE dictionaryEntries[j]]
             /\ timers' = (timers \ {dictionaryEntries[j].id : j \in old})
                             \cup (IF timeout = "timed" THEN {nextId} ELSE {})
             /\ nextId' = nextId + 1
             /\ entriesAdded' = entriesAdded + 1
             /\ entriesRemoved' = entriesRemoved + Cardinality(old)
             /\ entriesExpired' = entriesExpired + Cardinality(old)
             /\ Answer(c, "added")

Add(c, k, d, timeout) ==
    /\ pc[c] = "idle"
    /\ AddEntry(c, k, d, timeout)
    /\ UNCHANGED <<clientVars, readerVars>>

\* A `set' is a remove and then an add, in two critical sections.
SetRemoves(c, k, d, timeout) ==
    /\ pc[c] = "idle"
    /\ RemoveKey(k)
    /\ pc' = [pc EXCEPT ![c] = "adding"]
    /\ request' = [request EXCEPT ![c] = [key |-> k, data |-> d, timeout |-> timeout]]
    /\ since' = [since EXCEPT ![c] = nextId]
    /\ UNCHANGED readerVars
    /\ Answer(c, "removed")

SetAdds(c) ==
    /\ pc[c] = "adding"
    /\ AddEntry(c, request[c].key, request[c].data, request[c].timeout)
    /\ pc' = [pc EXCEPT ![c] = "idle"]
    /\ request' = [request EXCEPT ![c] = NoRequest]
    /\ since' = [since EXCEPT ![c] = 0]
    /\ UNCHANGED readerVars

\* `del' of a key, present or not, and of the empty key: everything.
Del(c, k) ==
    /\ pc[c] = "idle"
    /\ IF k = NoKey
       THEN EraseEntries(DOMAIN dictionaryEntries, {}) /\ UNCHANGED <<nextId, entriesAdded>>
       ELSE RemoveKey(k)
    /\ Answer(c, "removed")
    /\ UNCHANGED <<clientVars, readerVars>>

\* A post without a key, without data or with an unknown operation.
BadPost(c) ==
    /\ pc[c] = "idle"
    /\ Answer(c, "rejected")
    /\ UNCHANGED <<dictionaryEntries, timers, nextId, statusVars, clientVars, readerVars>>

\* Fault: the data of an expired entry is returned.
Get_expiredToo(c, k) ==
    /\ pc[c] = "idle"
    /\ Answer(c, IF k \in DOMAIN dictionaryEntries
                 THEN dictionaryEntries[k].data ELSE "absent")
    /\ UNCHANGED <<dictionaryEntries, timers, nextId, statusVars, clientVars, readerVars>>

\* Dictionary::get removes the entry it finds expired.
Get(c, k) ==
    /\ pc[c] = "idle"
    /\ LET old == {k} \cap (DOMAIN dictionaryEntries \ Live) IN EraseEntries(old, old)
    /\ Answer(c, IF k \in Live THEN dictionaryEntries[k].data ELSE "absent")
    /\ UNCHANGED <<nextId, entriesAdded, clientVars, readerVars>>

-----------------------------------------------------------------------------
(* Iteration.  getFirst is getNext from the empty key; a reader goes on    *)
(* with getNext until nothing is found, as the purge does on every tick    *)
(* message and a status report to list the entries.                        *)

IsNext(k, last) ==
    /\ k \in Live
    /\ k > last
    /\ \A j \in Live : j > last => k <= j

\* getNext looks up every key beyond the last one until it finds a live
\* entry, and so removes the expired ones it comes across.
GetNextFinds(r, k) ==
    /\ IsNext(k, cursor[r])
    /\ LET old == {j \in DOMAIN dictionaryEntries : j > cursor[r] /\ j < k}
       IN  EraseEntries(old, old)
    /\ cursor' = [cursor EXCEPT ![r] = k]
    /\ active' = active \cup {r}
    /\ from' = IF r \in active THEN from ELSE [from EXCEPT ![r] = nextId]
    /\ seen' = [seen EXCEPT ![r] =
                   (IF r \in active THEN @ ELSE {}) \cup {dictionaryEntries[k].id}]
    /\ Answer(r, dictionaryEntries[k].data)
    /\ UNCHANGED <<nextId, entriesAdded, clientVars>>

\* Fault: the iteration takes an empty value for the end of the map.
GetNextEnds_onNoData(r) ==
    /\ \A k \in Live : IsNext(k, cursor[r]) => dictionaryEntries[k].data = ""
    /\ cursor' = [cursor EXCEPT ![r] = NoKey]
    /\ active' = active \ {r}
    /\ from' = IF r \in active THEN from ELSE [from EXCEPT ![r] = nextId]
    /\ seen' = IF r \in active THEN seen ELSE [seen EXCEPT ![r] = {}]
    /\ Answer(r, "absent")
    /\ UNCHANGED <<dictionaryEntries, timers, nextId, statusVars, clientVars>>

\* Fault: the end of the map is found without looking at the expired entries.
GetNextEnds_keepsExpired(r) ==
    /\ \A k \in Live : k <= cursor[r]
    /\ cursor' = [cursor EXCEPT ![r] = NoKey]
    /\ active' = active \ {r}
    /\ from' = IF r \in active THEN from ELSE [from EXCEPT ![r] = nextId]
    /\ seen' = IF r \in active THEN seen ELSE [seen EXCEPT ![r] = {}]
    /\ Answer(r, "absent")
    /\ UNCHANGED <<dictionaryEntries, timers, nextId, statusVars, clientVars>>

GetNextEnds(r) ==
    /\ \A k \in Live : k <= cursor[r]
    /\ LET old == {j \in DOMAIN dictionaryEntries : j > cursor[r]}
       IN  EraseEntries(old, old)
    /\ cursor' = [cursor EXCEPT ![r] = NoKey]
    /\ active' = active \ {r}
    /\ from' = IF r \in active THEN from ELSE [from EXCEPT ![r] = nextId]
    /\ seen' = IF r \in active THEN seen ELSE [seen EXCEPT ![r] = {}]
    /\ Answer(r, "absent")
    /\ UNCHANGED <<nextId, entriesAdded, clientVars>>

GetNext(r) == GetNextEnds(r) \/ \E k \in Key : GetNextFinds(r, k)

Next ==
    \/ \E k \in DOMAIN dictionaryEntries : TimerFires(k)
    \/ \E c \in Client :
          \/ BadPost(c) \/ SetAdds(c)
          \/ \E k \in Key : Get(c, k)
          \/ \E k \in Key \cup {NoKey} :
                \/ Del(c, k)
                \/ \E d \in Data, timeout \in Timeout :
                      Add(c, k, d, timeout) \/ SetRemoves(c, k, d, timeout)
    \/ \E r \in Reader : GetNext(r)

Spec == Init /\ [][Next]_vars

\* The tick thread runs on, and wakes the purging thread every 12.345 s.
Fairness ==
    /\ \A k \in Key : WF_vars(k \in DOMAIN dictionaryEntries /\ TimerFires(k))
    /\ \A r \in Reader : WF_vars(GetNext(r))

FairSpec == Spec /\ Fairness

-----------------------------------------------------------------------------
(* Properties.                                                             *)

\* The types of the state: clients, entries, counters and timers.
TypeOK ==
    /\ DOMAIN dictionaryEntries \subseteq Key
    /\ dictionaryEntries \in [DOMAIN dictionaryEntries ->
          [data : Data, timeout : Timeout \ {"malformed"}, id : Nat, ticks : {"left", "none"}]]
    /\ timers \subseteq Nat
    /\ nextId \in Nat
    /\ entriesAdded \in Nat /\ entriesRemoved \in Nat /\ entriesExpired \in Nat
    /\ pc \in [Client -> {"idle", "adding"}]
    /\ request \in [Client ->
          [key : Key \cup {NoKey}, data : Data \cup {"none"}, timeout : Timeout]]
    /\ \A c \in Client : pc[c] = "adding" => request[c].data \in Data
    /\ since \in [Client -> Nat]
    /\ active \subseteq Reader
    /\ cursor \in [Reader -> Key \cup {NoKey}]
    /\ from \in [Reader -> Nat]
    /\ seen \in [Reader -> SUBSET Nat]

\* Every entry ever added is in the map or was counted as removed, whichever
\* of the five ways it went; expired ones are among the removed ones.
CountersBalance ==
    /\ entriesAdded = entriesRemoved + Cardinality(DOMAIN dictionaryEntries)
    /\ entriesExpired <= entriesRemoved

\* A registered timer belongs to an entry that is in the map: none dangles
\* when its entry is deleted, and none is lost while its entry waits for it.
TimersBelongToEntries ==
    timers = {dictionaryEntries[k].id : k \in
                 {j \in DOMAIN dictionaryEntries : dictionaryEntries[j].timeout = "timed"}}

\* Between its two halves a `set' finds under its key nothing that was there
\* before it began, whoever else posts meanwhile.
SetForgetsOldValue ==
    \A c \in Client : pc[c] = "adding" /\ request[c].key \in DOMAIN dictionaryEntries =>
        dictionaryEntries[request[c].key].id >= since[c]

\* An iteration misses nothing: an entry that was there when the iteration
\* began, and is still there and not expired, has been returned once the
\* reader is past its key.
IterationMissesNothing ==
    \A r \in Reader, k \in Live :
        LET e == dictionaryEntries[k]
        IN  e.id < from[r] /\ (r \in active => k <= cursor[r]) => e.id \in seen[r]

\* Entries with a time to live do not stay, even if nobody asks for them.
EntriesExpire ==
    \A i \in 1 .. MaxId :
        LET Present == \E k \in DOMAIN dictionaryEntries :
                          dictionaryEntries[k].id = i /\ dictionaryEntries[k].timeout # "never"
        IN  []<>~Present

\* What a caller sees of the entries.
Visible ==
    [k \in Live |-> [data |-> dictionaryEntries[k].data,
                     timeout |-> dictionaryEntries[k].timeout]]

Map == INSTANCE DictionaryMap WITH map <- Visible

\* The dictionary implements the map a caller sees: expired entries that are
\* still in memory, and the moment they are freed, cannot be told.
MapSpec == Map!Spec

\* However posts, lookups, iterations and timers interleave: the counters account
\* for every entry, every timer has an entry and the other way round, and a set
\* leaves nothing of what was there before it.
StoreIsSound == CountersBalance /\ TimersBelongToEntries /\ SetForgetsOldValue
=============================================================================
