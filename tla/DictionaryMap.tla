--------------------------- MODULE DictionaryMap ---------------------------
(***************************************************************************)
(* What the dictionary promises its callers: a finite map from keys to     *)
(* data.  Entries appear by being added under a free key and disappear by  *)
(* being removed or by running out of time; a lookup answers what is in    *)
(* the map, and an iteration always goes on to the least key beyond the    *)
(* last one.  That an entry lives on in memory after it expired is         *)
(* nothing a caller can notice.                                            *)
(***************************************************************************)
EXTENDS Naturals

CONSTANTS
    Key,     \* the keys, numbered in the order std::map keeps them in
    Data,    \* what can be stored
    Client,  \* threads that post and look up
    Reader   \* threads that iterate

\* `before the first key', the empty string in the code
NoKey == 0

VARIABLES
    map,     \* the entries a caller can see: what they hold, and if they may expire
    answer,  \* what the last call returned, and to whom
    cursor   \* where each reader is in its iteration

vars == <<map, answer, cursor>>

Without(m, S) == [k \in DOMAIN m \ S |-> m[k]]

Answer(t, a) == answer' = [to |-> t, is |-> a]

Init ==
    /\ map = [k \in {} |-> NoKey]
    /\ answer = [to |-> "nobody", is |-> "nothing"]
    /\ cursor = [r \in Reader |-> NoKey]

Insert(c, k, d, timeout) ==
    /\ k \notin DOMAIN map
    /\ map' = [j \in DOMAIN map \cup {k} |->
                  IF j = k THEN [data |-> d, timeout |-> timeout] ELSE map[j]]
    /\ Answer(c, "added")
    /\ UNCHANGED cursor

\* An entry whose time to live is over from the start is added in vain.
InsertExpired(c, k) ==
    /\ k \notin DOMAIN map
    /\ Answer(c, "added")
    /\ UNCHANGED <<map, cursor>>

InUse(c, k) ==
    /\ k \in DOMAIN map
    /\ Answer(c, "inUse")
    /\ UNCHANGED <<map, cursor>>

Reject(c) ==
    /\ Answer(c, "rejected")
    /\ UNCHANGED <<map, cursor>>

\* An entry runs out of time; one without a time to live never does.
Expire(k) ==
    /\ k \in DOMAIN map
    /\ map[k].timeout = "timed"
    /\ map' = Without(map, {k})
    /\ UNCHANGED <<answer, cursor>>

Remove(c, k) ==
    /\ map' = Without(map, {k})
    /\ Answer(c, "removed")
    /\ UNCHANGED cursor

RemoveAll(c) ==
    /\ map' = Without(map, DOMAIN map)
    /\ Answer(c, "removed")
    /\ UNCHANGED cursor

Lookup(c, k) ==
    /\ Answer(c, IF k \in DOMAIN map THEN map[k].data ELSE "absent")
    /\ UNCHANGED <<map, cursor>>

\* k is the least visible key beyond `from'.
IsNext(k, from) ==
    /\ k \in DOMAIN map
    /\ k > from
    /\ \A j \in DOMAIN map : j > from => k <= j

Advance(r, k) ==
    /\ IsNext(k, cursor[r])
    /\ cursor' = [cursor EXCEPT ![r] = k]
    /\ Answer(r, map[k].data)
    /\ UNCHANGED map

Finish(r) ==
    /\ \A k \in DOMAIN map : k <= cursor[r]
    /\ cursor' = [cursor EXCEPT ![r] = NoKey]
    /\ Answer(r, "absent")
    /\ UNCHANGED map

Next ==
    \/ \E c \in Client :
          \/ Reject(c) \/ RemoveAll(c)
          \/ \E k \in Key : InsertExpired(c, k) \/ InUse(c, k) \/ Lookup(c, k)
          \/ \E k \in Key \cup {NoKey} : Remove(c, k)
          \/ \E k \in Key, d \in Data, timeout \in {"never", "timed"} : Insert(c, k, d, timeout)
    \/ \E k \in Key : Expire(k)
    \/ \E r \in Reader : Finish(r) \/ \E k \in Key : Advance(r, k)

Spec == Init /\ [][Next]_vars
=============================================================================
