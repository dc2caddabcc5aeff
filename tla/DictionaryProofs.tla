-------------------------- MODULE DictionaryProofs --------------------------
(***************************************************************************)
(* The invariants of the dictionary hold for any sets of keys, data and    *)
(* threads, and the dictionary implements the map of DictionaryMap.  That  *)
(* entries are purged in the end is a liveness property, left to TLC.      *)
(*                                                                         *)
(* The inductive invariant has three parts: the store (entries, timers,    *)
(* counters), the clients and the readers.  A step changes the store in    *)
(* one of three ways (erase, fire, insert), and all the clients and        *)
(* readers need to know of it is Evolves: what is in the map was there     *)
(* before, no more alive than it was, or is new.                           *)
(***************************************************************************)
EXTENDS Dictionary, FiniteSetTheorems, TLAPS

Entry == [data : Data, timeout : Timeout \ {"malformed"}, id : Nat, ticks : {"left", "none"}]

StoreOK ==
    /\ DOMAIN dictionaryEntries \subseteq Key
    /\ dictionaryEntries \in [DOMAIN dictionaryEntries -> Entry]
    /\ timers \subseteq Nat
    /\ nextId \in Nat
    /\ entriesAdded \in Nat /\ entriesRemoved \in Nat /\ entriesExpired \in Nat
    /\ IsFiniteSet(DOMAIN dictionaryEntries)
    /\ \A k \in DOMAIN dictionaryEntries : dictionaryEntries[k].id < nextId
    /\ \A j, k \in DOMAIN dictionaryEntries :
          dictionaryEntries[j].id = dictionaryEntries[k].id => j = k
    /\ CountersBalance
    /\ TimersBelongToEntries

ClientOK ==
    /\ pc \in [Client -> {"idle", "adding"}]
    /\ request \in [Client ->
          [key : Key \cup {NoKey}, data : Data \cup {"none"}, timeout : Timeout]]
    /\ \A c \in Client : pc[c] = "adding" => request[c].data \in Data
    /\ since \in [Client -> Nat]
    /\ \A c \in Client : since[c] <= nextId
    /\ SetForgetsOldValue

ReaderOK ==
    /\ active \subseteq Reader
    /\ cursor \in [Reader -> Key \cup {NoKey}]
    /\ from \in [Reader -> Nat]
    /\ seen \in [Reader -> SUBSET Nat]
    /\ \A r \in Reader : from[r] <= nextId
    /\ \A r \in Reader \ active : cursor[r] = NoKey
    /\ IterationMissesNothing

IInv == StoreOK /\ ClientOK /\ ReaderOK

Evolves ==
    /\ nextId' \in Nat /\ nextId' >= nextId
    /\ \A k \in DOMAIN dictionaryEntries' :
          \/ /\ k \in DOMAIN dictionaryEntries
             /\ dictionaryEntries'[k].id = dictionaryEntries[k].id
             /\ k \in Live' => k \in Live
          \/ dictionaryEntries'[k].id = nextId

\* Erasing entries keeps the store in order.
LEMMA EraseStep ==
    ASSUME StoreOK, NEW keys \in SUBSET DOMAIN dictionaryEntries, NEW old \in SUBSET keys,
           EraseEntries(keys, old), UNCHANGED <<nextId, entriesAdded>>
    PROVE  StoreOK' /\ Evolves
<1>. DEFINE D == DOMAIN dictionaryEntries
<1>1. /\ DOMAIN dictionaryEntries' = D \ keys
      /\ \A k \in D \ keys : dictionaryEntries'[k] = dictionaryEntries[k]
      /\ dictionaryEntries' = [k \in D \ keys |-> dictionaryEntries[k]]
  BY DEF EraseEntries
<1>2. /\ IsFiniteSet(D \ keys) /\ IsFiniteSet(keys) /\ IsFiniteSet(old)
      /\ Cardinality(D \ keys) \in Nat /\ Cardinality(keys) \in Nat
      /\ Cardinality(old) \in Nat /\ Cardinality(D) \in Nat
      /\ Cardinality(old) <= Cardinality(keys)
      /\ Cardinality(D \ keys) = Cardinality(D) - Cardinality(keys)
  <2>1. IsFiniteSet(D)
    BY DEF StoreOK
  <2>2. IsFiniteSet(keys) /\ IsFiniteSet(D \ keys)
    BY <2>1, FS_Subset
  <2>3. IsFiniteSet(old) /\ Cardinality(old) <= Cardinality(keys)
    BY <2>2, FS_Subset
  <2>4. Cardinality(D \ keys) = Cardinality(D) - Cardinality(D \cap keys)
    BY <2>1, FS_Difference
  <2>5. D \cap keys = keys
    OBVIOUS
  <2>. QED BY <2>1, <2>2, <2>3, <2>4, <2>5, FS_CardinalityType
<1>3. CountersBalance'
  BY <1>1, <1>2 DEF StoreOK, CountersBalance, EraseEntries
<1>4. TimersBelongToEntries'
  <2>1. timers' = timers \ {dictionaryEntries[k].id : k \in keys}
    BY DEF EraseEntries
  <2>2. timers = {dictionaryEntries[k].id : k \in
                    {j \in D : dictionaryEntries[j].timeout = "timed"}}
    BY DEF StoreOK, TimersBelongToEntries
  <2>3. ASSUME NEW i \in timers' 
        PROVE  i \in {dictionaryEntries'[k].id : k \in
                        {j \in D \ keys : dictionaryEntries'[j].timeout = "timed"}}
    BY <1>1, <2>1, <2>2
  <2>4. ASSUME NEW k \in D \ keys, dictionaryEntries'[k].timeout = "timed"
        PROVE  dictionaryEntries'[k].id \in timers'
    BY <1>1, <2>1, <2>2, <2>4 DEF StoreOK
  <2>. QED BY <1>1, <2>3, <2>4 DEF TimersBelongToEntries
<1>5. timers' \subseteq Nat /\ entriesRemoved' \in Nat /\ entriesExpired' \in Nat
  BY <1>2 DEF StoreOK, EraseEntries
<1>6. Evolves
  BY <1>1 DEF Evolves, Live, Expired, StoreOK
<1>. QED
  BY <1>1, <1>2, <1>3, <1>4, <1>5, <1>6 DEF StoreOK

\* A timer that fires changes nothing but the entry it belongs to.
LEMMA FireStep ==
    ASSUME StoreOK, NEW k \in DOMAIN dictionaryEntries, TimerFires(k)
    PROVE  StoreOK' /\ Evolves
<1>1. /\ DOMAIN dictionaryEntries' = DOMAIN dictionaryEntries
      /\ \A j \in DOMAIN dictionaryEntries :
            /\ dictionaryEntries'[j].id = dictionaryEntries[j].id
            /\ dictionaryEntries'[j].timeout = dictionaryEntries[j].timeout
            /\ dictionaryEntries'[j].ticks \in {dictionaryEntries[j].ticks, "none"}
            /\ dictionaryEntries'[j] \in Entry
      /\ dictionaryEntries' = [j \in DOMAIN dictionaryEntries |-> dictionaryEntries'[j]]
      /\ UNCHANGED <<timers, nextId, entriesAdded, entriesRemoved, entriesExpired>>
  BY DEF TimerFires, StoreOK, Entry, statusVars
<1>2. CountersBalance'
  BY <1>1 DEF StoreOK, CountersBalance
<1>3. TimersBelongToEntries'
  BY <1>1 DEF StoreOK, TimersBelongToEntries
<1>4. Evolves
  BY <1>1 DEF Evolves, Live, Expired, StoreOK
<1>. QED BY <1>1, <1>2, <1>3, <1>4 DEF StoreOK

\* An add refuses and changes nothing, or puts a new entry in place of an
\* expired one, if any.
LEMMA AddStep ==
    ASSUME StoreOK, NEW c, NEW k \in Key \cup {NoKey}, NEW d \in Data,
           NEW timeout \in Timeout, AddEntry(c, k, d, timeout)
    PROVE  StoreOK' /\ Evolves
<1>. DEFINE D == DOMAIN dictionaryEntries
            old == {k} \cap D
            new == [data |-> d, timeout |-> timeout, id |-> nextId,
                    ticks |-> IF timeout = "timed" THEN "left" ELSE "none"]
<1>1. CASE UNCHANGED <<dictionaryEntries, timers, nextId, statusVars>>
  BY <1>1 DEF StoreOK, Evolves, CountersBalance, TimersBelongToEntries, Live, Expired,
     statusVars
<1>2. CASE /\ k # NoKey /\ timeout # "malformed"
           /\ dictionaryEntries' = [j \in D \cup {k} |->
                                       IF j = k THEN new ELSE dictionaryEntries[j]]
           /\ timers' = (timers \ {dictionaryEntries[j].id : j \in old})
                           \cup (IF timeout = "timed" THEN {nextId} ELSE {})
           /\ nextId' = nextId + 1
           /\ entriesAdded' = entriesAdded + 1
           /\ entriesRemoved' = entriesRemoved + Cardinality(old)
           /\ entriesExpired' = entriesExpired + Cardinality(old)
  <2>1. /\ DOMAIN dictionaryEntries' = D \cup {k}
        /\ dictionaryEntries'[k] = new /\ new \in Entry
        /\ \A j \in D \ {k} : dictionaryEntries'[j] = dictionaryEntries[j]
    BY <1>2 DEF StoreOK, Entry
  <2>2. dictionaryEntries' \in [D \cup {k} -> Entry] /\ D \cup {k} \subseteq Key
    BY <1>2, <2>1 DEF StoreOK
  <2>3. /\ IsFiniteSet(D \cup {k}) /\ Cardinality(old) \in {0, 1}
        /\ Cardinality(D) \in Nat
        /\ Cardinality(D \cup {k}) = Cardinality(D) + 1 - Cardinality(old)
    <3>1. IsFiniteSet(D)
      BY DEF StoreOK
    <3>2. CASE k \in D
      <4>1. old = {k} /\ D \cup {k} = D
        BY <3>2
      <4>2. Cardinality(old) = 1
        BY <4>1, FS_Singleton
      <4>3. Cardinality(D) \in Nat
        BY <3>1, FS_CardinalityType
      <4>. QED BY ONLY <3>1, <4>1, <4>2, <4>3
    <3>3. CASE k \notin D
      <4>1. old = {}
        BY <3>3
      <4>2. Cardinality(old) = 0
        BY <4>1, FS_EmptySet
      <4>3. Cardinality(D) \in Nat
        BY <3>1, FS_CardinalityType
      <4>4. IsFiniteSet(D \cup {k}) /\ Cardinality(D \cup {k}) = Cardinality(D) + 1
        BY <3>1, <3>3, FS_AddElement
      <4>. QED BY ONLY <4>2, <4>3, <4>4
    <3>. QED BY <3>2, <3>3
  <2>4. CountersBalance'
    BY <1>2, <2>1, <2>3 DEF StoreOK, CountersBalance
  <2>5. TimersBelongToEntries'
    <3>1. timers = {dictionaryEntries[j].id : j \in
                      {i \in D : dictionaryEntries[i].timeout = "timed"}}
      BY DEF StoreOK, TimersBelongToEntries
    <3>2. \A j \in D : dictionaryEntries[j].id # nextId
      BY DEF StoreOK, Entry
    <3>3. ASSUME NEW i \in timers'
          PROVE  i \in {dictionaryEntries'[j].id : j \in
                          {x \in D \cup {k} : dictionaryEntries'[x].timeout = "timed"}}
      BY <1>2, <2>1, <3>1
    <3>4. ASSUME NEW j \in D \cup {k}, dictionaryEntries'[j].timeout = "timed"
          PROVE  dictionaryEntries'[j].id \in timers'
      <4>1. CASE j = k
        BY <1>2, <2>1, <3>4, <4>1
      <4>2. CASE j # k
        <5>1. j \in D /\ dictionaryEntries'[j] = dictionaryEntries[j]
          BY <2>1, <4>2
        <5>2. dictionaryEntries[j].id \notin {dictionaryEntries[i].id : i \in old}
          BY <4>2, <5>1 DEF StoreOK
        <5>. QED BY <1>2, <3>1, <3>4, <5>1, <5>2
      <4>. QED BY <4>1, <4>2
    <3>. QED BY <2>1, <3>3, <3>4 DEF TimersBelongToEntries
  <2>6. Evolves
    BY <1>2, <2>1 DEF Evolves, StoreOK, Live, Expired
  <2>7. /\ \A j \in D \cup {k} : dictionaryEntries'[j].id < nextId'
        /\ \A i, j \in D \cup {k} : dictionaryEntries'[i].id = dictionaryEntries'[j].id => i = j
    BY <1>2, <2>1 DEF StoreOK, Entry
  <2>8. timers' \subseteq Nat /\ nextId' \in Nat /\ entriesAdded' \in Nat
        /\ entriesRemoved' \in Nat /\ entriesExpired' \in Nat
    BY <1>2, <2>3 DEF StoreOK
  <2>. QED BY <2>1, <2>2, <2>3, <2>4, <2>5, <2>6, <2>7, <2>8 DEF StoreOK
<1>. QED BY <1>1, <1>2 DEF AddEntry

\* Every step keeps the store in order.
LEMMA StoreNext ==
    ASSUME IInv, Next
    PROVE  StoreOK' /\ Evolves
<1>. USE DEF IInv
<1>1. CASE \E k \in DOMAIN dictionaryEntries : TimerFires(k)
  BY <1>1, FireStep
<1>2. CASE UNCHANGED <<dictionaryEntries, timers, nextId, statusVars>>
  BY <1>2 DEF StoreOK, Evolves, CountersBalance, TimersBelongToEntries, Live, Expired,
     statusVars
<1>3. ASSUME NEW k, RemoveKey(k) PROVE StoreOK' /\ Evolves
  <2>1. {k} \cap DOMAIN dictionaryEntries \in SUBSET DOMAIN dictionaryEntries
        /\ {} \in SUBSET ({k} \cap DOMAIN dictionaryEntries)
    OBVIOUS
  <2>. QED BY <1>3, <2>1, EraseStep DEF RemoveKey
<1>4. ASSUME NEW c \in Client, NEW k \in Key, Get(c, k) PROVE StoreOK' /\ Evolves
  <2>1. {k} \cap (DOMAIN dictionaryEntries \ Live) \in SUBSET DOMAIN dictionaryEntries
    OBVIOUS
  <2>. QED BY <1>4, <2>1, EraseStep DEF Get
<1>5. ASSUME NEW c \in Client, NEW k, Del(c, k) PROVE StoreOK' /\ Evolves
  <2>1. CASE k = NoKey
    BY <1>5, <2>1, EraseStep DEF Del
  <2>2. CASE k # NoKey
    BY <1>3, <1>5, <2>2 DEF Del
  <2>. QED BY <2>1, <2>2
<1>6. ASSUME NEW c \in Client, SetAdds(c) PROVE StoreOK' /\ Evolves
  <2>1. /\ request[c].key \in Key \cup {NoKey} /\ request[c].data \in Data
        /\ request[c].timeout \in Timeout
        /\ AddEntry(c, request[c].key, request[c].data, request[c].timeout)
    BY <1>6 DEF SetAdds, ClientOK
  <2>. QED BY <2>1, AddStep
<1>7. ASSUME NEW c \in Client, NEW k \in Key \cup {NoKey}, NEW d \in Data,
             NEW timeout \in Timeout,
             Add(c, k, d, timeout) \/ SetRemoves(c, k, d, timeout)
      PROVE  StoreOK' /\ Evolves
  <2>1. CASE Add(c, k, d, timeout)
    BY <2>1, AddStep DEF Add
  <2>2. CASE SetRemoves(c, k, d, timeout)
    BY <2>2, <1>3 DEF SetRemoves
  <2>. QED BY <1>7, <2>1, <2>2
<1>8. ASSUME NEW r \in Reader, GetNext(r) PROVE StoreOK' /\ Evolves
  <2>1. CASE GetNextEnds(r)
    <3>1. {j \in DOMAIN dictionaryEntries : j > cursor[r]} \in SUBSET DOMAIN dictionaryEntries
      OBVIOUS
    <3>. QED BY <2>1, <3>1, EraseStep DEF GetNextEnds
  <2>2. ASSUME NEW k \in Key, GetNextFinds(r, k) PROVE StoreOK' /\ Evolves
    <3>1. {j \in DOMAIN dictionaryEntries : j > cursor[r] /\ j < k}
             \in SUBSET DOMAIN dictionaryEntries
      OBVIOUS
    <3>. QED BY <2>2, <3>1, EraseStep DEF GetNextFinds
  <2>. QED BY <1>8, <2>1, <2>2 DEF GetNext
<1>9. ASSUME NEW c \in Client, BadPost(c) PROVE StoreOK' /\ Evolves
  BY <1>2, <1>9 DEF BadPost
<1>. QED BY <1>1, <1>4, <1>5, <1>6, <1>7, <1>8, <1>9 DEF Next

\* Every step keeps the clients in order.
LEMMA ClientNext ==
    ASSUME IInv, Next
    PROVE  ClientOK'
<1>1. StoreOK /\ ClientOK /\ StoreOK' /\ Evolves
  BY StoreNext DEF IInv
<1>2. \A k \in DOMAIN dictionaryEntries', n \in Nat :
         /\ n <= nextId
         /\ k \in DOMAIN dictionaryEntries => dictionaryEntries[k].id >= n
         => dictionaryEntries'[k].id >= n
  BY <1>1 DEF Evolves, StoreOK
<1>3. CASE UNCHANGED clientVars
  <2>1. UNCHANGED pc /\ UNCHANGED request /\ UNCHANGED since
    BY <1>3 DEF clientVars
  <2>2. \A c \in Client : since[c] \in Nat /\ since[c] <= nextId /\ since[c] <= nextId'
    BY <1>1 DEF ClientOK, Evolves, StoreOK
  <2>3. SetForgetsOldValue'
    BY <1>1, <1>2, <2>1, <2>2 DEF SetForgetsOldValue, ClientOK
  <2>. QED BY <1>1, <2>1, <2>2, <2>3 DEF ClientOK
<1>4. ASSUME NEW c \in Client, SetAdds(c) PROVE ClientOK'
  <2>1. /\ pc' = [pc EXCEPT ![c] = "idle"]
        /\ request' = [request EXCEPT ![c] = NoRequest]
        /\ since' = [since EXCEPT ![c] = 0]
    BY <1>4 DEF SetAdds
  <2>2. NoRequest \in [key : Key \cup {NoKey}, data : Data \cup {"none"}, timeout : Timeout]
    BY DEF NoRequest, Timeout
  <2>3. \A b \in Client : since'[b] \in Nat /\ since'[b] <= nextId /\ since'[b] <= nextId'
    BY <1>1, <2>1 DEF ClientOK, Evolves, StoreOK
  <2>4. SetForgetsOldValue'
    <3>1. \A b \in Client : pc'[b] = "adding" =>
             pc[b] = "adding" /\ request'[b] = request[b] /\ since'[b] = since[b]
      BY <1>1, <2>1 DEF ClientOK
    <3>. QED BY <1>1, <1>2, <2>3, <3>1 DEF SetForgetsOldValue, ClientOK
  <2>5. \A b \in Client : pc'[b] = "adding" => request'[b].data \in Data
    BY <1>1, <2>1 DEF ClientOK
  <2>. QED BY <1>1, <2>1, <2>2, <2>3, <2>4, <2>5 DEF ClientOK
<1>5. ASSUME NEW c \in Client, NEW k \in Key \cup {NoKey}, NEW d \in Data,
             NEW timeout \in Timeout, SetRemoves(c, k, d, timeout)
      PROVE  ClientOK'
  <2>1. /\ pc' = [pc EXCEPT ![c] = "adding"]
        /\ request' = [request EXCEPT ![c] = [key |-> k, data |-> d, timeout |-> timeout]]
        /\ since' = [since EXCEPT ![c] = nextId]
        /\ k \notin DOMAIN dictionaryEntries'
    BY <1>5 DEF SetRemoves, RemoveKey, EraseEntries
  <2>2. \A b \in Client : since'[b] \in Nat /\ since'[b] <= nextId /\ since'[b] <= nextId'
    BY <1>1, <2>1 DEF ClientOK, Evolves, StoreOK
  <2>3. SetForgetsOldValue'
    <3>1. \A b \in Client \ {c} :
             pc'[b] = pc[b] /\ request'[b] = request[b] /\ since'[b] = since[b]
      BY <1>1, <2>1 DEF ClientOK
    <3>2. request'[c].key = k
      BY <1>1, <2>1 DEF ClientOK
    <3>. QED BY <1>1, <1>2, <2>1, <2>2, <3>1, <3>2 DEF SetForgetsOldValue, ClientOK
  <2>. QED BY <1>1, <2>1, <2>2, <2>3 DEF ClientOK
<1>. QED
  BY <1>3, <1>4, <1>5 DEF Next, TimerFires, BadPost, Get, Del, Add, GetNext,
     GetNextEnds, GetNextFinds

\* Every step keeps the readers in order.
LEMMA ReaderNext ==
    ASSUME IInv, Next
    PROVE  ReaderOK'
<1>1. StoreOK /\ ReaderOK /\ StoreOK' /\ Evolves
  BY StoreNext DEF IInv
<1>2. \A k \in Live', n \in Nat :
         n <= nextId /\ dictionaryEntries'[k].id < n =>
            k \in Live /\ dictionaryEntries'[k].id = dictionaryEntries[k].id
  BY <1>1 DEF Evolves, StoreOK, Live
<1>3. CASE UNCHANGED readerVars
  <2>1. UNCHANGED active /\ UNCHANGED cursor /\ UNCHANGED from /\ UNCHANGED seen
    BY <1>3 DEF readerVars
  <2>2. \A r \in Reader : from[r] \in Nat /\ from[r] <= nextId /\ from[r] <= nextId'
    BY <1>1 DEF ReaderOK, Evolves, StoreOK
  <2>3. IterationMissesNothing'
    BY <1>1, <1>2, <2>1, <2>2 DEF IterationMissesNothing, ReaderOK
  <2>. QED BY <1>1, <2>1, <2>2, <2>3 DEF ReaderOK
<1>4. ASSUME NEW r \in Reader, NEW k \in Key, GetNextFinds(r, k) PROVE ReaderOK'
  <2>1. /\ k \in Live /\ k > cursor[r] /\ \A j \in Live : j > cursor[r] => k <= j
        /\ cursor' = [cursor EXCEPT ![r] = k]
        /\ active' = active \cup {r}
        /\ from' = IF r \in active THEN from ELSE [from EXCEPT ![r] = nextId]
        /\ seen' = [seen EXCEPT ![r] =
                       (IF r \in active THEN @ ELSE {}) \cup {dictionaryEntries[k].id}]
    BY <1>4 DEF GetNextFinds, IsNext
  <2>2. dictionaryEntries[k].id \in Nat
    BY <1>1, <2>1 DEF StoreOK, Entry, Live
  <2>3. \A q \in Reader : from'[q] \in Nat /\ from'[q] <= nextId /\ from'[q] <= nextId'
    BY <1>1, <2>1 DEF ReaderOK, Evolves, StoreOK
  <2>4. /\ cursor' \in [Reader -> Key \cup {NoKey}] /\ from' \in [Reader -> Nat]
        /\ seen' \in [Reader -> SUBSET Nat] /\ active' \subseteq Reader
        /\ \A q \in Reader \ active' : cursor'[q] = NoKey
    BY <1>1, <2>1, <2>2, <2>3 DEF ReaderOK
  <2>5. IterationMissesNothing'
    <3>. SUFFICES ASSUME NEW q \in Reader, NEW j \in Live',
                         dictionaryEntries'[j].id < from'[q], q \in active' => j <= cursor'[q]
                  PROVE  dictionaryEntries'[j].id \in seen'[q]
      BY DEF IterationMissesNothing
    <3>1. j \in Live /\ dictionaryEntries'[j].id = dictionaryEntries[j].id
      BY <1>2, <2>3
    <3>2. CASE q # r
      <4>1. /\ from'[q] = from[q] /\ seen'[q] = seen[q] /\ cursor'[q] = cursor[q]
            /\ q \in active' <=> q \in active
        BY <1>1, <2>1, <3>2 DEF ReaderOK
      <4>. QED BY <1>1, <3>1, <4>1 DEF ReaderOK, IterationMissesNothing
    <3>3. CASE q = r
      <4>1. /\ j \in Nat /\ k \in Nat /\ cursor[r] \in Nat /\ j <= k
            /\ dictionaryEntries[k].id \in seen'[r]
        BY <1>1, <2>1, <3>1, <3>3, DictionaryAssumption DEF StoreOK, ReaderOK, Live, NoKey
      <4>2. CASE j > cursor[r]
        <5>1. j = k
          BY <2>1, <3>1, <4>1, <4>2
        <5>. QED BY <3>1, <3>3, <4>1, <5>1
      <4>3. CASE j <= cursor[r]
        <5>1. r \in active
          <6>1. j # 0
            BY <1>1, <3>1, DictionaryAssumption DEF StoreOK, Live
          <6>. QED BY <1>1, <4>1, <4>3, <6>1 DEF ReaderOK, NoKey
        <5>2. seen[r] \subseteq seen'[r] /\ from'[r] = from[r]
          BY <1>1, <2>1, <5>1 DEF ReaderOK
        <5>3. dictionaryEntries[j].id \in seen[r]
          BY <1>1, <3>1, <3>3, <4>3, <5>2 DEF ReaderOK, IterationMissesNothing
        <5>. QED BY <3>1, <3>3, <5>2, <5>3
      <4>. QED BY <4>1, <4>2, <4>3
    <3>. QED BY <3>2, <3>3
  <2>. QED BY <2>3, <2>4, <2>5 DEF ReaderOK
<1>5. ASSUME NEW r \in Reader, GetNextEnds(r) PROVE ReaderOK'
  <2>1. /\ \A j \in Live : j <= cursor[r]
        /\ cursor' = [cursor EXCEPT ![r] = NoKey]
        /\ active' = active \ {r}
        /\ from' = IF r \in active THEN from ELSE [from EXCEPT ![r] = nextId]
        /\ seen' = IF r \in active THEN seen ELSE [seen EXCEPT ![r] = {}]
    BY <1>5 DEF GetNextEnds
  <2>2. \A q \in Reader : from'[q] \in Nat /\ from'[q] <= nextId /\ from'[q] <= nextId'
    BY <1>1, <2>1 DEF ReaderOK, Evolves, StoreOK
  <2>3. /\ cursor' \in [Reader -> Key \cup {NoKey}] /\ from' \in [Reader -> Nat]
        /\ seen' \in [Reader -> SUBSET Nat] /\ active' \subseteq Reader
        /\ \A q \in Reader \ active' : cursor'[q] = NoKey
    BY <1>1, <2>1, <2>2 DEF ReaderOK
  <2>4. IterationMissesNothing'
    <3>. SUFFICES ASSUME NEW q \in Reader, NEW j \in Live',
                         dictionaryEntries'[j].id < from'[q], q \in active' => j <= cursor'[q]
                  PROVE  dictionaryEntries'[j].id \in seen'[q]
      BY DEF IterationMissesNothing
    <3>1. j \in Live /\ dictionaryEntries'[j].id = dictionaryEntries[j].id
      BY <1>2, <2>2
    <3>2. CASE q # r
      <4>1. /\ from'[q] = from[q] /\ seen'[q] = seen[q] /\ cursor'[q] = cursor[q]
            /\ q \in active' <=> q \in active
        BY <1>1, <2>1, <3>2 DEF ReaderOK
      <4>. QED BY <1>1, <3>1, <4>1 DEF ReaderOK, IterationMissesNothing
    <3>3. CASE q = r
      <4>1. r \in active
        <5>1. j \in Nat /\ j # 0 /\ j <= cursor[r]
          BY <1>1, <2>1, <3>1, DictionaryAssumption DEF StoreOK, Live
        <5>. QED BY <1>1, <5>1 DEF ReaderOK, NoKey
      <4>. QED BY <1>1, <2>1, <3>1, <3>3, <4>1 DEF ReaderOK, IterationMissesNothing
    <3>. QED BY <3>2, <3>3
  <2>. QED BY <2>2, <2>3, <2>4 DEF ReaderOK
<1>. QED
  BY <1>3, <1>4, <1>5 DEF Next, TimerFires, BadPost, SetAdds, Get, Del, Add, SetRemoves, GetNext

\* The dictionary starts out well.
LEMMA InitIInv == Init => IInv
<1>. SUFFICES ASSUME Init PROVE IInv
  OBVIOUS
<1>1. DOMAIN dictionaryEntries = {} /\ dictionaryEntries \in [DOMAIN dictionaryEntries -> Entry]
  BY DEF Init
<1>2. Live = {}
  BY <1>1 DEF Live
<1>3. StoreOK
  BY <1>1, FS_EmptySet DEF Init, StoreOK, CountersBalance, TimersBelongToEntries
<1>4. ClientOK
  BY DEF Init, ClientOK, SetForgetsOldValue, NoRequest, Timeout
<1>5. ReaderOK
  BY <1>2 DEF Init, ReaderOK, IterationMissesNothing
<1>. QED BY <1>3, <1>4, <1>5 DEF IInv

\* The inductive invariant holds throughout.
THEOREM DictionarySafe == Spec => []IInv
<1>1. IInv /\ [Next]_vars => IInv'
  <2>. SUFFICES ASSUME IInv, [Next]_vars PROVE IInv'
    OBVIOUS
  <2>1. CASE Next
    BY <2>1, StoreNext, ClientNext, ReaderNext DEF IInv
  <2>2. CASE UNCHANGED vars
    BY <2>2 DEF vars, statusVars, clientVars, readerVars, IInv, StoreOK, ClientOK, ReaderOK,
       CountersBalance, TimersBelongToEntries, SetForgetsOldValue, IterationMissesNothing,
       Live, Expired
  <2>. QED BY <2>1, <2>2
<1>. QED BY <1>1, InitIInv, PTL DEF Spec

\* Every variable keeps its type.
THEOREM TypeCorrect == Spec => []TypeOK
<1>1. IInv => TypeOK
  BY DEF IInv, StoreOK, ClientOK, ReaderOK, TypeOK, Entry
<1>. QED BY <1>1, DictionarySafe, PTL

\* The counters of the status report account for every entry ever added.
THEOREM CountersAddUp == Spec => []CountersBalance
<1>1. IInv => CountersBalance
  BY DEF IInv, StoreOK
<1>. QED BY <1>1, DictionarySafe, PTL

\* The tick service holds the timers of the entries in the map, and no other.
THEOREM NoTimerLeaks == Spec => []TimersBelongToEntries
<1>1. IInv => TimersBelongToEntries
  BY DEF IInv, StoreOK
<1>. QED BY <1>1, DictionarySafe, PTL

\* However posts interleave, a set never leaves the value it was to replace.
THEOREM SetReplaces == Spec => []SetForgetsOldValue
<1>1. IInv => SetForgetsOldValue
  BY DEF IInv, ClientOK
<1>. QED BY <1>1, DictionarySafe, PTL

\* An iteration that others change the map under returns all that stays in it.
THEOREM IterationComplete == Spec => []IterationMissesNothing
<1>1. IInv => IterationMissesNothing
  BY DEF IInv, ReaderOK
<1>. QED BY <1>1, DictionarySafe, PTL

\* Erasing entries takes them out of sight, and changes nothing else there.
LEMMA EraseVisible ==
    ASSUME NEW keys, NEW old, EraseEntries(keys, old)
    PROVE  Live' = Live \ keys /\ Visible' = Map!Without(Visible, keys)
<1>1. /\ DOMAIN dictionaryEntries' = DOMAIN dictionaryEntries \ keys
      /\ \A k \in DOMAIN dictionaryEntries \ keys : dictionaryEntries'[k] = dictionaryEntries[k]
  BY DEF EraseEntries
<1>2. Live' = Live \ keys
  BY <1>1 DEF Live, Expired
<1>3. \A k \in Live' : k \in Live /\ dictionaryEntries'[k] = dictionaryEntries[k]
  BY <1>1, <1>2 DEF Live
<1>. QED BY <1>2, <1>3 DEF Visible, Map!Without

\* The answer of an add is the one the map gives.
LEMMA AddVisible ==
    ASSUME StoreOK, NEW c \in Client, NEW k \in Key \cup {NoKey}, NEW d \in Data,
           NEW timeout \in Timeout, AddEntry(c, k, d, timeout), UNCHANGED cursor
    PROVE  Map!Next
<1>1. CASE k = NoKey \/ timeout = "malformed"
  <2>1. Answer(c, "rejected") /\ UNCHANGED dictionaryEntries
    BY <1>1 DEF AddEntry
  <2>2. UNCHANGED Visible
    BY <2>1 DEF Visible, Live, Expired
  <2>3. Map!Reject(c)
    BY <2>1, <2>2 DEF Map!Reject, Map!Answer, Answer
  <2>. QED BY <2>3 DEF Map!Next
<1>2. CASE k # NoKey /\ timeout # "malformed" /\ k \in Live
  <2>1. Answer(c, "inUse") /\ UNCHANGED dictionaryEntries
    BY <1>2 DEF AddEntry
  <2>2. UNCHANGED Visible /\ k \in DOMAIN Visible
    BY <1>2, <2>1 DEF Visible, Live, Expired
  <2>3. Map!InUse(c, k)
    BY <2>1, <2>2 DEF Map!InUse, Map!Answer, Answer
  <2>. QED BY <1>2, <2>3 DEF Map!Next
<1>3. CASE k # NoKey /\ timeout # "malformed" /\ k \notin Live
  <2>1. /\ Answer(c, "added") /\ k \in Key
        /\ DOMAIN dictionaryEntries' = DOMAIN dictionaryEntries \cup {k}
        /\ dictionaryEntries'[k].data = d
        /\ dictionaryEntries'[k].timeout = timeout
        /\ dictionaryEntries'[k].ticks = IF timeout = "timed" THEN "left" ELSE "none"
        /\ \A j \in DOMAIN dictionaryEntries \ {k} : dictionaryEntries'[j] = dictionaryEntries[j]
    BY <1>3 DEF AddEntry
  <2>2. k \notin DOMAIN Visible /\ DOMAIN Visible = Live
    BY <1>3 DEF Visible
  <2>3. CASE timeout = "past"
    <3>1. Live' = Live
      BY <1>3, <2>1, <2>3 DEF Live, Expired
    <3>2. \A j \in Live : dictionaryEntries'[j] = dictionaryEntries[j]
      BY <1>3, <2>1 DEF Live
    <3>3. UNCHANGED Visible
      BY <3>1, <3>2 DEF Visible
    <3>4. Map!InsertExpired(c, k)
      BY <2>1, <2>2, <3>3 DEF Map!InsertExpired, Map!Answer, Answer
    <3>. QED BY <2>1, <3>4 DEF Map!Next
  <2>4. CASE timeout \in {"never", "timed"}
    <3>1. Live' = Live \cup {k}
      BY <1>3, <2>1, <2>4 DEF Live, Expired
    <3>2. \A j \in Live : j # k /\ dictionaryEntries'[j] = dictionaryEntries[j]
      BY <1>3, <2>1 DEF Live
    <3>3. Visible' = [j \in DOMAIN Visible \cup {k} |->
                         IF j = k THEN [data |-> d, timeout |-> timeout] ELSE Visible[j]]
      BY <2>1, <2>2, <3>1, <3>2 DEF Visible
    <3>4. Map!Insert(c, k, d, timeout)
      BY <2>1, <2>2, <3>3 DEF Map!Insert, Map!Answer, Answer
    <3>. QED BY <2>1, <2>4, <3>4 DEF Map!Next
  <2>. QED BY <1>3, <2>3, <2>4 DEF Timeout
<1>. QED BY <1>1, <1>2, <1>3

\* Every step of the dictionary is a step of the map.
LEMMA NextVisible ==
    ASSUME IInv, Next
    PROVE  Map!Next
<1>0. StoreOK /\ ClientOK /\ ReaderOK /\ DOMAIN Visible = Live /\ Live \subseteq Key
  BY DEF IInv, Visible, StoreOK, Live
<1>1. ASSUME NEW k \in DOMAIN dictionaryEntries, TimerFires(k) PROVE Map!Next
  <2>1. /\ DOMAIN dictionaryEntries' = DOMAIN dictionaryEntries
        /\ \A j \in DOMAIN dictionaryEntries \ {k} : dictionaryEntries'[j] = dictionaryEntries[j]
        /\ dictionaryEntries'[k].ticks = "none"
        /\ dictionaryEntries'[k].timeout = dictionaryEntries[k].timeout
        /\ UNCHANGED <<answer, cursor>> /\ k \in Live
    BY <1>0, <1>1 DEF TimerFires, StoreOK, Entry, readerVars, Live
  <2>2. dictionaryEntries[k].timeout = "timed"
    BY <1>0, <1>1 DEF TimerFires, StoreOK, TimersBelongToEntries
  <2>3. Live' = Live \ {k}
    BY <2>1, <2>2 DEF Live, Expired
  <2>4. \A j \in Live' : j \in Live /\ dictionaryEntries'[j] = dictionaryEntries[j]
    BY <2>1, <2>3 DEF Live
  <2>5. Visible' = Map!Without(Visible, {k})
    BY <2>3, <2>4 DEF Visible, Map!Without
  <2>6. Visible[k].timeout = "timed"
    BY <2>1, <2>2 DEF Visible
  <2>7. Map!Expire(k)
    BY <1>0, <2>1, <2>5, <2>6 DEF Map!Expire
  <2>. QED BY <1>0, <2>1, <2>7 DEF Map!Next
<1>2. ASSUME NEW c \in Client, BadPost(c) PROVE Map!Next
  <2>1. UNCHANGED Visible
    BY <1>2 DEF BadPost, Visible, Live, Expired
  <2>2. Map!Reject(c)
    BY <1>2, <2>1 DEF BadPost, Map!Reject, Map!Answer, Answer, readerVars
  <2>. QED BY <2>2 DEF Map!Next
<1>3. ASSUME NEW c \in Client, NEW k \in Key \cup {NoKey}, RemoveKey(k),
             Answer(c, "removed"), UNCHANGED readerVars
      PROVE  Map!Next
  <2>1. Visible' = Map!Without(Visible, {k} \cap DOMAIN dictionaryEntries)
    BY <1>3, EraseVisible DEF RemoveKey
  <2>2. Visible' = Map!Without(Visible, {k})
    BY <1>0, <2>1 DEF Map!Without, Live
  <2>3. Map!Remove(c, k)
    BY <1>3, <2>2 DEF Map!Remove, Map!Answer, Answer, readerVars
  <2>. QED BY <2>3 DEF Map!Next, Map!NoKey, NoKey
<1>4. ASSUME NEW c \in Client, NEW k \in Key \cup {NoKey}, Del(c, k) PROVE Map!Next
  <2>1. CASE k = NoKey
    <3>1. Visible' = Map!Without(Visible, DOMAIN dictionaryEntries)
      BY <1>4, <2>1, EraseVisible DEF Del
    <3>2. Visible' = Map!Without(Visible, DOMAIN Visible)
      BY <1>0, <3>1 DEF Map!Without, Live
    <3>3. Map!RemoveAll(c)
      BY <1>4, <3>2 DEF Del, Map!RemoveAll, Map!Answer, Answer, readerVars
    <3>. QED BY <3>3 DEF Map!Next
  <2>2. CASE k # NoKey
    BY <1>3, <1>4, <2>2 DEF Del
  <2>. QED BY <2>1, <2>2
<1>5. ASSUME NEW c \in Client, NEW k \in Key, Get(c, k) PROVE Map!Next
  <2>1. Visible' = Map!Without(Visible, {k} \cap (DOMAIN dictionaryEntries \ Live))
    BY <1>5, EraseVisible DEF Get
  <2>2. UNCHANGED Visible
    BY <1>0, <2>1 DEF Map!Without, Visible
  <2>3. k \in Live => Visible[k].data = dictionaryEntries[k].data
    BY DEF Visible
  <2>4. Map!Lookup(c, k)
    BY <1>0, <1>5, <2>2, <2>3 DEF Get, Map!Lookup, Map!Answer, Answer, readerVars
  <2>. QED BY <2>4 DEF Map!Next
<1>6. ASSUME NEW c \in Client, SetAdds(c) PROVE Map!Next
  <2>1. /\ request[c].key \in Key \cup {NoKey} /\ request[c].data \in Data
        /\ request[c].timeout \in Timeout /\ UNCHANGED cursor
        /\ AddEntry(c, request[c].key, request[c].data, request[c].timeout)
    BY <1>0, <1>6 DEF SetAdds, ClientOK, readerVars
  <2>. QED BY <1>0, <2>1, AddVisible
<1>7. ASSUME NEW c \in Client, NEW k \in Key \cup {NoKey}, NEW d \in Data,
             NEW timeout \in Timeout,
             Add(c, k, d, timeout) \/ SetRemoves(c, k, d, timeout)
      PROVE  Map!Next
  <2>1. CASE Add(c, k, d, timeout)
    BY <1>0, <2>1, AddVisible DEF Add, readerVars
  <2>2. CASE SetRemoves(c, k, d, timeout)
    BY <1>3, <2>2 DEF SetRemoves
  <2>. QED BY <1>7, <2>1, <2>2
<1>8. ASSUME NEW r \in Reader, GetNextEnds(r) PROVE Map!Next
  <2>1. Visible' = Map!Without(Visible, {j \in DOMAIN dictionaryEntries : j > cursor[r]})
    BY <1>8, EraseVisible DEF GetNextEnds
  <2>2. \A j \in Live : j <= cursor[r] /\ ~(j > cursor[r])
    <3>1. cursor[r] \in Nat /\ \A j \in Live : j \in Nat
      <4>1. cursor[r] \in Key \cup {0} /\ Live \subseteq Key
        BY <1>0 DEF ReaderOK, NoKey
      <4>2. Key \subseteq Nat
        BY DictionaryAssumption
      <4>3. 0 \in Nat
        OBVIOUS
      <4>. QED BY ONLY <4>1, <4>2, <4>3, Zenon
    <3>2. \A j \in Live : j <= cursor[r]
      BY <1>8 DEF GetNextEnds
    <3>. QED BY <3>1, <3>2
  <2>3. UNCHANGED Visible
    BY <1>0, <2>1, <2>2 DEF Map!Without, Visible
  <2>4. Map!Finish(r)
    BY <1>0, <1>8, <2>2, <2>3 DEF GetNextEnds, Map!Finish, Map!Answer, Answer, Map!NoKey, NoKey
  <2>. QED BY <2>4 DEF Map!Next
<1>9. ASSUME NEW r \in Reader, NEW k \in Key, GetNextFinds(r, k) PROVE Map!Next
  <2>1. Visible' = Map!Without(Visible,
                       {j \in DOMAIN dictionaryEntries : j > cursor[r] /\ j < k})
    BY <1>9, EraseVisible DEF GetNextFinds
  <2>2. k \in Live /\ k > cursor[r] /\ \A j \in Live : j > cursor[r] => k <= j /\ ~(j < k)
    BY <1>0, <1>9, DictionaryAssumption DEF GetNextFinds, IsNext
  <2>3. UNCHANGED Visible
    BY <1>0, <2>1, <2>2 DEF Map!Without, Visible
  <2>4. Visible[k].data = dictionaryEntries[k].data
    BY <2>2 DEF Visible
  <2>5. Map!Advance(r, k)
    BY <1>0, <1>9, <2>2, <2>3, <2>4
       DEF GetNextFinds, Map!Advance, Map!IsNext, Map!Answer, Answer
  <2>. QED BY <2>5 DEF Map!Next
<1>. QED
  BY <1>1, <1>2, <1>4, <1>5, <1>6, <1>7, <1>8, <1>9 DEF Next, GetNext

\* The dictionary implements the map of DictionaryMap: lookups, adds and
\* iterations answer as if expired entries were gone, whoever frees them.
THEOREM ImplementsMap == Spec => MapSpec
<1>1. Init => Map!Init
  <2>. SUFFICES ASSUME Init PROVE Map!Init
    OBVIOUS
  <2>1. Live = {}
    BY DEF Init, Live
  <2>2. Visible = [k \in {} |-> NoKey]
    BY <2>1 DEF Visible
  <2>. QED BY <2>2 DEF Init, Map!Init, Map!NoKey, NoKey
<1>2. IInv /\ [Next]_vars => [Map!Next]_(Map!vars)
  <2>. SUFFICES ASSUME IInv, [Next]_vars PROVE [Map!Next]_(Map!vars)
    OBVIOUS
  <2>1. CASE Next
    BY <2>1, NextVisible
  <2>2. CASE UNCHANGED vars
    <3>1. UNCHANGED <<dictionaryEntries, answer, cursor>>
      BY <2>2 DEF vars, readerVars
    <3>2. UNCHANGED Visible
      BY <3>1 DEF Visible, Live, Expired
    <3>. QED BY <3>1, <3>2 DEF Map!vars
  <2>. QED BY <2>1, <2>2
<1>. QED BY <1>1, <1>2, DictionarySafe, PTL DEF Spec, MapSpec, Map!Spec

\* Counters, timers and sets stay consistent for any number of clients, readers,
\* keys and entries.
THEOREM StoreSound == Spec => []StoreIsSound
<1>1. CountersBalance /\ TimersBelongToEntries /\ SetForgetsOldValue => StoreIsSound
  BY DEF StoreIsSound
<1>. QED BY <1>1, CountersAddUp, NoTimerLeaks, SetReplaces, PTL
=============================================================================
