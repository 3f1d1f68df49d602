-------------------------- MODULE CacheStageProofs --------------------------
(***************************************************************************)
(* Proofs about the cache stage (CacheStage), for every number of requests *)
(* and every capacity of the store.                                        *)
(***************************************************************************)
EXTENDS CacheStage, TLAPS

\* What is known of a fetch once it has been published: its result is there
\* before the channel closes, and it is never a stream that was cut.
FlightInv ==
    \A r \in Requests :
        /\ result[r] # "aborted"
        /\ phase[r] = "published" => result[r] # "none"
        /\ phase[r] = "storing" => Shareable(result[r]) /\ result[r] # "none"
        /\ r \in closed => result[r] # "none"
        /\ phase[r] = "waiting" => joined[r] \in Requests
        /\ phase[r] \in {"idle", "missed", "fetching", "published", "storing", "streaming"}
             => joined[r] = NoRequest

IInv == FlightIsTheFetch /\ ReplaysComplete /\ FlightInv

\* A fetch whose result a waiter may see is a complete reply.
LEMMA ShareableComplete ==
    ASSUME NEW reply \in Replies \ {"aborted"}, Shareable(reply)
    PROVE  reply \in {"full", "empty", "fault", "envelope"}
BY DEF Shareable, Truncated, Replies

\* Set keeps the capacity of the store and holds the old entry or the new one.
LEMMA SetKeepsStore ==
    ASSUME TypeOK, NEW kind \in {"full", "empty", "fault"}, NEW ttl \in {"base", "short"},
           Set(Entry(kind, ttl))
    PROVE  /\ stored' \in {NothingStored} \cup [kind : Replies, ttl : {"base", "short"}]
           /\ stale' \in BOOLEAN
           /\ rivals' \in 0..(MaxEntries - IF stored' = NothingStored THEN 0 ELSE 1)
           /\ stored' = stored \/ stored'.kind = kind
<1> DEFINE entry == Entry(kind, ttl)
<1>1. /\ entry \in [kind : Replies, ttl : {"base", "short"}]
      /\ entry.kind = kind /\ entry # NothingStored
  BY DEF Entry, Replies, NothingStored
<1>2. PICK left \in 0..rivals :
        /\ stale' = FALSE
        /\ IF stored # NothingStored \/ left < MaxEntries
           THEN stored' = entry /\ rivals' = left
           ELSE Admit(entry, left)
  BY DEF Set
<1> HIDE DEF entry
<1>3. /\ MaxEntries \in Nat \ {0} /\ rivals \in Nat /\ left \in Nat /\ left <= rivals
      /\ rivals <= MaxEntries
      /\ stored # NothingStored => rivals <= MaxEntries - 1
  BY CacheAssumption DEF TypeOK, CacheAssumption
<1>4. CASE stored # NothingStored \/ left < MaxEntries
  <2>1. stored' = entry /\ rivals' = left /\ stale' = FALSE
    BY <1>2, <1>4
  <2>2. rivals' \in 0..(MaxEntries - 1)
    BY <2>1, <1>3, <1>4
  <2> QED BY <2>1, <2>2, <1>1
<1>5. CASE stored = NothingStored /\ ~(left < MaxEntries)
  <2>1. stale' = FALSE /\ Admit(entry, left)
    BY <1>2, <1>5
  <2>2. CASE stored' = entry /\ rivals' = left - 1
    <3>1. rivals' \in 0..(MaxEntries - 1)
      BY <2>2, <1>3, <1>5
    <3> QED BY <2>1, <2>2, <3>1, <1>1
  <2>3. CASE stored' = stored /\ rivals' = left
    <3>1. rivals' \in 0..MaxEntries
      BY <2>3, <1>3
    <3>2. stored' = NothingStored
      BY <2>3, <1>5
    <3>3. rivals' \in 0..(MaxEntries - IF stored' = NothingStored THEN 0 ELSE 1)
      BY <3>1, <3>2, <1>3
    <3> QED BY <2>1, <2>3, <3>2, <3>3
  <2> QED BY <2>1, <2>2, <2>3 DEF Admit
<1> QED BY <1>4, <1>5

\* The initial states satisfy the invariant.
LEMMA InitInv == Init => IInv
<1> SUFFICES ASSUME Init PROVE IInv
  OBVIOUS
<1> USE DEF Init
<1>1. TypeOK
  <2>1. rivals \in 0..(MaxEntries - IF stored = NothingStored THEN 0 ELSE 1)
    BY CacheAssumption DEF CacheAssumption
  <2>2. phase \in [Requests -> Phases]
    BY DEF Phases
  <2> QED BY <2>1, <2>2 DEF TypeOK
<1>2. FlightIsTheFetch
  BY <1>1, CacheAssumption DEF CacheAssumption, FlightIsTheFetch
<1>3. ReplaysComplete /\ FlightInv
  BY DEF ReplaysComplete, FlightInv, NothingStored
<1> QED BY <1>2, <1>3 DEF IInv

\* Looking a key up keeps the invariant.
LEMMA LookupStep ==
    ASSUME IInv, NEW r \in Requests, Hit(r) \/ Miss(r)
    PROVE  IInv'
<1> USE DEF IInv, Hit, Miss, Move, store
<1>1. TypeOK'
  BY DEF FlightIsTheFetch, TypeOK, Phases, Replay, ReplaysComplete, Replies, Fresh
<1>2. FlightIsTheFetch'
  BY <1>1 DEF FlightIsTheFetch, TypeOK
<1>3. ReplaysComplete'
  BY DEF FlightIsTheFetch, TypeOK, ReplaysComplete, Replay, FlightInv, Fresh
<1>4. FlightInv'
  BY DEF FlightIsTheFetch, TypeOK, FlightInv
<1> QED BY <1>2, <1>3, <1>4

\* The end of a stream keeps it.
LEMMA StreamStep ==
    ASSUME IInv, NEW r \in Requests, NEW reply \in Replies, StreamEnds(r, reply)
    PROVE  IInv'
<1> USE DEF IInv, StreamEnds, Move
<1>1. /\ stored' \in {NothingStored} \cup [kind : Replies, ttl : {"base", "short"}]
      /\ stale' \in BOOLEAN
      /\ rivals' \in 0..(MaxEntries - IF stored' = NothingStored THEN 0 ELSE 1)
      /\ stored' = stored \/ stored'.kind \in {"full", "empty"}
  <2>1. CASE StreamWorthy(reply)
    BY <2>1, SetKeepsStore DEF StreamWorthy, Truncated, FlightIsTheFetch
  <2>2. CASE ~StreamWorthy(reply)
    BY <2>2 DEF store, FlightIsTheFetch, TypeOK
  <2> QED BY <2>1, <2>2
<1>2. TypeOK'
  BY <1>1 DEF FlightIsTheFetch, TypeOK, Phases
<1>3. FlightIsTheFetch'
  BY <1>2 DEF FlightIsTheFetch, TypeOK
<1>4. ReplaysComplete'
  BY <1>1 DEF FlightIsTheFetch, TypeOK, ReplaysComplete, FlightInv
<1>5. FlightInv'
  BY DEF FlightIsTheFetch, TypeOK, FlightInv
<1> QED BY <1>3, <1>4, <1>5

\* Opening and joining a flight keep it.
LEMMA FlightStep ==
    ASSUME IInv, NEW r \in Requests, OpenFlight(r) \/ JoinFlight(r)
    PROVE  IInv'
<1> USE DEF IInv, OpenFlight, JoinFlight, Move, store
<1>1. TypeOK'
  BY DEF FlightIsTheFetch, TypeOK, Phases
<1>2. FlightIsTheFetch'
  BY <1>1, CacheAssumption DEF CacheAssumption, FlightIsTheFetch, TypeOK
<1>3. ReplaysComplete'
  BY DEF FlightIsTheFetch, TypeOK, ReplaysComplete
<1>4. FlightInv'
  BY DEF FlightIsTheFetch, TypeOK, FlightInv
<1> QED BY <1>2, <1>3, <1>4

\* The end of a shared fetch keeps it, a panic included.
LEMMA FetchStep ==
    ASSUME IInv, NEW r \in Requests, NEW reply \in Replies \ {"aborted"},
           FetchEnds(r, reply)
    PROVE  IInv'
<1> USE DEF IInv, FetchEnds, Publish, Move, store
<1>1. TypeOK'
  BY DEF FlightIsTheFetch, TypeOK, Phases
<1>2. FlightIsTheFetch'
  BY <1>1, CacheAssumption DEF CacheAssumption, FlightIsTheFetch, TypeOK
<1>3. ReplaysComplete'
  BY DEF FlightIsTheFetch, TypeOK, ReplaysComplete
<1>4. FlightInv'
  BY DEF FlightIsTheFetch, TypeOK, FlightInv, Replies
<1> QED BY <1>2, <1>3, <1>4

\* Closing the channel keeps it.
LEMMA ReleaseStep ==
    ASSUME IInv, NEW r \in Requests, Release(r)
    PROVE  IInv'
<1> USE DEF IInv, Release, Move, store
<1>1. TypeOK'
  BY DEF FlightIsTheFetch, TypeOK, Phases
<1>2. FlightIsTheFetch'
  BY <1>1 DEF FlightIsTheFetch, TypeOK
<1>3. ReplaysComplete'
  BY CacheAssumption DEF CacheAssumption, FlightIsTheFetch, TypeOK, ReplaysComplete, FlightInv
<1>4. FlightInv'
  BY DEF FlightIsTheFetch, TypeOK, FlightInv
<1> QED BY <1>2, <1>3, <1>4

\* A waiter that is woken, or gives up, keeps it: the channel it heard closed
\* belongs to a call whose result is published.
LEMMA WaiterStep ==
    ASSUME IInv, NEW r \in Requests, Wake(r) \/ WaitExpires(r)
    PROVE  IInv'
<1> USE DEF IInv, Wake, WaitExpires, Move, store
<1>1. /\ answer' \in [Requests -> Replies \cup {"none", "error"}]
      /\ \A q \in Requests : q # r => answer'[q] = answer[q]
      /\ answer'[r] \in {"error", "full", "empty", "fault", "envelope"}
  <2>1. CASE Wake(r)
    <3> DEFINE heard == result[joined[r]]
    <3>1. joined[r] \in Requests /\ heard \in Replies \ {"aborted"}
      BY <2>1 DEF FlightInv, FlightIsTheFetch, TypeOK
    <3>2. Shareable(heard) => heard \in {"full", "empty", "fault", "envelope"}
      BY <3>1, ShareableComplete
    <3> QED BY <2>1, <3>1, <3>2 DEF Replay, FlightIsTheFetch, TypeOK
  <2>2. CASE WaitExpires(r)
    BY <2>2 DEF FlightIsTheFetch, TypeOK
  <2> QED BY <2>1, <2>2
<1>2. TypeOK'
  BY <1>1 DEF FlightIsTheFetch, TypeOK, Phases
<1>3. FlightIsTheFetch'
  BY <1>2 DEF FlightIsTheFetch, TypeOK
<1>4. ReplaysComplete'
  <2>1. /\ UNCHANGED <<stored, joined>>
        /\ \A q \in Requests : q # r => phase'[q] = phase[q]
    BY DEF FlightIsTheFetch, TypeOK
  <2> QED BY <1>1, <2>1 DEF ReplaysComplete
<1>5. FlightInv'
  BY DEF FlightIsTheFetch, TypeOK, FlightInv
<1> QED BY <1>3, <1>4, <1>5

\* Storing what was fetched keeps it.
LEMMA StoreStep ==
    ASSUME IInv, NEW r \in Requests, Store(r)
    PROVE  IInv'
<1> USE DEF IInv, Store, Move
<1>1. /\ stored' \in {NothingStored} \cup [kind : Replies, ttl : {"base", "short"}]
      /\ stale' \in BOOLEAN
      /\ rivals' \in 0..(MaxEntries - IF stored' = NothingStored THEN 0 ELSE 1)
      /\ stored' = stored \/ stored'.kind \in {"full", "empty", "fault"}
  <2>1. CASE Worthy(result[r])
    BY <2>1, SetKeepsStore DEF Worthy, FlightIsTheFetch
  <2>2. CASE ~Worthy(result[r]) /\ Negative(result[r])
    BY <2>2, SetKeepsStore DEF Negative, FlightIsTheFetch
  <2>3. CASE ~Worthy(result[r]) /\ ~Negative(result[r])
    BY <2>3 DEF store, FlightIsTheFetch, TypeOK
  <2> QED BY <2>1, <2>2, <2>3
<1>2. TypeOK'
  BY <1>1 DEF FlightIsTheFetch, TypeOK, Phases
<1>3. FlightIsTheFetch'
  BY <1>2 DEF FlightIsTheFetch, TypeOK
<1>4. ReplaysComplete'
  BY <1>1 DEF FlightIsTheFetch, TypeOK, ReplaysComplete, FlightInv
<1>5. FlightInv'
  BY DEF FlightIsTheFetch, TypeOK, FlightInv
<1> QED BY <1>3, <1>4, <1>5

\* A slot that is used again keeps it.
LEMMA RecycleStep ==
    ASSUME IInv, NEW r \in Requests, Recycle(r)
    PROVE  IInv'
<1> USE DEF IInv, Recycle, Move, store
<1>1. TypeOK'
  BY DEF FlightIsTheFetch, TypeOK, Phases
<1>2. FlightIsTheFetch'
  BY <1>1 DEF FlightIsTheFetch, TypeOK
<1>3. ReplaysComplete'
  BY DEF FlightIsTheFetch, TypeOK, ReplaysComplete
<1>4. FlightInv'
  BY DEF FlightIsTheFetch, TypeOK, FlightInv
<1> QED BY <1>2, <1>3, <1>4

\* Other keys and the clock keep it: the store stays within its capacity.
LEMMA StoreMovesStep ==
    ASSUME IInv, SetRival \/ Expire
    PROVE  IInv'
<1>1. /\ stored' \in {stored, NothingStored}
      /\ stale' \in BOOLEAN
      /\ rivals' \in 0..(MaxEntries - IF stored' = NothingStored THEN 0 ELSE 1)
      /\ UNCHANGED <<streaming, flight, phase, joined, result, closed, answer>>
  <2>0. /\ MaxEntries \in Nat \ {0} /\ rivals \in Nat /\ rivals <= MaxEntries
        /\ stored # NothingStored => rivals <= MaxEntries - 1
    BY CacheAssumption DEF CacheAssumption, IInv, FlightIsTheFetch, TypeOK
  <2>1. CASE SetRival
    <3>1. PICK swept \in BOOLEAN, left \in 0..rivals :
            LET mine == IF swept /\ stale THEN NothingStored ELSE stored
                used == left + (IF mine = NothingStored THEN 0 ELSE 1)
            IN  /\ swept \/ left = rivals
                /\ \/ left > 0 /\ stored' = mine /\ rivals' = left
                   \/ used < MaxEntries /\ stored' = mine /\ rivals' = left + 1
                   \/ used >= MaxEntries /\ stored' = mine /\ rivals' = left
                   \/ used >= MaxEntries /\ stored' = NothingStored /\ rivals' = left + 1
                        /\ mine # NothingStored
      BY <2>1 DEF SetRival
    <3>2. stored' \in {stored, NothingStored}
      BY <3>1
    <3>3. rivals' \in 0..(MaxEntries - IF stored' = NothingStored THEN 0 ELSE 1)
      BY <3>1, <2>0
    <3> QED BY <2>1, <3>2, <3>3 DEF SetRival
  <2>2. CASE Expire
    BY <2>2 DEF Expire, IInv, FlightIsTheFetch, TypeOK
  <2> QED BY <2>1, <2>2
<1>2. TypeOK'
  BY <1>1 DEF IInv, FlightIsTheFetch, TypeOK
<1>3. FlightIsTheFetch'
  BY <1>1, <1>2 DEF IInv, FlightIsTheFetch
<1>4. ReplaysComplete'
  BY <1>1 DEF IInv, ReplaysComplete, NothingStored
<1>5. FlightInv'
  BY <1>1 DEF IInv, FlightInv
<1> QED BY <1>3, <1>4, <1>5 DEF IInv

\* Every step keeps the invariant.
LEMMA NextInv == IInv /\ [Next]_vars => IInv'
<1> SUFFICES ASSUME IInv, [Next]_vars PROVE IInv'
  OBVIOUS
<1>1. ASSUME NEW r \in Requests, Request(r) PROVE IInv'
  BY <1>1, LookupStep, StreamStep, FlightStep, FetchStep, ReleaseStep, WaiterStep,
     StoreStep, RecycleStep DEF Request
<1>2. CASE UNCHANGED vars
  BY <1>2 DEF vars, store, IInv, FlightIsTheFetch, TypeOK, ReplaysComplete, FlightInv
<1> QED BY <1>1, <1>2, StoreMovesStep DEF Next

\* At any time the registered call is the one fetch under way, whatever
\* panics, and the store stays within its capacity, for any number of
\* requests (singleflight.go, memory.go).
THEOREM OneFetchPerKey == Spec => []FlightIsTheFetch
<1>1. IInv => FlightIsTheFetch
  BY DEF IInv
<1> QED BY <1>1, InitInv, NextInv, PTL DEF Spec

\* Nobody is answered with a partial reply or before there is one, and the
\* store never holds one (middleware.go, singleflight.go).
THEOREM OnlyCompleteReplays == Spec => []ReplaysComplete
<1>1. IInv => ReplaysComplete
  BY DEF IInv
<1> QED BY <1>1, InitInv, NextInv, PTL DEF Spec
=============================================================================
