----------------------------- MODULE CacheStage -----------------------------
(***************************************************************************)
(* The cache stage, its singleflight and the in-process store              *)
(* (internal/cache/middleware.go, singleflight.go, memory.go) as           *)
(* concurrent requests for one eligible key go through them.  Keys share   *)
(* nothing but the capacity of the store: the other keys are a number of   *)
(* entries, and what the frequency sketch of the admission gate estimates  *)
(* is a choice.  A body asks for a stream or does not, so all requests of  *)
(* a key are of one kind: streams fetch alone, the others share a flight.  *)
(*                                                                         *)
(* A request names the flight call it opens.  What the rest of the chain   *)
(* answers is a kind of reply; the stage never looks further.              *)
(***************************************************************************)
EXTENDS Integers

CONSTANTS
    Requests,
    NoRequest,  \* no flight open for the key
    MaxEntries  \* capacity of the store

ASSUME CacheAssumption == NoRequest \notin Requests /\ MaxEntries \in Nat \ {0}

\* What a fetch can end as: a 2xx with a body, a 2xx without, an error the
\* upstream produced, an envelope of the gateway, no response at all, a reply
\* past the capture cap, a stream cut after its first bytes, a panic.
Replies == {"full", "empty", "fault", "envelope", "nothing", "oversize",
            "aborted", "panic"}

NothingStored == [kind |-> "none", ttl |-> "none"]
Entry(kind, ttl) == [kind |-> kind, ttl |-> ttl]

VARIABLES
    streaming,  \* the key's requests ask for a stream
    stored,     \* the resident entry of the key
    stale,      \* ... which has expired
    rivals,     \* resident entries of other keys
    flight,     \* the call registered for the key
    phase,      \* where each request is
    joined,     \* the call it waits for
    result,     \* what its own fetch ended as
    closed,     \* calls whose done channel is closed
    answer      \* history: what a request that did not fetch was answered

store == <<stored, stale, rivals>>
vars == <<streaming, store, flight, phase, joined, result, closed, answer>>

Init ==
    /\ streaming \in BOOLEAN
    /\ stored = NothingStored /\ stale = FALSE /\ rivals = 0
    /\ flight = NoRequest
    /\ phase = [r \in Requests |-> "idle"]
    /\ joined = [r \in Requests |-> NoRequest]
    /\ result = [r \in Requests |-> "none"]
    /\ closed = {}
    /\ answer = [r \in Requests |-> "none"]

Move(r, p) == phase' = [phase EXCEPT ![r] = p]

-----------------------------------------------------------------------------
(* Memory: the store *)

\* Get judges expiry itself; an expired entry may stay resident.
Fresh == stored # NothingStored /\ ~stale

\* admitLocked: the newcomer takes the slot of a sampled victim, or is lost.
Admit(entry, left) ==
    \/ stored' = entry /\ rivals' = left - 1
    \/ UNCHANGED stored /\ rivals' = left

\* Set, with the sweep of the expired before it.  A resident key is updated
\* and a store with room takes the entry; the gate decides otherwise.
Set(entry) ==
    \E left \in 0..rivals :
        /\ stale' = FALSE
        /\ IF stored # NothingStored \/ left < MaxEntries
           THEN stored' = entry /\ rivals' = left
           ELSE Admit(entry, left)

\* A Set of another key: it updates its entry, takes free room, or meets the
\* gate, where it is lost, takes the slot of a rival or takes the key's.
SetRival ==
    /\ \E swept \in BOOLEAN, left \in 0..rivals :
        LET mine == IF swept /\ stale THEN NothingStored ELSE stored
            used == left + (IF mine = NothingStored THEN 0 ELSE 1)
        IN  /\ swept \/ left = rivals
            /\ \/ left > 0 /\ stored' = mine /\ rivals' = left
               \/ used < MaxEntries /\ stored' = mine /\ rivals' = left + 1
               \/ used >= MaxEntries /\ stored' = mine /\ rivals' = left
               \/ used >= MaxEntries /\ stored' = NothingStored /\ rivals' = left + 1
                    /\ mine # NothingStored
    /\ stale' = (stale /\ stored' # NothingStored)
    /\ UNCHANGED <<streaming, flight, phase, joined, result, closed, answer>>

\* The entry's time is over.
Expire ==
    /\ Fresh
    /\ stale' = TRUE
    /\ UNCHANGED <<streaming, stored, rivals, flight, phase, joined, result, closed, answer>>

-----------------------------------------------------------------------------
(* Lookup *)

\* An entry is written out as it was captured.
Replay(r, kind) == answer' = [answer EXCEPT ![r] = kind]

\* store.Get hits: the entry is replayed, nothing is consumed.
Hit(r) ==
    /\ phase[r] = "idle" /\ Fresh
    /\ Move(r, "done")
    /\ Replay(r, stored.kind)
    /\ UNCHANGED <<streaming, store, flight, joined, result, closed>>

Miss(r) ==
    /\ phase[r] = "idle" /\ ~Fresh
    /\ Move(r, IF streaming THEN "streaming" ELSE "missed")
    /\ UNCHANGED <<streaming, store, flight, joined, result, closed, answer>>

-----------------------------------------------------------------------------
(* Streams: each fetches alone, the last write wins *)

\* The tee dropped bytes past its capture limit.
Truncated(reply) == reply = "oversize"

\* storeWorthy (a 2xx, not truncated) and not relayAborted.
StreamWorthy(reply) == reply \in {"full", "empty", "oversize"} /\ ~Truncated(reply)

StreamEnds(r, reply) ==
    /\ phase[r] = "streaming"
    /\ Move(r, "done")
    /\ IF StreamWorthy(reply) THEN Set(Entry(reply, "base")) ELSE UNCHANGED store
    /\ UNCHANGED <<streaming, flight, joined, result, closed, answer>>

-----------------------------------------------------------------------------
(* Flight.Do *)

\* No call is registered: the request becomes the holder.
OpenFlight(r) ==
    /\ phase[r] = "missed" /\ flight = NoRequest
    /\ flight' = r
    /\ Move(r, "fetching")
    /\ UNCHANGED <<streaming, store, joined, result, closed, answer>>

\* A call is registered: the request waits for it.
JoinFlight(r) ==
    /\ phase[r] = "missed" /\ flight # NoRequest
    /\ joined' = [joined EXCEPT ![r] = flight]
    /\ Move(r, "waiting")
    /\ UNCHANGED <<streaming, store, flight, result, closed, answer>>

\* Mutant: the size of the capture is not looked at.
ShareableOversize(reply) == reply \notin {"nothing", "panic"}

\* What fn returns an entry for: some response, whole.
Shareable(reply) == reply \notin {"nothing", "panic"} /\ ~Truncated(reply)

\* Mutant: a panic leaves the key registered.
PublishKeepingKey(r, reply) ==
    /\ result' = [result EXCEPT ![r] = reply]
    /\ flight' = IF reply = "panic" THEN flight ELSE NoRequest

\* The result is published and the key is free for a new flight.
Publish(r, reply) ==
    /\ result' = [result EXCEPT ![r] = reply]
    /\ flight' = NoRequest

\* The fetch ends, by itself or at its budget, or panics.
FetchEnds(r, reply) ==
    /\ phase[r] = "fetching"
    /\ Publish(r, reply)
    /\ Move(r, "published")
    /\ UNCHANGED <<streaming, store, joined, closed, answer>>

\* Mutant: a panic does not close the channel.
ReleaseNotOnPanic(r) ==
    /\ phase[r] = "published"
    /\ closed' = IF result[r] = "panic" THEN closed ELSE closed \cup {r}
    /\ Move(r, IF Shareable(result[r]) THEN "storing" ELSE "done")
    /\ UNCHANGED <<streaming, store, flight, joined, result, answer>>

\* close(done).  A failed fetch has nothing to store.
Release(r) ==
    /\ phase[r] = "published"
    /\ closed' = closed \cup {r}
    /\ Move(r, IF Shareable(result[r]) THEN "storing" ELSE "done")
    /\ UNCHANGED <<streaming, store, flight, joined, result, answer>>

\* The holder's result is replayed verbatim; an error becomes a 502.
Wake(r) ==
    /\ phase[r] = "waiting" /\ joined[r] \in closed
    /\ Move(r, "done")
    /\ Replay(r, IF Shareable(result[joined[r]]) THEN result[joined[r]] ELSE "error")
    /\ UNCHANGED <<streaming, store, flight, joined, result, closed>>

\* The waiter's own budget ends first.
WaitExpires(r) ==
    /\ phase[r] = "waiting"
    /\ Move(r, "done")
    /\ answer' = [answer EXCEPT ![r] = "error"]
    /\ UNCHANGED <<streaming, store, flight, joined, result, closed>>

-----------------------------------------------------------------------------
(* The starter stores what it fetched *)

\* storeWorthyFromEntry, and negativelyCacheable.
Worthy(reply) == reply \in {"full", "empty"}
Negative(reply) == reply \in {"fault", "empty"}

Store(r) ==
    /\ phase[r] = "storing"
    /\ Move(r, "done")
    /\ CASE Worthy(result[r]) -> Set(Entry(result[r], "base"))
         [] ~Worthy(result[r]) /\ Negative(result[r]) -> Set(Entry(result[r], "short"))
         [] OTHER -> UNCHANGED store
    /\ UNCHANGED <<streaming, flight, joined, result, closed, answer>>

\* A request that is over and whose call nobody waits for any more stands for
\* the next one.
Recycle(r) ==
    /\ phase[r] = "done"
    /\ \A w \in Requests : phase[w] = "waiting" => joined[w] # r
    /\ Move(r, "idle")
    /\ joined' = [joined EXCEPT ![r] = NoRequest]
    /\ result' = [result EXCEPT ![r] = "none"]
    /\ answer' = [answer EXCEPT ![r] = "none"]
    /\ closed' = closed \ {r}
    /\ UNCHANGED <<streaming, store, flight>>

Request(r) ==
    \/ Hit(r) \/ Miss(r)
    \/ \E reply \in Replies : StreamEnds(r, reply)
    \/ OpenFlight(r) \/ JoinFlight(r)
    \/ \E reply \in Replies \ {"aborted"} : FetchEnds(r, reply)
    \/ Release(r) \/ Wake(r) \/ WaitExpires(r)
    \/ Store(r) \/ Recycle(r)

Next == (\E r \in Requests : Request(r)) \/ SetRival \/ Expire

Spec == Init /\ [][Next]_vars

\* The fetch budget ends every fetch; the rest are the next statements of a
\* running goroutine.  Nothing is assumed of the waiter's own timeout.
FairSpec ==
    /\ Spec
    /\ \A r \in Requests :
        /\ WF_vars(OpenFlight(r) \/ JoinFlight(r))
        /\ WF_vars(\E reply \in Replies \ {"aborted"} : FetchEnds(r, reply))
        /\ WF_vars(Release(r)) /\ WF_vars(Wake(r)) /\ WF_vars(Store(r))

-----------------------------------------------------------------------------
Phases == {"idle", "streaming", "missed", "fetching", "published", "storing",
           "waiting", "done"}

\* Every variable keeps its type and the store its capacity.
TypeOK ==
    /\ streaming \in BOOLEAN
    /\ stored \in {NothingStored} \cup [kind : Replies, ttl : {"base", "short"}]
    /\ stale \in BOOLEAN
    /\ rivals \in 0..(MaxEntries - IF stored = NothingStored THEN 0 ELSE 1)
    /\ flight \in Requests \cup {NoRequest}
    /\ phase \in [Requests -> Phases]
    /\ joined \in [Requests -> Requests \cup {NoRequest}]
    /\ result \in [Requests -> Replies \cup {"none"}]
    /\ closed \subseteq Requests
    /\ answer \in [Requests -> Replies \cup {"none", "error"}]

\* The registered call is exactly the one fetch under way: never two for a
\* key, and never a key wedged on a call that has ended, panic or not.  Every
\* variable keeps its type and the store its capacity.
FlightIsTheFetch ==
    /\ TypeOK
    /\ \A r \in Requests : flight = r <=> phase[r] = "fetching"

\* Nobody is ever answered with somebody else's half reply: what is replayed,
\* from the store or from a flight, is a complete answer, and whoever waited
\* for a fetch is answered with its published result or with an error.  The
\* store never holds a partial reply nor an error of the gateway's own.
ReplaysComplete ==
    /\ stored.kind \in {"none", "full", "empty", "fault"}
    /\ \A r \in Requests :
        /\ answer[r] \in {"none", "error", "full", "empty", "fault", "envelope"}
        /\ phase[r] = "done" /\ joined[r] # NoRequest => answer[r] # "none"

\* Nobody waits for ever on a shared fetch, whatever becomes of its holder.
WaitersReleased == \A r \in Requests : phase[r] = "waiting" ~> phase[r] # "waiting"
=============================================================================
