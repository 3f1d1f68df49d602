------------------------------- MODULE Relay -------------------------------
(***************************************************************************)
(* The relay engine (internal/relay) under the attempt loop and the retry  *)
(* budget of internal/retry: concurrent client requests walk their         *)
(* candidate upstreams, sharing the per-upstream bulkhead, the budget, the *)
(* breaker permits, the credential rings and the routing switch.           *)
(*                                                                         *)
(* The breaker may grant or deny any request; what it makes of the reports *)
(* is the subject of the breaker modules.  The fatal hook and the enable   *)
(* callback are single steps here; RoutingControl takes them apart.        *)
(***************************************************************************)
EXTENDS Integers, Sequences, FiniteSets

CONSTANTS
    Requests,
    Streaming,      \* the requests that ask for a stream
    Upstreams,
    Ring,           \* the credentials of each upstream's ring
    Model,          \* the model the requests name
    Chain,          \* its fallback models, in order
    Serves,         \* the upstreams bound to each model, in order
    MaxAttempts,
    BulkheadMax,
    Percent,        \* share mode of the retry budget
    MinInFlight,
    Nobody          \* no upstream, no credential

ASSUME RelayAssumption ==
    /\ IsFiniteSet(Requests) /\ Streaming \subseteq Requests
    /\ DOMAIN Ring = Upstreams /\ Nobody \notin Upstreams
    /\ \A u \in Upstreams : IsFiniteSet(Ring[u]) /\ Nobody \notin Ring[u]
    /\ Chain \in Seq(DOMAIN Serves) /\ Model \in DOMAIN Serves
    /\ Serves \in [DOMAIN Serves -> Seq(Upstreams)]
    /\ MaxAttempts \in Nat \ {0} /\ BulkheadMax \in Nat \ {0}
    /\ Percent \in 1..100 /\ MinInFlight \in Nat \ {0}

VARIABLES
    \* shared by all requests
    slots,      \* bulkhead: in-flight exchanges per upstream
    budget,     \* retry attempts in flight
    permits,    \* requests whose breaker permission is not reported yet
    dead,       \* retired credentials per upstream
    disabled,   \* upstreams out of rotation
    \* one client request
    phase,
    gone,       \* the client context is cancelled
    attempt,    \* attempts begun
    cands,      \* candidates of the current batch
    start,      \* the attempt the batch began with
    reached,    \* the next unread position of the chain
    tried,      \* models resolved or rejected so far
    cand,       \* candidate of the current attempt
    cred,       \* credential of the current exchange
    fired,      \* expired timers of the stream lease
    burned,     \* excluded credentials, as <<upstream, credential>>
    verdict,    \* outcome the current attempt reports
    error,      \* what the last attempt returned
    hint,       \* the <<upstream, credential>> whose Retry-After it carries
    terminal,   \* attempt whose reply is the terminal passthrough
    failed,     \* attempt whose reply is the passthrough candidate
    \* history
    cause,      \* what really ended the exchange
    written,    \* responses begun on the client connection
    result      \* what finish rendered, and how many attempts ago it was received

shared == <<slots, budget, permits, dead, disabled>>
plan == <<cands, start, reached, tried>>
exchange == <<cand, cred, fired, verdict, cause>>
stash == <<burned, terminal, failed>>
loop == <<attempt, error, hint>>
reply == <<written, result>>
vars == <<shared, phase, gone, plan, exchange, stash, loop, reply>>

NoOne == <<Nobody, Nobody>>
Answer(kind, age) == [kind |-> kind, age |-> age]
Alive(u) == Ring[u] \ dead[u]

\* Candidates: the bound upstreams in order, without those the switch disabled
\* and those whose breaker reads open (all of them stands for a model that is
\* switched off).
Candidates(us, open) == SelectSeq(us, LAMBDA u : u \notin disabled \cup open)

Init ==
    /\ slots = [u \in Upstreams |-> 0] /\ budget = 0 /\ permits = {}
    /\ dead = [u \in Upstreams |-> {}] /\ disabled = {}
    /\ phase = [r \in Requests |-> "idle"]
    /\ gone = [r \in Requests |-> FALSE]
    /\ attempt = [r \in Requests |-> 0]
    /\ cands = [r \in Requests |-> << >>] /\ start = [r \in Requests |-> 1]
    /\ reached = [r \in Requests |-> 1] /\ tried = [r \in Requests |-> {Model}]
    /\ cand = [r \in Requests |-> Nobody] /\ cred = [r \in Requests |-> Nobody]
    /\ fired = [r \in Requests |-> {}] /\ burned = [r \in Requests |-> {}]
    /\ verdict = [r \in Requests |-> "none"] /\ error = [r \in Requests |-> "none"]
    /\ hint = [r \in Requests |-> NoOne]
    /\ terminal = [r \in Requests |-> 0] /\ failed = [r \in Requests |-> 0]
    /\ cause = [r \in Requests |-> "none"]
    /\ written = [r \in Requests |-> 0] /\ result = [r \in Requests |-> Answer("none", 0)]

Move(r, p) == phase' = [phase EXCEPT ![r] = p]
Write(r) == written' = [written EXCEPT ![r] = @ + 1]
Fail(r, e) == error' = [error EXCEPT ![r] = e]

\* StripRetryAfter drops the hint.
StripRetryAfter(r) == hint' = [hint EXCEPT ![r] = NoOne]

Running(r) == phase[r] \notin {"idle", "done"}

\* Only the Result outlives a run.
Forget(r) ==
    /\ Move(r, "done")
    /\ gone' = [gone EXCEPT ![r] = FALSE]
    /\ attempt' = [attempt EXCEPT ![r] = 0]
    /\ cands' = [cands EXCEPT ![r] = << >>] /\ start' = [start EXCEPT ![r] = 1]
    /\ reached' = [reached EXCEPT ![r] = 1] /\ tried' = [tried EXCEPT ![r] = {}]
    /\ cand' = [cand EXCEPT ![r] = Nobody] /\ cred' = [cred EXCEPT ![r] = Nobody]
    /\ fired' = [fired EXCEPT ![r] = {}] /\ burned' = [burned EXCEPT ![r] = {}]
    /\ verdict' = [verdict EXCEPT ![r] = "none"] /\ error' = [error EXCEPT ![r] = "none"]
    /\ hint' = [hint EXCEPT ![r] = NoOne] /\ cause' = [cause EXCEPT ![r] = "none"]
    /\ terminal' = [terminal EXCEPT ![r] = 0] /\ failed' = [failed EXCEPT ![r] = 0]

-----------------------------------------------------------------------------
(* The fallback plan: target and advance *)

\* Where the chain goes on: past models tried and models nobody serves now.
Eligible(r, open) ==
    {p \in reached[r]..Len(Chain) :
        /\ Chain[p] \notin tried[r] \cup {Chain[q] : q \in reached[r]..(p - 1)}
        /\ 0 < Len(Candidates(Serves[Chain[p]], open))}

\* Whether attempt n is past the current batch.
Exhausted(r, n) == ~(n - start[r] < Len(cands[r]))

\* target(n) moves the plan on when the batch is exhausted.  A drained chain
\* leaves the last batch in place.
Advance(r, n, open) ==
    IF ~Exhausted(r, n)
    THEN UNCHANGED plan
    ELSE LET found == Eligible(r, open)
             next == CHOOSE p \in found : \A q \in found : p <= q
             upTo == IF found = {} THEN Len(Chain) ELSE next
         IN  /\ reached' = [reached EXCEPT ![r] = upTo + 1]
             /\ tried' = [tried EXCEPT ![r] = @ \cup {Chain[q] : q \in reached[r]..upTo}]
             /\ IF found = {}
                THEN UNCHANGED <<cands, start>>
                ELSE /\ cands' = [cands EXCEPT ![r] = Candidates(Serves[Chain[next]], open)]
                     /\ start' = [start EXCEPT ![r] = n]

\* The candidate of attempt n once the plan has moved on.
Target(cs, from, n) ==
    LET offset == n - from IN cs[IF offset < Len(cs) THEN offset + 1 ELSE Len(cs)]

-----------------------------------------------------------------------------
(* Inference.ServeHTTP and Execute *)

\* candidatesRejection: nobody serves the model now.
CandidatesRejected(r) ==
    /\ Move(r, "done") /\ Write(r)
    /\ result' = [result EXCEPT ![r] = Answer("envelope", 0)]

\* Candidates of the model: none bound and enabled is a refusal.
Arrive(r, open) ==
    /\ phase[r] = "idle"
    /\ LET us == Candidates(Serves[Model], open)
       IN  /\ cands' = [cands EXCEPT ![r] = us]
           /\ IF us = << >>
              THEN CandidatesRejected(r)
              ELSE Move(r, "next") /\ UNCHANGED reply
    /\ UNCHANGED <<shared, gone, start, reached, tried, exchange, stash, loop>>

ClientLeaves(r) ==
    /\ Running(r) /\ ~gone[r]
    /\ gone' = [gone EXCEPT ![r] = TRUE]
    /\ UNCHANGED <<shared, phase, plan, exchange, stash, loop, reply>>

-----------------------------------------------------------------------------
(* finish *)

\* Mutant: any stashed failure is passed through, however old.
OldFailure(r) == failed[r] # 0

\* The loop error is the stashed one, by identity.
LastFailure(r) ==
    failed[r] = attempt[r] /\ error[r] \in {"status", "rotated"}

\* What the client gets, by precedence.  The gateway's own envelopes (circuit
\* open, saturated, budget exhausted, unreachable) are one kind.
Rendering(r, exhausted) ==
    CASE error[r] = "none" -> Answer("served", 0)
      [] error[r] = "committed" -> Answer("aborted", 0)
      [] OTHER ->
         IF gone[r] THEN Answer("nothing", 0)
         ELSE IF terminal[r] # 0 THEN Answer("upstream", attempt[r] - terminal[r])
         ELSE IF error[r] \in {"open", "saturated"} \/ exhausted THEN Answer("envelope", 0)
         ELSE IF LastFailure(r) THEN Answer("upstream", attempt[r] - failed[r])
         ELSE Answer("envelope", 0)

\* The run is over and its state is forgotten; a stream has its response, a
\* client that left gets none.
Finish(r, exhausted) ==
    LET answer == Rendering(r, exhausted)
    IN  /\ result' = [result EXCEPT ![r] = answer]
        /\ IF \/ answer.kind \in {"aborted", "nothing"}
              \/ answer.kind = "served" /\ r \in Streaming
           THEN UNCHANGED written
           ELSE Write(r)
        /\ Forget(r)

-----------------------------------------------------------------------------
(* retry.Execute, before an attempt *)

\* Requests in flight across the process, the source of the share.
Traffic == Cardinality({r \in Requests : Running(r)})

\* Budget.cap in share mode.
Cap == LET share == (Percent * Traffic) \div 100
       IN  IF share > MinInFlight THEN share ELSE MinInFlight

\* Mutant: the slot comes back only when the attempt returns.
ReturnedOnly(r) ==
    budget' = IF attempt[r] > 1 /\ phase[r] = "loop" THEN budget - 1 ELSE budget

\* Deferred: a panic gives the slot back too.
ReleaseBudget(r) == budget' = IF attempt[r] > 1 THEN budget - 1 ELSE budget

\* A retry that does not fit under the cap ends the request.
BudgetExhausted(r) ==
    /\ phase[r] = "next" /\ attempt[r] > 0 /\ budget >= Cap
    /\ Finish(r, TRUE)
    /\ UNCHANGED shared

\* The loop begins an attempt with a fresh error, the relay looks up its target.
BeginAttempt(r, open) ==
    /\ phase[r] = "next" /\ (attempt[r] > 0 => budget < Cap)
    /\ budget' = IF attempt[r] > 0 THEN budget + 1 ELSE budget
    /\ attempt' = [attempt EXCEPT ![r] = @ + 1]
    /\ Advance(r, attempt'[r], open)
    /\ cand' = [cand EXCEPT ![r] = Target(cands'[r], start'[r], attempt'[r])]
    /\ Fail(r, "none") /\ StripRetryAfter(r)
    /\ Move(r, "slot")
    /\ UNCHANGED <<slots, permits, dead, disabled, gone, cred, fired, verdict,
                   cause, stash, reply>>

-----------------------------------------------------------------------------
(* requestRun.attempt: bulkhead, breaker, exchange, report *)

\* The upstream is at its ceiling: the attempt ends without an exchange.
Saturated(r) ==
    /\ phase[r] = "slot" /\ slots[cand[r]] >= BulkheadMax
    /\ Fail(r, "saturated")
    /\ Move(r, "loop")
    /\ UNCHANGED <<shared, gone, plan, exchange, stash, attempt, hint, reply>>

TakeSlot(r) ==
    /\ phase[r] = "slot" /\ slots[cand[r]] < BulkheadMax
    /\ slots' = [slots EXCEPT ![cand[r]] = @ + 1]
    /\ Move(r, "breaker")
    /\ UNCHANGED <<budget, permits, dead, disabled, gone, plan, exchange, stash,
                   loop, reply>>

\* Allow says no; the deferred release returns the slot.
Denied(r) ==
    /\ phase[r] = "breaker"
    /\ slots' = [slots EXCEPT ![cand[r]] = @ - 1]
    /\ Fail(r, "open")
    /\ Move(r, "loop")
    /\ UNCHANGED <<budget, permits, dead, disabled, gone, plan, exchange, stash,
                   attempt, hint, reply>>

Granted(r) ==
    /\ phase[r] = "breaker"
    /\ permits' = permits \cup {r}
    /\ Move(r, "forward")
    /\ UNCHANGED <<slots, budget, dead, disabled, gone, plan, exchange, stash,
                   loop, reply>>

\* The credentials pick may hand out: alive and not burned by this request,
\* or any alive one when all of them are burned.
Pick(r) ==
    LET fresh == {c \in Alive(cand[r]) : <<cand[r], c>> \notin burned[r]}
    IN  IF fresh # {} THEN fresh ELSE Alive(cand[r])

\* Forward rides one credential.
Forward(r, c) ==
    /\ phase[r] = "forward" /\ c \in Pick(r)
    /\ cred' = [cred EXCEPT ![r] = c]
    /\ Move(r, "waiting")
    /\ UNCHANGED <<shared, gone, plan, cand, fired, verdict, cause, stash, loop,
                   reply>>

\* An exchange is over: what it reports and returns, and what ended it.  Its
\* credential and its timers end with it.
Conclude(r, out, e, why) ==
    /\ verdict' = [verdict EXCEPT ![r] = out]
    /\ Fail(r, e)
    /\ cause' = [cause EXCEPT ![r] = why]
    /\ cred' = [cred EXCEPT ![r] = Nobody] /\ fired' = [fired EXCEPT ![r] = {}]
    /\ Move(r, "report")

\* No credential is alive: a transport failure like any other.
NoCredential(r) ==
    /\ phase[r] = "forward" /\ Alive(cand[r]) = {}
    /\ Conclude(r, "server", "transport", "upstream")
    /\ UNCHANGED <<shared, gone, plan, cand, stash, attempt, hint, reply>>

-----------------------------------------------------------------------------
(* exchange: failures before a status *)

\* A buffered exchange breaks, runs into the attempt timeout, or dies with
\* the client: transportOutcome.
TransportFails(r, e) ==
    /\ phase[r] = "waiting" /\ r \notin Streaming
    /\ e = "canceled" => gone[r]
    /\ Conclude(r, IF e = "canceled" THEN "client" ELSE "server", e,
                IF e = "canceled" THEN "client" ELSE "upstream")
    /\ UNCHANGED <<shared, gone, plan, cand, stash, attempt, hint, reply>>

\* A timer of the stream lease expires and cancels the forward context.  The
\* first-byte timer stops when good headers are in, the idle watchdog runs
\* from the commit on, the ceiling runs throughout.
TimerFires(r, t) ==
    /\ t \notin fired[r]
    /\ \/ phase[r] \in {"waiting", "errorbody"} /\ t \in {"ttft", "ceiling"}
       \/ phase[r] = "pumping" /\ t \in {"idle", "ceiling"}
    /\ r \in Streaming
    /\ fired' = [fired EXCEPT ![r] = @ \cup {t}]
    /\ UNCHANGED <<shared, phase, gone, plan, cand, cred, verdict, cause, stash,
                   loop, reply>>

\* The streaming forward returns an error.  The flags are read after end, in
\* this order: first byte, ceiling, transport.
ForwardFails(r, why) ==
    /\ phase[r] = "waiting" /\ r \in Streaming
    /\ why \in {"ttft", "ceiling"} => why \in fired[r]
    /\ why = "client" => gone[r]
    /\ CASE "ttft" \in fired[r] -> Conclude(r, "server", "timeout", why)
         [] "ttft" \notin fired[r] /\ "ceiling" \in fired[r] ->
                Conclude(r, "gateway", "timeout", why)
         [] fired[r] = {} /\ why = "client" -> Conclude(r, "client", "canceled", why)
         [] OTHER -> Conclude(r, "server", "transport", why)
    /\ UNCHANGED <<shared, gone, plan, cand, stash, attempt, hint, reply>>

-----------------------------------------------------------------------------
(* stashUpstreamError *)

\* Kinds of completed error exchanges: rate limit, exhausted quota (also a
\* 429), rejected credential, server fault, client fault.
ErrorReplies == {"limited", "quota", "auth", "fault", "bad"}
Fatal(kind) == kind \in {"quota", "auth"}
RetryableStatus(kind) == kind \in {"limited", "quota", "fault"}

\* The fatal hook: the credential is retired, the last one takes the upstream
\* out of rotation.
FatalHook(r) ==
    /\ dead' = [dead EXCEPT ![cand[r]] = @ \cup {cred[r]}]
    /\ disabled' = IF Alive(cand[r]) \subseteq {cred[r]}
                   THEN disabled \cup {cand[r]} ELSE disabled

\* A usable Retry-After is a wait that the credential of this exchange asked
\* for; its length is left out.
ParseRetryAfter(r, waits) == IF waits THEN <<cand[r], cred[r]>> ELSE NoOne

\* A completed error exchange, perhaps with a Retry-After.
Stash(r, kind, waits) ==
    /\ IF Fatal(kind) THEN FatalHook(r) ELSE UNCHANGED <<dead, disabled>>
    /\ burned' = IF Fatal(kind) \/ kind = "limited"
                 THEN [burned EXCEPT ![r] = @ \cup {<<cand[r], cred[r]>>}]
                 ELSE burned
    /\ hint' = [hint EXCEPT ![r] = ParseRetryAfter(r, waits)]
    /\ IF \/ RetryableStatus(kind)
          \/ Fatal(kind) /\ Ring[cand[r]] \ dead'[cand[r]] # {}
       THEN /\ failed' = [failed EXCEPT ![r] = attempt[r]]
            /\ Conclude(r, "server", IF RetryableStatus(kind) THEN "status" ELSE "rotated",
                        "upstream")
            /\ UNCHANGED terminal
       ELSE /\ terminal' = [terminal EXCEPT ![r] = attempt[r]]
            /\ Conclude(r, "client", "terminal", "upstream")
            /\ UNCHANGED failed
    /\ UNCHANGED <<slots, budget, permits, gone, plan, cand, attempt, reply>>

\* Headers of an error reply; a stream reads the body under its lease.
ErrorReply(r, kind, waits) ==
    /\ phase[r] = (IF r \in Streaming THEN "errorbody" ELSE "waiting")
    /\ Stash(r, kind, waits)

ErrorHeaders(r) ==
    /\ phase[r] = "waiting" /\ r \in Streaming
    /\ Move(r, "errorbody")
    /\ UNCHANGED <<shared, gone, plan, exchange, stash, loop, reply>>

\* What can end a read under the forward context: the upstream, an expired
\* timer, the client.
ReadFails(r, why) ==
    \/ why = "upstream"
    \/ why \in fired[r]
    \/ why = "client" /\ gone[r]

\* The status is known, the body is lost.
BodyLost(r, why) ==
    /\ phase[r] = (IF r \in Streaming THEN "errorbody" ELSE "waiting")
    /\ ReadFails(r, why)
    /\ Conclude(r, "server", IF why = "upstream" THEN "transport" ELSE "canceled", why)
    /\ UNCHANGED <<shared, gone, plan, cand, stash, attempt, hint, reply>>

-----------------------------------------------------------------------------
(* Successful replies *)

\* exchangeBuffered: the whole body is here; the client has seen nothing yet.
Buffered(r) ==
    /\ phase[r] = "waiting" /\ r \notin Streaming
    /\ Conclude(r, "success", "none", "upstream")
    /\ UNCHANGED <<shared, gone, plan, cand, stash, attempt, hint, reply>>

\* Good headers arrive, but the first-byte timer was faster.
HeadersTooLate(r) ==
    /\ phase[r] = "waiting" /\ r \in Streaming /\ "ttft" \in fired[r]
    /\ Conclude(r, "server", "timeout", "ttft")
    /\ UNCHANGED <<shared, gone, plan, cand, stash, attempt, hint, reply>>

\* exchangeStream: from here on bytes have reached the client.
Commit(r) ==
    /\ phase[r] = "waiting" /\ r \in Streaming /\ "ttft" \notin fired[r]
    /\ Write(r)
    /\ Move(r, "pumping")
    /\ UNCHANGED <<shared, gone, plan, exchange, stash, loop, result>>

PumpEnds(r) ==
    /\ phase[r] = "pumping"
    /\ Conclude(r, "success", "none", "upstream")
    /\ UNCHANGED <<shared, gone, plan, cand, stash, attempt, hint, reply>>

\* Mutant: the idle watchdog is forgotten.
CeilingOnly(r) == "ceiling" \in fired[r]

\* The gateway's own ceiling or watchdog cut the stream.
GatewayCut(r) == fired[r] \cap {"ceiling", "idle"} # {}

\* The pump dies: the upstream broke off or was truncated, a timer cancelled
\* the context, or the client went away.  One abort frame, no retry.
PumpBreaks(r, why) ==
    /\ phase[r] = "pumping"
    /\ ReadFails(r, why)
    /\ Conclude(r, CASE gone[r] -> "client"
                     [] ~gone[r] /\ GatewayCut(r) -> "gateway"
                     [] OTHER -> "server", "committed", why)
    /\ UNCHANGED <<shared, gone, plan, cand, stash, attempt, hint, reply>>

-----------------------------------------------------------------------------
(* After the exchange *)

\* Mutant: the hint travels to another upstream.
StaysAnywhere(r, cs, from) ==
    ~ \E c \in Ring[cand[r]] : <<cand[r], c>> \in burned[r]

\* credentialRotates compares the living with the burned.
Rotates(r) ==
    LET mine == {c \in Ring[cand[r]] : <<cand[r], c>> \in burned[r]}
    IN  mine # {} /\ Cardinality(Alive(cand[r])) > Cardinality(mine)

\* Whether a Retry-After hint survives the lookahead to the next attempt.
Stays(r, cs, from) ==
    Target(cs, from, attempt[r] + 1) = cand[r] /\ ~Rotates(r)

\* Mutant: a committed failure returns before the report.
ReportUncommitted(r, open) ==
    /\ phase[r] = "report"
    /\ permits' = IF error[r] = "committed" THEN permits ELSE permits \ {r}
    /\ slots' = [slots EXCEPT ![cand[r]] = @ - 1]
    /\ Move(r, "loop")
    /\ UNCHANGED <<budget, dead, disabled, gone, plan, exchange, stash, loop,
                   reply>>

\* The permission hears the outcome; then the lookahead to the next target,
\* which only a failure that may still be retried takes.
Report(r, open) ==
    /\ phase[r] = "report"
    /\ permits' = permits \ {r}
    /\ IF error[r] \in {"none", "committed"} \/ attempt[r] >= MaxAttempts
       THEN UNCHANGED <<plan, hint>>
       ELSE /\ Advance(r, attempt[r] + 1, open)
            /\ IF Stays(r, cands'[r], start'[r]) THEN UNCHANGED hint
               ELSE StripRetryAfter(r)
    /\ slots' = [slots EXCEPT ![cand[r]] = @ - 1]
    /\ verdict' = [verdict EXCEPT ![r] = "none"] /\ cause' = [cause EXCEPT ![r] = "none"]
    /\ Move(r, "loop")
    /\ UNCHANGED <<budget, dead, disabled, gone, cand, cred, fired, stash, attempt,
                   error, reply>>

\* Mutant: committed bytes are no reason to stop.
RetriesCommitted(e) ==
    e \in {"saturated", "open", "timeout", "transport", "status", "rotated", "committed"}

\* runClassifier over DefaultClassifier.
Retryable(e) == e \in {"saturated", "open", "timeout", "transport", "status", "rotated"}

\* retry.Execute after an attempt, in this order: success and committed bytes
\* end it, then a cancelled client or the overall deadline (which may pass at
\* any time), then the attempt cap and the classifier.
LoopEnds(r) ==
    /\ phase[r] = "loop"
    /\ ReleaseBudget(r)
    /\ Finish(r, FALSE)
    /\ UNCHANGED <<slots, permits, dead, disabled>>

\* ... or it sleeps before the next attempt, on the hint or its own backoff.
Backoff(r) ==
    /\ phase[r] = "loop" /\ ~gone[r]
    /\ Retryable(error[r]) /\ attempt[r] < MaxAttempts
    /\ ReleaseBudget(r)
    /\ Move(r, "next")
    /\ UNCHANGED <<slots, permits, dead, disabled, gone, plan, exchange, stash,
                   loop, reply>>

\* The overall context ends the sleep.
SleepEnds(r) ==
    /\ phase[r] = "next" /\ attempt[r] > 0
    /\ Finish(r, FALSE)
    /\ UNCHANGED shared

\* A panic in the exchange: the deferred releases run, the permission stays
\* unreported, the recovery stage answers unless headers are out.
Panic(r) ==
    /\ phase[r] \in {"waiting", "errorbody", "pumping"}
    /\ slots' = [slots EXCEPT ![cand[r]] = @ - 1]
    /\ ReleaseBudget(r)
    /\ IF written[r] > 0 THEN UNCHANGED written ELSE Write(r)
    /\ result' = [result EXCEPT ![r] = Answer("panic", 0)]
    /\ Forget(r)
    /\ UNCHANGED <<permits, dead, disabled>>

\* An operator or the recovery loop returns an upstream to rotation.
Enable(u) ==
    /\ u \in disabled \/ dead[u] # {}
    /\ disabled' = disabled \ {u}
    /\ dead' = [dead EXCEPT ![u] = {}]
    /\ UNCHANGED <<slots, budget, permits, phase, gone, plan, exchange, stash, loop, reply>>

-----------------------------------------------------------------------------

Causes == {"upstream", "client", "ttft", "ceiling", "idle"}

Exchange(r) ==
    \/ \E c \in UNION {Ring[u] : u \in Upstreams} : Forward(r, c)
    \/ NoCredential(r)
    \/ \E e \in {"transport", "timeout", "canceled"} : TransportFails(r, e)
    \/ \E t \in {"ttft", "ceiling", "idle"} : TimerFires(r, t)
    \/ \E why \in Causes \ {"idle"} : ForwardFails(r, why)
    \/ \E kind \in ErrorReplies, waits \in BOOLEAN : ErrorReply(r, kind, waits)
    \/ ErrorHeaders(r)
    \/ \E why \in Causes \ {"idle"} : BodyLost(r, why)
    \/ Buffered(r) \/ HeadersTooLate(r) \/ Commit(r) \/ PumpEnds(r)
    \/ \E why \in Causes \ {"ttft"} : PumpBreaks(r, why)
    \/ Panic(r)

Request(r) ==
    \/ \E open \in SUBSET Upstreams :
        Arrive(r, open) \/ BeginAttempt(r, open) \/ Report(r, open)
    \/ ClientLeaves(r) \/ BudgetExhausted(r)
    \/ Saturated(r) \/ TakeSlot(r) \/ Denied(r) \/ Granted(r)
    \/ Exchange(r)
    \/ LoopEnds(r) \/ Backoff(r) \/ SleepEnds(r)

Next ==
    \/ \E r \in Requests : Request(r)
    \/ \E u \in Upstreams : Enable(u)
    \/ (\A r \in Requests : phase[r] = "done") /\ UNCHANGED vars

Spec == Init /\ [][Next]_vars

-----------------------------------------------------------------------------
(* Properties *)

Phases == {"idle", "next", "slot", "breaker", "forward", "waiting", "errorbody",
           "pumping", "report", "loop", "done"}
Slotted(r) == phase[r] \in {"breaker", "forward", "waiting", "errorbody", "pumping", "report"}
Attempting(r) == Slotted(r) \/ phase[r] \in {"slot", "loop"}

\* Every variable keeps its type.
TypeOK ==
    /\ slots \in [Upstreams -> 0..Cardinality(Requests)]
    /\ budget \in 0..Cardinality(Requests)
    /\ permits \subseteq Requests
    /\ phase \in [Requests -> Phases]
    /\ attempt \in [Requests -> 0..MaxAttempts]

\* Every slot comes back, whatever ends the attempt: each bulkhead counter is
\* the number of exchanges in flight on the upstream and within its ceiling,
\* the budget counter is the number of retries in flight (executor.go:441,
\* loop.go:80).  Every variable keeps its type.
ResourcesExact ==
    /\ TypeOK
    /\ \A u \in Upstreams :
        /\ slots[u] = Cardinality({r \in Requests : Slotted(r) /\ cand[r] = u})
        /\ slots[u] <= BulkheadMax
    /\ budget = Cardinality({r \in Requests : Attempting(r) /\ attempt[r] > 1})

\* A permission is reported before its attempt returns; only a panic can
\* strand one, and a capacity refusal never does (executor.go:432).
PermitsReported ==
    \A r \in permits : Slotted(r) \/ result[r].kind = "panic"

\* Exactly one response reaches a client that stays: none is begun after the
\* first byte of a stream, none is missing at the end (executor.go:376).
OneResponse ==
    \A r \in Requests :
        /\ written[r] <= 1
        /\ phase[r] = "done" => (written[r] = 1 \/ result[r].kind = "nothing")

\* An upstream error passed through to the client is the answer of the last
\* attempt, never one that a later attempt superseded (executor.go:586).
PassthroughIsFresh ==
    \A r \in Requests : result[r].kind = "upstream" => result[r].age = 0

\* A stream that the gateway's own ceiling or watchdog cut after good headers
\* is never charged to the upstream (exchange.go:199).
CutsAreNeutral ==
    \A r \in Requests :
        phase[r] = "report" /\ error[r] = "committed" /\ cause[r] \in {"ceiling", "idle"}
            => verdict[r] \in {"gateway", "client"}

\* A wait that one upstream asked for never delays a request that goes on to
\* another upstream (executor.go:484).
HintStaysWithUpstream ==
    [][\A r \in Requests :
        phase[r] = "next" /\ phase'[r] = "slot" /\ hint[r] # NoOne
            => cand'[r] = hint[r][1]]_vars
=============================================================================
