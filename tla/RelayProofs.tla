---------------------------- MODULE RelayProofs ----------------------------
(***************************************************************************)
(* Proofs about the relay engine (Relay), for every number of requests,    *)
(* every set of upstreams, every chain and every limit.                    *)
(*                                                                         *)
(* A step belongs to one request.  The frame (every variable of another    *)
(* request is left alone) is proved once; what is left of an invariant is  *)
(* then a statement about the request that moves, and for the counters a   *)
(* set that gains or loses this one request.                               *)
(***************************************************************************)
EXTENDS Relay, FiniteSetTheorems, WellFoundedInduction, TLAPS

-----------------------------------------------------------------------------
(* The frame *)

\* Every variable of a request is a function on the requests.
Shape ==
    /\ phase \in [Requests -> Phases]
    /\ attempt \in [Requests -> 0..MaxAttempts]
    /\ start \in [Requests -> Nat] /\ reached \in [Requests -> Nat \ {0}]
    /\ written \in [Requests -> Nat]
    /\ permits \subseteq Requests
    /\ DOMAIN gone = Requests /\ DOMAIN cands = Requests /\ DOMAIN tried = Requests
    /\ DOMAIN cand = Requests /\ DOMAIN cred = Requests /\ DOMAIN fired = Requests
    /\ DOMAIN burned = Requests /\ DOMAIN verdict = Requests /\ DOMAIN error = Requests
    /\ DOMAIN hint = Requests /\ DOMAIN cause = Requests /\ DOMAIN result = Requests
    /\ DOMAIN terminal = Requests /\ DOMAIN failed = Requests

\* The attempts are counted within the cap.
Counted(r) ==
    /\ phase[r] = "idle" => attempt[r] = 0
    /\ phase[r] = "next" => attempt[r] < MaxAttempts
    /\ phase[r] = "next" /\ attempt[r] > 0 => Retryable(error[r])

\* A permission is held from Granted to the report; past that only a panic
\* leaves one behind.
Reported(r) ==
    r \in permits =>
        \/ phase[r] \in {"forward", "waiting", "errorbody", "pumping", "report"}
        \/ phase[r] = "done" /\ result[r].kind = "panic"

\* Whether the response of a run under way has begun: from the commit of a
\* stream on, and it has to be known at the end.
Begun(r) ==
    \/ phase[r] = "pumping"
    \/ /\ phase[r] \in {"report", "loop"}
       /\ error[r] = "committed" \/ (error[r] = "none" /\ r \in Streaming)

\* How many responses have begun.
Answered(r) ==
    /\ phase[r] = "pumping" => r \in Streaming
    /\ phase[r] # "done" => written[r] = IF Begun(r) THEN 1 ELSE 0
    /\ phase[r] = "done" =>
         written[r] = 1 \/ (written[r] = 0 /\ result[r].kind = "nothing")

\* A terminal reply ends the loop, so it is the last attempt's.
LastReply(r) ==
    /\ terminal[r] # 0 =>
         terminal[r] = attempt[r] /\ phase[r] \in {"report", "loop"} /\ error[r] = "terminal"
    /\ result[r].kind = "upstream" => result[r].age = 0

\* A cut of the gateway's own is not the upstream's.
Neutral(r) ==
    phase[r] = "report" /\ error[r] = "committed" /\ cause[r] \in {"ceiling", "idle"}
        => verdict[r] \in {"gateway", "client"}

\* The lookahead saw the target of the next attempt and nothing can move it:
\* the batch holds it, or the chain is drained.
Foreseen(r) ==
    /\ Target(cands[r], start[r], attempt[r] + 1) = hint[r][1]
    /\ Exhausted(r, attempt[r] + 1) => reached[r] > Len(Chain)

\* A hint belongs to the candidate of the attempt, and outlives the lookahead
\* only if that candidate is tried again.
Hinted(r) ==
    hint[r] # NoOne =>
        /\ phase[r] \in {"report", "loop", "next"}
        /\ hint[r][1] = cand[r]
        /\ \/ phase[r] = "loop" /\ Retryable(error[r]) /\ attempt[r] < MaxAttempts
           \/ phase[r] = "next"
           => Foreseen(r)

\* What is known of one request.
Local(r) ==
    Counted(r) /\ Reported(r) /\ Answered(r) /\ LastReply(r) /\ Neutral(r) /\ Hinted(r)

\* What the invariants say of a request is as it was.
Kept(q) ==
    /\ phase'[q] = phase[q] /\ attempt'[q] = attempt[q] /\ cands'[q] = cands[q]
    /\ start'[q] = start[q] /\ reached'[q] = reached[q] /\ cand'[q] = cand[q]
    /\ verdict'[q] = verdict[q] /\ error'[q] = error[q] /\ hint'[q] = hint[q]
    /\ terminal'[q] = terminal[q] /\ cause'[q] = cause[q]
    /\ written'[q] = written[q] /\ result'[q] = result[q]
    /\ q \in permits' <=> q \in permits

\* A step of r leaves the others alone.
Frame(r) == \A q \in Requests \ {r} : Kept(q)

\* Some candidate position of the chain is the first one.
LEMMA FirstPosition ==
    ASSUME NEW S, S \subseteq Nat, S # {}
    PROVE  LET p == CHOOSE p \in S : \A q \in S : p <= q IN p \in S
<1>1. PICK x \in S : \A y \in S : ~(<<y, x>> \in OpToRel(<, Nat))
  BY WFMin, NatLessThanWellFounded, Zenon
<1>2. \A y \in S : ~(y < x)
  BY <1>1, Zenon DEF OpToRel
<1>3. \A y \in S : x <= y
  BY <1>2
<1> QED BY <1>3

\* Moving the plan on: where the chain is read next, and when the batch that
\* is left would not do for the attempt it was looked up for.
LEMMA AdvanceKeeps ==
    ASSUME Shape, NEW r \in Requests, NEW n \in Nat, NEW open, Advance(r, n, open)
    PROVE  /\ start' \in [Requests -> Nat] /\ reached' \in [Requests -> Nat \ {0}]
           /\ DOMAIN cands' = Requests /\ DOMAIN tried' = Requests
           /\ \A q \in Requests \ {r} :
                cands'[q] = cands[q] /\ start'[q] = start[q] /\ reached'[q] = reached[q]
           /\ Exhausted(r, n)' => reached'[r] > Len(Chain)
<1>0. Len(Chain) \in Nat
  BY RelayAssumption DEF RelayAssumption
<1>1. CASE ~Exhausted(r, n)
  BY <1>1 DEF Advance, plan, Shape, Exhausted
<1>2. CASE Exhausted(r, n)
  <2> DEFINE found == Eligible(r, open)
             next == CHOOSE p \in found : \A q \in found : p <= q
             upTo == IF found = {} THEN Len(Chain) ELSE next
  <2>1. /\ reached' = [reached EXCEPT ![r] = upTo + 1]
        /\ tried' = [tried EXCEPT ![r] = @ \cup {Chain[q] : q \in reached[r]..upTo}]
        /\ IF found = {}
           THEN UNCHANGED <<cands, start>>
           ELSE /\ cands' = [cands EXCEPT ![r] = Candidates(Serves[Chain[next]], open)]
                /\ start' = [start EXCEPT ![r] = n]
    BY <1>2 DEF Advance
  <2>2. found \subseteq Nat
    BY <1>0 DEF Eligible, Shape
  <2>3. CASE found = {}
    BY <2>1, <2>3, <1>0 DEF Shape
  <2>4. CASE found # {}
    <3>1. next \in found
      BY <2>2, <2>4, FirstPosition
    <3>2. next \in Nat /\ 0 < Len(Candidates(Serves[Chain[next]], open))
      BY <2>2, <3>1 DEF Eligible
    <3> HIDE DEF next, found
    <3>3. reached' = [reached EXCEPT ![r] = next + 1]
      BY <2>1, <2>4
    <3>4. /\ cands'[r] = Candidates(Serves[Chain[next]], open)
          /\ start'[r] = n
      BY <2>1, <2>4 DEF Shape
    <3>5. ~Exhausted(r, n)'
      BY <3>2, <3>4 DEF Exhausted
    <3>6. /\ start' \in [Requests -> Nat]
          /\ DOMAIN cands' = Requests /\ DOMAIN tried' = Requests
          /\ \A q \in Requests \ {r} : cands'[q] = cands[q] /\ start'[q] = start[q]
      BY <2>1, <2>4 DEF Shape
    <3>7. /\ reached' \in [Requests -> Nat \ {0}]
          /\ \A q \in Requests \ {r} : reached'[q] = reached[q]
      BY <3>2, <3>3 DEF Shape
    <3> QED BY <3>5, <3>6, <3>7
  <2> QED BY <2>3, <2>4
<1> QED BY <1>1, <1>2

\* The steps that end the run leave the other requests alone.
LEMMA ForgetFrame ==
    ASSUME Shape, NEW r \in Requests, Forget(r),
           written' = written \/ Write(r), UNCHANGED permits,
           NEW a, result' = [result EXCEPT ![r] = a]
    PROVE  Shape' /\ Frame(r)
<1> USE DEF Shape, Forget, Move, Write
<1>1. Shape'
  <2>1. attempt' \in [Requests -> 0..MaxAttempts]
    BY RelayAssumption DEF RelayAssumption
  <2>2. /\ phase' \in [Requests -> Phases]
        /\ start' \in [Requests -> Nat] /\ reached' \in [Requests -> Nat \ {0}]
    BY DEF Phases
  <2>3. written' \in [Requests -> Nat]
    OBVIOUS
  <2> QED BY <2>1, <2>2, <2>3
<1>2. Frame(r)
  BY DEF Frame, Kept
<1> QED BY <1>1, <1>2

\* finish ends the run.
LEMMA FinishFrame ==
    ASSUME Shape, NEW r \in Requests, NEW exhausted, Finish(r, exhausted), UNCHANGED permits
    PROVE  Shape' /\ Frame(r)
<1>1. Forget(r) /\ (written' = written \/ Write(r))
  BY DEF Finish
<1>2. result' = [result EXCEPT ![r] = Rendering(r, exhausted)]
  BY DEF Finish
<1> QED BY <1>1, <1>2, ForgetFrame

\* So do the steps that end an exchange.
LEMMA ConcludeFrame ==
    ASSUME Shape, NEW r \in Requests, NEW out, NEW e, NEW why, Conclude(r, out, e, why),
           UNCHANGED <<permits, gone, plan, cand, attempt, reply>>,
           DOMAIN burned' = Requests,
           \/ UNCHANGED hint
           \/ \E h : hint' = [hint EXCEPT ![r] = h],
           \/ UNCHANGED terminal
           \/ terminal' = [terminal EXCEPT ![r] = attempt[r]],
           DOMAIN failed' = Requests
    PROVE  Shape' /\ Frame(r)
<1> USE DEF Shape, Conclude, Move, Fail, plan, reply
<1>1. Shape'
  BY DEF Phases
<1>2. Frame(r)
  BY DEF Frame, Kept
<1> QED BY <1>1, <1>2

\* Before the exchange: the steps that move the plan, the bulkhead and the
\* breaker.
LEMMA PlanFrame ==
    ASSUME Shape, NEW r \in Requests, Counted(r), NEW open,
           Arrive(r, open) \/ BeginAttempt(r, open) \/ Report(r, open)
    PROVE  Shape' /\ Frame(r)
<1>0. attempt[r] \in Nat /\ attempt[r] + 1 \in Nat
  BY DEF Shape
<1>1. CASE Arrive(r, open)
  <2> USE <1>1 DEF Arrive, CandidatesRejected, Move, Write, shared, exchange, stash,
                   loop, reply
  <2>1. Shape'
    <3>1. phase' \in [Requests -> Phases]
      BY DEF Shape, Phases
    <3>2. written' \in [Requests -> Nat] /\ DOMAIN result' = Requests
      BY DEF Shape
    <3> QED BY <3>1, <3>2 DEF Shape
  <2>2. Frame(r)
    BY DEF Shape, Frame, Kept
  <2> QED BY <2>1, <2>2
<1>2. CASE BeginAttempt(r, open)
  <2> USE <1>2 DEF BeginAttempt, Fail, StripRetryAfter, Move, stash, reply
  <2>1. attempt' = [attempt EXCEPT ![r] = @ + 1] /\ attempt[r] < MaxAttempts
    BY DEF Counted
  <2>2. attempt' \in [Requests -> 0..MaxAttempts] /\ attempt'[r] = attempt[r] + 1
    BY <2>1, RelayAssumption DEF RelayAssumption, Shape
  <2>3. Advance(r, attempt[r] + 1, open)
    BY <2>2
  <2>4. /\ start' \in [Requests -> Nat] /\ reached' \in [Requests -> Nat \ {0}]
        /\ DOMAIN cands' = Requests /\ DOMAIN tried' = Requests
        /\ \A q \in Requests \ {r} :
             cands'[q] = cands[q] /\ start'[q] = start[q] /\ reached'[q] = reached[q]
    BY <1>0, <2>3, AdvanceKeeps
  <2>5. Shape'
    BY <2>2, <2>4 DEF Shape, Phases
  <2>6. Frame(r)
    BY <2>4 DEF Shape, Frame, Kept
  <2> QED BY <2>5, <2>6
<1>3. CASE Report(r, open)
  <2> USE <1>3 DEF Report, StripRetryAfter, Move, stash, reply
  <2>1. /\ start' \in [Requests -> Nat] /\ reached' \in [Requests -> Nat \ {0}]
        /\ DOMAIN cands' = Requests /\ DOMAIN tried' = Requests
        /\ \A q \in Requests \ {r} :
             cands'[q] = cands[q] /\ start'[q] = start[q] /\ reached'[q] = reached[q]
    <3>1. CASE UNCHANGED plan
      BY <3>1 DEF plan, Shape
    <3>2. CASE Advance(r, attempt[r] + 1, open)
      BY <1>0, <3>2, AdvanceKeeps
    <3> QED BY <3>1, <3>2
  <2>2. DOMAIN hint' = Requests /\ \A q \in Requests \ {r} : hint'[q] = hint[q]
    BY DEF Shape
  <2>3. Shape'
    BY <2>1, <2>2 DEF Shape, Phases
  <2>4. Frame(r)
    BY <2>1, <2>2 DEF Shape, Frame, Kept
  <2> QED BY <2>3, <2>4
<1> QED BY <1>1, <1>2, <1>3

\* The steps of the attempt loop around the exchange.
LEMMA LoopFrame ==
    ASSUME Shape, NEW r \in Requests,
           \/ ClientLeaves(r) \/ BudgetExhausted(r)
           \/ Saturated(r) \/ TakeSlot(r) \/ Denied(r) \/ Granted(r)
           \/ LoopEnds(r) \/ Backoff(r) \/ SleepEnds(r)
    PROVE  Shape' /\ Frame(r)
<1> USE DEF shared, plan, exchange, stash, loop, reply
<1>1. CASE ClientLeaves(r)
  BY <1>1 DEF ClientLeaves, Shape, Frame, Kept
<1>2. CASE BudgetExhausted(r) \/ SleepEnds(r)
  BY <1>2, FinishFrame DEF BudgetExhausted, SleepEnds
<1>3. CASE LoopEnds(r)
  BY <1>3, FinishFrame DEF LoopEnds
<1>4. CASE Saturated(r) \/ TakeSlot(r)
  BY <1>4 DEF Saturated, TakeSlot, Fail, Move, Shape, Phases, Frame, Kept
<1>5. CASE Denied(r) \/ Granted(r)
  BY <1>5 DEF Denied, Granted, Fail, Move, Shape, Phases, Frame, Kept
<1>6. CASE Backoff(r)
  BY <1>6 DEF Backoff, Move, Shape, Phases, Frame, Kept
<1> QED BY <1>1, <1>2, <1>3, <1>4, <1>5, <1>6

\* The steps of the exchange.
LEMMA ExchangeFrame ==
    ASSUME Shape, NEW r \in Requests, Exchange(r)
    PROVE  Shape' /\ Frame(r)
<1> USE DEF shared, stash, loop, reply
<1>1. ASSUME NEW c, Forward(r, c) PROVE Shape' /\ Frame(r)
  BY <1>1 DEF Forward, plan, Move, Shape, Phases, Frame, Kept
<1>2. CASE NoCredential(r)
  BY <1>2, ConcludeFrame DEF NoCredential, Shape
<1>3. ASSUME NEW e, TransportFails(r, e) PROVE Shape' /\ Frame(r)
  BY <1>3, ConcludeFrame DEF TransportFails, Shape
<1>4. ASSUME NEW t, TimerFires(r, t) PROVE Shape' /\ Frame(r)
  BY <1>4 DEF TimerFires, plan, Shape, Frame, Kept
<1>5. ASSUME NEW why, ForwardFails(r, why) PROVE Shape' /\ Frame(r)
  BY <1>5, ConcludeFrame DEF ForwardFails, Shape
<1>6. ASSUME NEW kind, NEW waits, ErrorReply(r, kind, waits) PROVE Shape' /\ Frame(r)
  <2>1. /\ DOMAIN burned' = Requests /\ DOMAIN failed' = Requests
        /\ terminal' = terminal \/ terminal' = [terminal EXCEPT ![r] = attempt[r]]
        /\ UNCHANGED <<permits, gone, plan, cand, attempt, reply>>
    BY <1>6 DEF ErrorReply, Stash, Shape
  <2>2. \E h : hint' = [hint EXCEPT ![r] = h]
    BY <1>6 DEF ErrorReply, Stash
  <2>3. \E out, e, why : Conclude(r, out, e, why)
    BY <1>6 DEF ErrorReply, Stash
  <2> QED BY <2>1, <2>2, <2>3, ConcludeFrame
<1>7. CASE ErrorHeaders(r)
  BY <1>7 DEF ErrorHeaders, plan, exchange, Move, Shape, Phases, Frame, Kept
<1>8. ASSUME NEW why, BodyLost(r, why) PROVE Shape' /\ Frame(r)
  BY <1>8, ConcludeFrame DEF BodyLost, Shape
<1>9. CASE Buffered(r) \/ HeadersTooLate(r) \/ PumpEnds(r)
  BY <1>9, ConcludeFrame DEF Buffered, HeadersTooLate, PumpEnds, Shape
<1>10. CASE Commit(r)
  BY <1>10 DEF Commit, plan, exchange, Write, Move, Shape, Phases, Frame, Kept
<1>11. ASSUME NEW why, PumpBreaks(r, why) PROVE Shape' /\ Frame(r)
  BY <1>11, ConcludeFrame DEF PumpBreaks, Shape
<1>12. CASE Panic(r)
  BY <1>12, ForgetFrame DEF Panic
<1> QED BY <1>1, <1>2, <1>3, <1>4, <1>5, <1>6, <1>7, <1>8, <1>9, <1>10, <1>11, <1>12
       DEF Exchange

-----------------------------------------------------------------------------
(* The request that moves *)

\* The end of a run: the precedence of finish answers once, or not at all a
\* client that left, and passes through only the last attempt's reply.
LEMMA FinishLocal ==
    ASSUME Shape, NEW r \in Requests, Local(r), NEW exhausted, Finish(r, exhausted),
           UNCHANGED permits,
           phase[r] = "loop" \/ (phase[r] = "next" /\ attempt[r] > 0)
    PROVE  Local(r)'
<1> DEFINE answer == Rendering(r, exhausted)
<1>1. /\ phase'[r] = "done" /\ hint'[r] = NoOne /\ terminal'[r] = 0
      /\ result'[r] = answer
  BY DEF Finish, Forget, Move, Shape
<1>2. r \notin permits
  BY DEF Local, Reported, Phases
<1>3. answer.kind = "upstream" => answer.age = 0
  BY DEF Rendering, Answer, LastFailure, Local, LastReply, Shape
<1>4. /\ answer.kind = "aborted" <=> error[r] = "committed"
      /\ answer.kind = "served" <=> error[r] = "none"
  BY DEF Rendering, Answer
<1>5. written'[r] = IF \/ answer.kind \in {"aborted", "nothing"}
                       \/ answer.kind = "served" /\ r \in Streaming
                    THEN written[r] ELSE written[r] + 1
  BY DEF Finish, Write, Shape
<1>6. written'[r] = 1 \/ (written'[r] = 0 /\ answer.kind = "nothing")
  <2>1. phase[r] = "next" => error[r] \notin {"none", "committed"}
    BY DEF Local, Counted, Retryable
  <2>2. written[r] = IF Begun(r) THEN 1 ELSE 0
    BY DEF Local, Answered
  <2> QED BY <1>4, <1>5, <2>1, <2>2 DEF Begun
<1> HIDE DEF answer
<1> QED BY <1>1, <1>2, <1>3, <1>6
       DEF Local, Counted, Reported, Answered, LastReply, Neutral, Hinted

\* The end of an exchange before any byte reached the client.
LEMMA ConcludeLocal ==
    ASSUME Shape, NEW r \in Requests, Local(r), NEW out, NEW e, NEW why,
           Conclude(r, out, e, why),
           UNCHANGED <<permits, attempt, terminal, hint, written, result>>,
           phase[r] \in {"forward", "waiting", "errorbody"},
           e # "committed", r \in Streaming => e # "none"
    PROVE  Local(r)'
<1>1. phase'[r] = "report" /\ error'[r] = e
  BY DEF Conclude, Move, Fail, Shape
<1>2. written[r] = 0 /\ terminal[r] = 0 /\ hint[r] = NoOne
  BY DEF Local, Answered, Begun, LastReply, Hinted
<1> QED BY <1>1, <1>2
       DEF Local, Counted, Reported, Answered, Begun, LastReply, Neutral, Hinted

\* A completed error exchange: the hint is the candidate's, a terminal reply
\* is this attempt's.
LEMMA StashLocal ==
    ASSUME Shape, NEW r \in Requests, Local(r), NEW kind, NEW waits, ErrorReply(r, kind, waits)
    PROVE  Local(r)'
<1>1. /\ phase[r] \in {"waiting", "errorbody"}
      /\ Stash(r, kind, waits)
  BY DEF ErrorReply
<1>2. written[r] = 0 /\ terminal[r] = 0
  BY <1>1 DEF Local, Answered, Begun, LastReply
<1>3. /\ UNCHANGED <<permits, cand, attempt, written, result>>
      /\ hint'[r] = ParseRetryAfter(r, waits)
  BY <1>1 DEF Stash, Shape, reply
<1>4. /\ phase'[r] = "report"
      /\ \/ error'[r] \in {"status", "rotated"} /\ terminal'[r] = 0
         \/ error'[r] = "terminal" /\ terminal'[r] = attempt[r]
  BY <1>1, <1>2 DEF Stash, Conclude, Move, Fail, Shape
<1>5. hint'[r] # NoOne => hint'[r][1] = cand'[r]
  BY <1>3 DEF ParseRetryAfter, NoOne
<1> QED BY <1>1, <1>2, <1>3, <1>4, <1>5
       DEF Local, Counted, Reported, Answered, Begun, LastReply, Neutral, Hinted

\* The rest of the exchange.
LEMMA ExchangeLocal ==
    ASSUME Shape, NEW r \in Requests, Local(r), Exchange(r)
    PROVE  Local(r)'
<1> USE DEF shared, stash, loop, reply
<1>1. ASSUME NEW c, Forward(r, c) PROVE Local(r)'
  BY <1>1 DEF Forward, Move, Shape, Local, Counted, Reported, Answered, Begun, LastReply,
              Neutral, Hinted
<1>2. CASE NoCredential(r)
  BY <1>2, ConcludeLocal DEF NoCredential
<1>3. ASSUME NEW e \in {"transport", "timeout", "canceled"}, TransportFails(r, e)
      PROVE  Local(r)'
  BY <1>3, ConcludeLocal DEF TransportFails
<1>4. ASSUME NEW t, TimerFires(r, t) PROVE Local(r)'
  BY <1>4 DEF TimerFires, plan, Local, Counted, Reported, Answered, Begun, LastReply,
              Neutral, Hinted, Foreseen, Exhausted
<1>5. ASSUME NEW why, ForwardFails(r, why) PROVE Local(r)'
  BY <1>5, ConcludeLocal DEF ForwardFails
<1>6. CASE ErrorHeaders(r)
  BY <1>6 DEF ErrorHeaders, Move, Shape, Local, Counted, Reported, Answered, Begun,
              LastReply, Neutral, Hinted, exchange
<1>7. ASSUME NEW why, BodyLost(r, why) PROVE Local(r)'
  BY <1>7, ConcludeLocal DEF BodyLost
<1>8. CASE Buffered(r) \/ HeadersTooLate(r)
  BY <1>8, ConcludeLocal DEF Buffered, HeadersTooLate
<1>9. CASE Commit(r)
  BY <1>9 DEF Commit, Write, Move, Shape, Local, Counted, Reported, Answered, Begun,
              LastReply, Neutral, Hinted, exchange
<1>10. CASE PumpEnds(r)
  BY <1>10 DEF PumpEnds, Conclude, Fail, Move, Shape, Local, Counted, Reported, Answered,
               Begun, LastReply, Neutral, Hinted
<1>11. ASSUME NEW why \in Causes, PumpBreaks(r, why) PROVE Local(r)'
  <2>1. why \in {"ceiling", "idle"} => GatewayCut(r)
    BY <1>11 DEF PumpBreaks, ReadFails, GatewayCut
  <2>2. /\ phase[r] = "pumping" /\ phase'[r] = "report" /\ error'[r] = "committed"
        /\ cause'[r] = why
        /\ GatewayCut(r) => verdict'[r] \in {"gateway", "client"}
        /\ UNCHANGED <<permits, attempt, terminal, hint, written, result>>
    BY <1>11 DEF PumpBreaks, Conclude, Fail, Move, Shape
  <2> QED BY <2>1, <2>2 DEF Local, Counted, Reported, Answered, Begun, LastReply, Neutral,
                            Hinted
<1>12. CASE Panic(r)
  BY <1>12 DEF Panic, Forget, Write, Answer, Move, Shape, Local, Counted, Reported,
               Answered, Begun, LastReply, Neutral, Hinted
<1> QED BY <1>1, <1>2, <1>3, <1>4, <1>5, <1>6, <1>7, <1>8, <1>9, <1>10, <1>11, <1>12,
           StashLocal DEF Exchange

\* The plan: the lookahead of the report fixes the target that the next
\* attempt begins with.
LEMMA PlanLocal ==
    ASSUME Shape, NEW r \in Requests, Local(r), NEW open,
           Arrive(r, open) \/ BeginAttempt(r, open) \/ Report(r, open)
    PROVE  Local(r)'
<1> USE DEF shared, stash, loop, reply, exchange
<1>1. CASE Arrive(r, open)
  <2>1. /\ phase[r] = "idle" /\ UNCHANGED <<permits, attempt, terminal, hint>>
        /\ \/ phase'[r] = "next" /\ UNCHANGED <<written, result>>
           \/ /\ phase'[r] = "done" /\ written'[r] = written[r] + 1
              /\ result'[r] = Answer("envelope", 0)
    BY <1>1 DEF Arrive, CandidatesRejected, Move, Write, Shape
  <2>2. attempt[r] = 0 /\ written[r] = 0 /\ terminal[r] = 0 /\ hint[r] = NoOne /\ r \notin permits
    BY <2>1 DEF Local, Counted, Answered, Begun, LastReply, Hinted, Reported
  <2> QED BY <2>1, <2>2, RelayAssumption
         DEF RelayAssumption, Answer, Local, Counted, Reported, Answered, Begun, LastReply,
             Neutral, Hinted
<1>2. CASE BeginAttempt(r, open)
  <2>1. /\ phase[r] = "next" /\ phase'[r] = "slot" /\ hint'[r] = NoOne
        /\ UNCHANGED <<permits, terminal, written, result>>
    BY <1>2 DEF BeginAttempt, Move, StripRetryAfter, Shape
  <2> QED BY <2>1 DEF Local, Counted, Reported, Answered, Begun, LastReply, Neutral, Hinted
<1>3. CASE Report(r, open)
  <2>1. /\ phase[r] = "report" /\ phase'[r] = "loop" /\ r \notin permits'
        /\ UNCHANGED <<attempt, terminal, cand, error, written, result>>
    BY <1>3 DEF Report, Move, Shape
  <2>2. Hinted(r)'
    <3>1. CASE ~(Retryable(error[r]) /\ attempt[r] < MaxAttempts)
      <4>1. hint'[r] = hint[r] \/ hint'[r] = NoOne
        BY <1>3 DEF Report, StripRetryAfter, Shape
      <4> QED BY <2>1, <3>1, <4>1 DEF Local, Hinted
    <3>2. CASE Retryable(error[r]) /\ attempt[r] < MaxAttempts
      <4>1. /\ Advance(r, attempt[r] + 1, open)
            /\ IF Stays(r, cands'[r], start'[r]) THEN hint'[r] = hint[r]
               ELSE hint'[r] = NoOne
        BY <1>3, <3>2, RelayAssumption
           DEF RelayAssumption, Report, Retryable, StripRetryAfter, Shape
      <4>2. Exhausted(r, attempt[r] + 1)' => reached'[r] > Len(Chain)
        BY <4>1, <2>1, AdvanceKeeps DEF Shape, Exhausted
      <4>3. CASE Stays(r, cands'[r], start'[r])
        BY <2>1, <4>1, <4>2, <4>3 DEF Stays, Local, Hinted, Foreseen
      <4> QED BY <4>1, <4>3 DEF Hinted
    <3> QED BY <3>1, <3>2
  <2> QED BY <2>1, <2>2 DEF Local, Counted, Reported, Answered, Begun, LastReply, Neutral
<1> QED BY <1>1, <1>2, <1>3

\* The steps of the attempt loop around the exchange.
LEMMA LoopLocal ==
    ASSUME Shape, NEW r \in Requests, Local(r),
           \/ ClientLeaves(r) \/ BudgetExhausted(r)
           \/ Saturated(r) \/ TakeSlot(r) \/ Denied(r) \/ Granted(r)
           \/ LoopEnds(r) \/ Backoff(r) \/ SleepEnds(r)
    PROVE  Local(r)'
<1> USE DEF shared, plan, stash, loop, reply, exchange
<1>1. CASE ClientLeaves(r)
  BY <1>1 DEF ClientLeaves, Local, Counted, Reported, Answered, Begun, LastReply, Neutral,
              Hinted, Foreseen, Exhausted
<1>2. CASE BudgetExhausted(r) \/ SleepEnds(r)
  BY <1>2, FinishLocal DEF BudgetExhausted, SleepEnds
<1>3. CASE LoopEnds(r)
  BY <1>3, FinishLocal DEF LoopEnds
<1>4. CASE Saturated(r) \/ TakeSlot(r)
  BY <1>4 DEF Saturated, TakeSlot, Fail, Move, Shape, Local, Counted, Reported, Answered,
              Begun, LastReply, Neutral, Hinted
<1>5. CASE Denied(r) \/ Granted(r)
  BY <1>5 DEF Denied, Granted, Fail, Move, Shape, Local, Counted, Reported, Answered,
              Begun, LastReply, Neutral, Hinted
<1>6. CASE Backoff(r)
  <2>1. /\ phase[r] = "loop" /\ phase'[r] = "next" /\ Retryable(error[r])
        /\ attempt[r] < MaxAttempts
        /\ UNCHANGED <<permits, attempt, terminal, hint, cands, start, reached, cand, error,
                       written, result>>
    BY <1>6 DEF Backoff, Move, Shape
  <2>2. Foreseen(r)' <=> Foreseen(r)
    BY <2>1 DEF Foreseen, Exhausted
  <2>3. error[r] \notin {"none", "committed", "terminal"}
    BY <2>1 DEF Retryable
  <2> QED BY <2>1, <2>2, <2>3
         DEF Local, Counted, Reported, Answered, Begun, LastReply, Neutral, Hinted
<1> QED BY <1>1, <1>2, <1>3, <1>4, <1>5, <1>6

\* The requests that do not move.
LEMMA KeptLocal ==
    ASSUME NEW q \in Requests, Local(q), Kept(q)
    PROVE  Local(q)'
BY DEF Kept, Local, Counted, Reported, Answered, Begun, LastReply, Neutral, Hinted,
       Foreseen, Exhausted, Retryable

\* The inductive invariant of the requests.
LocalInv == Shape /\ \A r \in Requests : Local(r)

\* A request begins with nothing held, written or foreseen.
LEMMA InitLocal == Init => LocalInv
<1> SUFFICES ASSUME Init PROVE LocalInv
  OBVIOUS
<1> USE RelayAssumption DEF Init, RelayAssumption
<1>1. Shape
  BY DEF Shape, Phases
<1>2. ASSUME NEW r \in Requests PROVE Local(r)
  BY DEF Local, Counted, Reported, Answered, Begun, LastReply, Neutral, Hinted, Answer
<1> QED BY <1>1, <1>2 DEF LocalInv

\* A step of a request keeps the invariant of all, and leaves the others alone.
LEMMA RequestLocal ==
    ASSUME LocalInv, NEW r \in Requests, Request(r)
    PROVE  LocalInv' /\ Frame(r)
<1>1. Shape /\ Local(r) /\ Counted(r)
  BY DEF LocalInv, Local
<1>2. Shape' /\ Frame(r)
  BY <1>1, PlanFrame, LoopFrame, ExchangeFrame DEF Request
<1>3. Local(r)'
  BY <1>1, PlanLocal, LoopLocal, ExchangeLocal DEF Request
<1>4. ASSUME NEW q \in Requests \ {r} PROVE Local(q)'
  BY <1>2, KeptLocal DEF LocalInv, Frame
<1> QED BY <1>2, <1>3, <1>4 DEF LocalInv

\* The switch and the stutter touch no request.
LEMMA OutsideLocal ==
    ASSUME LocalInv, (\E u \in Upstreams : Enable(u)) \/ UNCHANGED vars
    PROVE  LocalInv' /\ UNCHANGED <<slots, budget, permits, phase, attempt, cand, hint>>
<1>1. UNCHANGED <<slots, budget, permits, phase, gone, plan, exchange, stash, loop, reply>>
  BY DEF Enable, vars, shared
<1> USE <1>1 DEF plan, exchange, stash, loop, reply
<1>2. Shape'
  BY DEF LocalInv, Shape
<1>3. ASSUME NEW q \in Requests PROVE Local(q)'
  BY KeptLocal DEF LocalInv, Kept
<1> QED BY <1>2, <1>3 DEF LocalInv

\* Every step keeps it.
LEMMA NextLocal == LocalInv /\ [Next]_vars => LocalInv'
BY RequestLocal, OutsideLocal DEF Next

\* No permission is left behind: a call is reported before its attempt
\* returns, or it panicked (executor.go:432).
THEOREM NoPermitStranded == Spec => []PermitsReported
<1>1. LocalInv => PermitsReported
  BY DEF LocalInv, Local, Reported, PermitsReported, Slotted, Shape
<1> QED BY <1>1, InitLocal, NextLocal, PTL DEF Spec

\* A client that stays gets one response, whatever the attempts end as
\* (executor.go:376).
THEOREM OneResponseOnly == Spec => []OneResponse
<1>1. LocalInv => OneResponse
  BY DEF LocalInv, Local, Answered, OneResponse, Shape
<1> QED BY <1>1, InitLocal, NextLocal, PTL DEF Spec

\* What is passed through is the last attempt's reply (executor.go:586).
THEOREM NoOldPassthrough == Spec => []PassthroughIsFresh
<1>1. LocalInv => PassthroughIsFresh
  BY DEF LocalInv, Local, LastReply, PassthroughIsFresh
<1> QED BY <1>1, InitLocal, NextLocal, PTL DEF Spec

\* The gateway's own cuts are not charged to the upstream (exchange.go:199).
THEOREM NoChargeForCuts == Spec => []CutsAreNeutral
<1>1. LocalInv => CutsAreNeutral
  BY DEF LocalInv, Local, Neutral, CutsAreNeutral
<1> QED BY <1>1, InitLocal, NextLocal, PTL DEF Spec

\* The attempt that begins after a hinted wait goes to the upstream that asked
\* for the wait (executor.go:484).
THEOREM HintsStayHome == Spec => HintStaysWithUpstream
<1> DEFINE Step == \A r \in Requests :
                     phase[r] = "next" /\ phase'[r] = "slot" /\ hint[r] # NoOne
                         => cand'[r] = hint[r][1]
<1>1. ASSUME LocalInv, [Next]_vars PROVE [Step]_vars
  <2>1. ASSUME NEW r \in Requests, phase[r] = "next", phase'[r] = "slot", hint[r] # NoOne
        PROVE  cand'[r] = hint[r][1]
    <3>1. PICK q \in Requests : Request(q)
      BY <1>1, <2>1, OutsideLocal DEF Next
    <3>2. q = r
      BY <1>1, <2>1, <3>1, RequestLocal DEF Frame, Kept
    <3>3. Shape /\ Foreseen(r)
      BY <1>1, <2>1 DEF LocalInv, Local, Hinted
    <3>4. PICK open \in SUBSET Upstreams : BeginAttempt(r, open)
      <4>1. ~\E open \in SUBSET Upstreams : Arrive(r, open) \/ Report(r, open)
        BY <2>1 DEF Arrive, Report
      <4>2. ~BudgetExhausted(r) /\ ~SleepEnds(r)
        <5>1. ASSUME NEW exhausted, Finish(r, exhausted) PROVE phase'[r] = "done"
          BY <3>3, <5>1 DEF Finish, Forget, Move, Shape
        <5> QED BY <2>1, <5>1 DEF BudgetExhausted, SleepEnds
      <4>3. ~LoopEnds(r) /\ ~ClientLeaves(r) /\ ~Backoff(r)
        BY <2>1 DEF LoopEnds, ClientLeaves, Backoff
      <4>4. ~Saturated(r) /\ ~TakeSlot(r) /\ ~Denied(r) /\ ~Granted(r)
        BY <2>1 DEF Saturated, TakeSlot, Denied, Granted
      <4>5. ~Exchange(r)
        BY <2>1, <3>3 DEF Exchange, Forward, NoCredential, TransportFails, TimerFires,
              ForwardFails, ErrorReply, ErrorHeaders, BodyLost, Buffered, HeadersTooLate,
              Commit, PumpEnds, PumpBreaks, Panic
      <4> QED BY <3>1, <3>2, <4>1, <4>2, <4>3, <4>4, <4>5 DEF Request
    <3>5. /\ attempt'[r] = attempt[r] + 1
          /\ Advance(r, attempt[r] + 1, open)
          /\ cand'[r] = Target(cands'[r], start'[r], attempt[r] + 1)
      BY <3>3, <3>4 DEF BeginAttempt, Shape
    <3>6. UNCHANGED <<cands, start>>
      <4>1. CASE ~Exhausted(r, attempt[r] + 1)
        BY <3>5, <4>1 DEF Advance, plan
      <4>2. CASE Exhausted(r, attempt[r] + 1)
        <5>1. reached[r] \in Nat /\ Len(Chain) \in Nat /\ reached[r] > Len(Chain)
          BY <3>3, <4>2, RelayAssumption DEF RelayAssumption, Shape, Foreseen
        <5>2. Eligible(r, open) = {}
          BY <5>1 DEF Eligible
        <5> QED BY <3>5, <4>2, <5>2 DEF Advance
      <4> QED BY <4>1, <4>2
    <3> QED BY <3>3, <3>5, <3>6 DEF Foreseen
  <2> QED BY <2>1
<1> QED BY <1>1, InitLocal, NextLocal, PTL DEF Spec, HintStaysWithUpstream

-----------------------------------------------------------------------------
(* The counters *)

\* The exchanges in flight on an upstream, and the retries in flight.
InFlight(u) == {r \in Requests : Slotted(r) /\ cand[r] = u}
Retrying == {r \in Requests : Attempting(r) /\ attempt[r] > 1}

\* The counters are the sizes of these sets.
SlotsExact ==
    /\ slots \in [Upstreams -> 0..Cardinality(Requests)]
    /\ \A u \in Upstreams :
        slots[u] = Cardinality(InFlight(u)) /\ slots[u] <= BulkheadMax
BudgetExact == budget = Cardinality(Retrying)

\* Some of the requests are finitely many.
LEMMA SomeRequests ==
    ASSUME NEW S \in SUBSET Requests
    PROVE  IsFiniteSet(S) /\ Cardinality(S) \in 0..Cardinality(Requests)
<1>1. IsFiniteSet(Requests) /\ Cardinality(Requests) \in Nat
  BY RelayAssumption, FS_CardinalityType DEF RelayAssumption
<1> QED BY <1>1, FS_Subset, FS_CardinalityType

\* The sets the counters stand for are finite.
LEMMA CountedFinite ==
    /\ \A u : IsFiniteSet(InFlight(u)) /\ Cardinality(InFlight(u)) \in 0..Cardinality(Requests)
    /\ IsFiniteSet(Retrying) /\ Cardinality(Retrying) \in 0..Cardinality(Requests)
BY SomeRequests DEF InFlight, Retrying

\* A step that neither takes nor returns a slot.
LEMMA SlotsStay ==
    ASSUME SlotsExact, NEW r \in Requests, Frame(r), UNCHANGED slots,
           Slotted(r)' <=> Slotted(r), Slotted(r) => cand'[r] = cand[r]
    PROVE  SlotsExact'
<1>1. ASSUME NEW u \in Upstreams PROVE InFlight(u)' = InFlight(u)
  BY DEF InFlight, Frame, Kept, Slotted
<1> QED BY <1>1 DEF SlotsExact

\* A step that takes one.
LEMMA SlotsTake ==
    ASSUME SlotsExact, NEW r \in Requests, Frame(r), ~Slotted(r), Slotted(r)',
           cand'[r] = cand[r], slots[cand[r]] < BulkheadMax,
           slots' = [slots EXCEPT ![cand[r]] = @ + 1]
    PROVE  SlotsExact'
<1>1. ASSUME NEW u \in Upstreams
      PROVE  slots'[u] = Cardinality(InFlight(u)') /\ slots'[u] <= BulkheadMax
  <2>0. slots[u] \in Nat /\ IsFiniteSet(InFlight(u)) /\ BulkheadMax \in Nat
    BY CountedFinite, RelayAssumption DEF SlotsExact, RelayAssumption
  <2>1. CASE cand[r] = u
    <3>1. InFlight(u)' = InFlight(u) \cup {r} /\ r \notin InFlight(u)
      BY <2>1 DEF InFlight, Frame, Kept, Slotted
    <3>2. Cardinality(InFlight(u)') = Cardinality(InFlight(u)) + 1
      BY <2>0, <3>1, FS_AddElement
    <3>3. slots'[u] = slots[u] + 1 /\ slots[u] < BulkheadMax
      BY <2>1 DEF SlotsExact
    <3> QED BY <2>0, <3>2, <3>3 DEF SlotsExact
  <2>2. CASE cand[r] # u
    <3>1. InFlight(u)' = InFlight(u)
      BY <2>2 DEF InFlight, Frame, Kept, Slotted
    <3> QED BY <2>2, <3>1 DEF SlotsExact
  <2> QED BY <2>1, <2>2
<1>2. \A u \in Upstreams : slots'[u] \in 0..Cardinality(Requests)
  BY <1>1, SomeRequests DEF InFlight
<1>3. slots' \in [Upstreams -> 0..Cardinality(Requests)]
  BY <1>2 DEF SlotsExact
<1> QED BY <1>1, <1>3 DEF SlotsExact

\* A step that returns one.
LEMMA SlotsReturn ==
    ASSUME SlotsExact, NEW r \in Requests, Frame(r), Slotted(r), ~Slotted(r)',
           slots' = [slots EXCEPT ![cand[r]] = @ - 1]
    PROVE  SlotsExact'
<1>1. ASSUME NEW u \in Upstreams
      PROVE  slots'[u] = Cardinality(InFlight(u)') /\ slots'[u] <= BulkheadMax
  <2>0. slots[u] \in Nat /\ IsFiniteSet(InFlight(u)) /\ BulkheadMax \in Nat
    BY CountedFinite, RelayAssumption DEF SlotsExact, RelayAssumption
  <2>1. CASE cand[r] = u
    <3>1. InFlight(u)' = InFlight(u) \ {r} /\ r \in InFlight(u)
      BY <2>1 DEF InFlight, Frame, Kept, Slotted
    <3>2. Cardinality(InFlight(u)') = Cardinality(InFlight(u)) - 1
      BY <2>0, <3>1, FS_RemoveElement
    <3>3. slots'[u] = slots[u] - 1
      BY <2>1 DEF SlotsExact
    <3> QED BY <2>0, <3>2, <3>3 DEF SlotsExact
  <2>2. CASE cand[r] # u
    <3>1. InFlight(u)' = InFlight(u)
      BY <2>2 DEF InFlight, Frame, Kept, Slotted
    <3> QED BY <2>2, <3>1 DEF SlotsExact
  <2> QED BY <2>1, <2>2
<1>2. \A u \in Upstreams : slots'[u] \in 0..Cardinality(Requests)
  BY <1>1, SomeRequests DEF InFlight
<1>3. slots' \in [Upstreams -> 0..Cardinality(Requests)]
  BY <1>2 DEF SlotsExact
<1> QED BY <1>1, <1>3 DEF SlotsExact

\* A step that neither begins an attempt nor ends one.
LEMMA BudgetStays ==
    ASSUME BudgetExact, NEW r \in Requests, Frame(r), UNCHANGED budget,
           Attempting(r)' <=> Attempting(r), Attempting(r) => attempt'[r] = attempt[r]
    PROVE  BudgetExact'
<1>1. Retrying' = Retrying
  BY DEF Retrying, Frame, Kept, Attempting, Slotted
<1> QED BY <1>1 DEF BudgetExact

\* Beginning a retry takes a slot of the budget, a first attempt none.
LEMMA BudgetTaken ==
    ASSUME BudgetExact, Shape, NEW r \in Requests, Frame(r), ~Attempting(r), Attempting(r)',
           budget' = (IF attempt[r] > 0 THEN budget + 1 ELSE budget),
           attempt'[r] = attempt[r] + 1
    PROVE  BudgetExact'
<1>0. attempt[r] \in Nat /\ r \notin Retrying /\ IsFiniteSet(Retrying)
  BY CountedFinite DEF Shape, Retrying
<1>1. Retrying' = IF attempt[r] > 0 THEN Retrying \cup {r} ELSE Retrying
  BY <1>0 DEF Retrying, Frame, Kept, Attempting, Slotted
<1> QED BY <1>0, <1>1, FS_AddElement DEF BudgetExact

\* Whatever ends the attempt gives back what it took.
LEMMA BudgetReturned ==
    ASSUME BudgetExact, NEW r \in Requests, Frame(r), Attempting(r), ~Attempting(r)',
           ReleaseBudget(r)
    PROVE  BudgetExact'
<1>0. IsFiniteSet(Retrying) /\ (r \in Retrying <=> attempt[r] > 1)
  BY CountedFinite DEF Retrying
<1>1. Retrying' = Retrying \ {r}
  BY DEF Retrying, Frame, Kept, Attempting, Slotted
<1> QED BY <1>0, <1>1, FS_RemoveElement DEF BudgetExact, ReleaseBudget

\* The steps of the exchange that stay in it.
Inside(r) ==
    /\ Slotted(r) /\ Slotted(r)'
    /\ UNCHANGED <<slots, budget, cand, attempt>>

\* Every step of the exchange but a panic stays in it.
LEMMA ExchangeInside ==
    ASSUME Shape, NEW r \in Requests, Exchange(r)
    PROVE  Inside(r) \/ Panic(r)
<1>0. ASSUME NEW out, NEW e, NEW why, Conclude(r, out, e, why)
      PROVE  phase'[r] = "report"
  BY <1>0 DEF Conclude, Move, Shape
<1> USE DEF Inside, Slotted, shared, exchange, loop
<1>1. ASSUME NEW c, Forward(r, c) PROVE Inside(r)
  BY <1>1 DEF Forward, Move, Shape
<1>2. CASE NoCredential(r)
  BY <1>0, <1>2 DEF NoCredential
<1>3. ASSUME NEW e, TransportFails(r, e) PROVE Inside(r)
  BY <1>0, <1>3 DEF TransportFails
<1>4. ASSUME NEW t, TimerFires(r, t) PROVE Inside(r)
  BY <1>4 DEF TimerFires
<1>5. ASSUME NEW why, ForwardFails(r, why) PROVE Inside(r)
  BY <1>0, <1>5 DEF ForwardFails
<1>6. ASSUME NEW kind, NEW waits, ErrorReply(r, kind, waits) PROVE Inside(r)
  BY <1>0, <1>6 DEF ErrorReply, Stash
<1>7. CASE ErrorHeaders(r) \/ Commit(r)
  BY <1>7 DEF ErrorHeaders, Commit, Move, Shape
<1>8. ASSUME NEW why, BodyLost(r, why) PROVE Inside(r)
  BY <1>0, <1>8 DEF BodyLost
<1>9. CASE Buffered(r) \/ HeadersTooLate(r) \/ PumpEnds(r)
  BY <1>0, <1>9 DEF Buffered, HeadersTooLate, PumpEnds
<1>10. ASSUME NEW why, PumpBreaks(r, why) PROVE Inside(r)
  BY <1>0, <1>10 DEF PumpBreaks
<1> HIDE DEF Inside, Slotted
<1> QED BY <1>1, <1>2, <1>3, <1>4, <1>5, <1>6, <1>7, <1>8, <1>9, <1>10 DEF Exchange

\* Every step of a request keeps both counters exact.
LEMMA RequestCounts ==
    ASSUME LocalInv, SlotsExact, BudgetExact, NEW r \in Requests, Request(r)
    PROVE  SlotsExact' /\ BudgetExact'
<1>0. Shape /\ Frame(r)
  BY RequestLocal DEF LocalInv
<1> USE <1>0 DEF shared, exchange, loop
<1>1. ASSUME NEW open, Arrive(r, open) PROVE SlotsExact' /\ BudgetExact'
  <2>1. /\ UNCHANGED <<slots, budget, attempt, cand>>
        /\ phase[r] = "idle" /\ phase'[r] \in {"next", "done"}
    BY <1>1 DEF Arrive, CandidatesRejected, Move, Shape
  <2> QED BY <2>1, SlotsStay, BudgetStays DEF Slotted, Attempting
<1>2. ASSUME NEW open, BeginAttempt(r, open) PROVE SlotsExact' /\ BudgetExact'
  <2>1. /\ UNCHANGED slots
        /\ budget' = (IF attempt[r] > 0 THEN budget + 1 ELSE budget)
        /\ attempt'[r] = attempt[r] + 1
        /\ phase[r] = "next" /\ phase'[r] = "slot"
    BY <1>2 DEF BeginAttempt, Move, Shape
  <2> QED BY <2>1, SlotsStay, BudgetTaken DEF Slotted, Attempting
<1>3. ASSUME NEW open, Report(r, open) PROVE SlotsExact' /\ BudgetExact'
  <2>1. /\ slots' = [slots EXCEPT ![cand[r]] = @ - 1] /\ UNCHANGED <<budget, attempt>>
        /\ phase[r] = "report" /\ phase'[r] = "loop"
    BY <1>3 DEF Report, Move, Shape
  <2> QED BY <2>1, SlotsReturn, BudgetStays DEF Slotted, Attempting
<1>4. CASE ClientLeaves(r)
  <2>1. UNCHANGED <<slots, budget, attempt, cand, phase>>
    BY <1>4 DEF ClientLeaves
  <2> QED BY <2>1, SlotsStay, BudgetStays DEF Slotted, Attempting
<1>5. CASE BudgetExhausted(r) \/ SleepEnds(r)
  <2>1. UNCHANGED <<slots, budget>> /\ phase[r] = "next" /\ phase'[r] = "done"
    <3>1. ASSUME NEW exhausted, Finish(r, exhausted) PROVE phase'[r] = "done"
      BY <3>1 DEF Finish, Forget, Move, Shape
    <3> QED BY <1>5, <3>1 DEF BudgetExhausted, SleepEnds
  <2> QED BY <2>1, SlotsStay, BudgetStays DEF Slotted, Attempting
<1>6. CASE Saturated(r)
  <2>1. /\ UNCHANGED <<slots, budget, attempt, cand>>
        /\ phase[r] = "slot" /\ phase'[r] = "loop"
    BY <1>6 DEF Saturated, Move, Shape
  <2> QED BY <2>1, SlotsStay, BudgetStays DEF Slotted, Attempting
<1>7. CASE TakeSlot(r)
  <2>1. /\ slots[cand[r]] < BulkheadMax /\ slots' = [slots EXCEPT ![cand[r]] = @ + 1]
        /\ UNCHANGED <<budget, attempt, cand>>
        /\ phase[r] = "slot" /\ phase'[r] = "breaker"
    BY <1>7 DEF TakeSlot, Move, Shape
  <2> QED BY <2>1, SlotsTake, BudgetStays DEF Slotted, Attempting
<1>8. CASE Denied(r)
  <2>1. /\ slots' = [slots EXCEPT ![cand[r]] = @ - 1] /\ UNCHANGED <<budget, attempt>>
        /\ phase[r] = "breaker" /\ phase'[r] = "loop"
    BY <1>8 DEF Denied, Move, Shape
  <2> QED BY <2>1, SlotsReturn, BudgetStays DEF Slotted, Attempting
<1>9. CASE Granted(r)
  <2>1. /\ UNCHANGED <<slots, budget, attempt, cand>>
        /\ phase[r] = "breaker" /\ phase'[r] = "forward"
    BY <1>9 DEF Granted, Move, Shape
  <2> QED BY <2>1, SlotsStay, BudgetStays DEF Slotted, Attempting
<1>10. CASE Exchange(r)
  <2>1. CASE Inside(r)
    BY <2>1, SlotsStay, BudgetStays DEF Inside, Attempting
  <2>2. CASE Panic(r)
    <3>1. /\ slots' = [slots EXCEPT ![cand[r]] = @ - 1] /\ ReleaseBudget(r)
          /\ phase[r] \in {"waiting", "errorbody", "pumping"} /\ phase'[r] = "done"
      BY <2>2 DEF Panic, Forget, Move, Shape
    <3> QED BY <3>1, SlotsReturn, BudgetReturned DEF Slotted, Attempting
  <2> QED BY <1>10, <2>1, <2>2, ExchangeInside
<1>11. CASE LoopEnds(r)
  <2>1. /\ UNCHANGED slots /\ ReleaseBudget(r)
        /\ phase[r] = "loop" /\ phase'[r] = "done"
    BY <1>11 DEF LoopEnds, Finish, Forget, Move, Shape
  <2> QED BY <2>1, SlotsStay, BudgetReturned DEF Slotted, Attempting
<1>12. CASE Backoff(r)
  <2>1. /\ UNCHANGED slots /\ ReleaseBudget(r)
        /\ phase[r] = "loop" /\ phase'[r] = "next"
    BY <1>12 DEF Backoff, Move, Shape
  <2> QED BY <2>1, SlotsStay, BudgetReturned DEF Slotted, Attempting
<1> QED BY <1>1, <1>2, <1>3, <1>4, <1>5, <1>6, <1>7, <1>8, <1>9, <1>10, <1>11, <1>12
       DEF Request

\* Every slot of the bulkhead and of the retry budget is held by exactly one
\* attempt in flight and comes back, on every path out of an attempt
\* (executor.go:441, loop.go:80).
THEOREM ResourcesComeBack == Spec => []ResourcesExact
<1> DEFINE IInv == LocalInv /\ SlotsExact /\ BudgetExact
<1>1. Init => IInv
  <2> SUFFICES ASSUME Init PROVE SlotsExact /\ BudgetExact
    BY InitLocal
  <2>1. Retrying = {} /\ \A u \in Upstreams : InFlight(u) = {}
    BY DEF Init, Retrying, InFlight, Attempting, Slotted
  <2>2. BudgetExact
    BY <2>1, FS_EmptySet DEF Init, BudgetExact
  <2>3. BulkheadMax \in Nat /\ Cardinality(Requests) \in Nat
    BY RelayAssumption, FS_CardinalityType DEF RelayAssumption
  <2>4. SlotsExact
    <3>1. slots = [u \in Upstreams |-> 0]
      BY DEF Init
    <3>2. \A u \in Upstreams : slots[u] = 0 /\ Cardinality(InFlight(u)) = 0
      BY <2>1, <3>1, FS_EmptySet
    <3> QED BY <2>3, <3>1, <3>2 DEF SlotsExact
  <2> QED BY <2>2, <2>4
<1>2. IInv /\ [Next]_vars => IInv'
  <2> SUFFICES ASSUME IInv, [Next]_vars PROVE SlotsExact' /\ BudgetExact'
    BY NextLocal
  <2>1. ASSUME NEW r \in Requests, Request(r) PROVE SlotsExact' /\ BudgetExact'
    BY <2>1, RequestCounts
  <2>2. ASSUME (\E u \in Upstreams : Enable(u)) \/ UNCHANGED vars
        PROVE  SlotsExact' /\ BudgetExact'
    <3>1. UNCHANGED <<slots, budget, phase, attempt, cand>>
      BY <2>2, OutsideLocal
    <3>2. Retrying' = Retrying /\ \A u \in Upstreams : InFlight(u)' = InFlight(u)
      BY <3>1 DEF Retrying, InFlight, Attempting, Slotted
    <3> QED BY <3>1, <3>2 DEF SlotsExact, BudgetExact
  <2> QED BY <2>1, <2>2 DEF Next
<1>3. IInv => ResourcesExact
  <2> SUFFICES ASSUME IInv PROVE ResourcesExact
    OBVIOUS
  <2>1. TypeOK
    <3>1. budget \in 0..Cardinality(Requests)
      BY CountedFinite DEF BudgetExact
    <3> QED BY <3>1 DEF TypeOK, LocalInv, Shape, SlotsExact
  <2> QED BY <2>1 DEF ResourcesExact, SlotsExact, BudgetExact, InFlight, Retrying
<1> QED BY <1>1, <1>2, <1>3, PTL DEF Spec
=============================================================================
