---------------------------- MODULE SlowBreaker ----------------------------
(***************************************************************************)
(* The slow-call circuit breaker (internal/circuit/slow.go): the shared    *)
(* machine opens on the share of slow completions in a rolling window. The *)
(* operations of SlowRegistry carry its prefix.                            *)
(***************************************************************************)
EXTENDS BreakerMachine, RollingWindow

CONSTANTS
    MinSamples,         \* smallest window that may open
    RatioNum, RatioDen  \* slow share that opens

ASSUME SlowAssumption ==
    /\ {"fast", "slow"} \subseteq Kinds
    /\ MinSamples \in Nat \ {0}
    /\ RatioNum \in Nat \ {0} /\ RatioDen \in Nat \ {0} /\ RatioNum <= RatioDen

VARIABLE heard      \* history: completions recorded since the machine last
                    \* closed, up to MinSamples

slowVars == <<machineVars, windowVars, heard>>

SlowInit == MachineInit /\ WindowInit /\ heard = 0

SlowAllow(c) == Admit(c) /\ UNCHANGED <<windowVars, heard>>

SlowAllowDenied == DenyAndReclaim /\ UNCHANGED <<windowVars, heard>>

SlowStateOf == Observe /\ UNCHANGED <<windowVars, heard>>

-----------------------------------------------------------------------------
(* Report *)

\* Enough completions, and too many of them slow.
Degraded(fast, slow) ==
    /\ fast + slow >= MinSamples
    /\ slow * RatioDen >= (fast + slow) * RatioNum

\* Mutant: the window is judged before the completion is in it.
TrippedBefore == Degraded(Count("fast"), Count("slow"))

\* What the window says once the completion is in it.
Tripped == Degraded(Count("fast")', Count("slow")')

\* A server fault is slow evidence too.
KindOf(outcome) == IF outcome \in {"slow", "serverFault"} THEN "slow" ELSE "fast"

SlowReportClosed(outcome) ==
    /\ name = "closed"
    /\ \/ /\ outcome = "gatewayTerminated"
          /\ UNCHANGED <<positionVars, historyVars, windowVars, heard>>
       \/ /\ outcome # "gatewayTerminated"
          /\ Record(KindOf(outcome))
          /\ heard' = IF heard < MinSamples THEN heard + 1 ELSE heard
          /\ IF Tripped THEN EnterOpen ELSE UNCHANGED <<positionVars, historyVars>>

\* Mutant: the window that opened the breaker is still there.
DropEvidenceNot == UNCHANGED windowVars /\ heard' = 0

\* The strategy's cleanup on entering closed.
DropEvidence == ClearWindow /\ heard' = 0

SlowReportHalfOpen(c, cause) ==
    \/ ProbeAbsorbed(c) /\ UNCHANGED <<windowVars, heard>>
    \/ ProbeFailed(c, OutcomeOf(cause)) /\ UNCHANGED <<windowVars, heard>>
    \/ ProbePassed(c, cause, OutcomeOf(cause)) /\ DropEvidence

\* Open absorbs a very late report.
SlowReportOpen ==
    name = "open" /\ UNCHANGED <<positionVars, historyVars, windowVars, heard>>

SlowReport(c, cause) ==
    /\ Returned(c)
    /\ \/ SlowReportClosed(OutcomeOf(cause))
       \/ SlowReportHalfOpen(c, cause)
       \/ SlowReportOpen

SlowAbandon(c) == Abandoned(c) /\ UNCHANGED <<windowVars, heard>>

SlowRecycle(c) == Recycled(c) /\ UNCHANGED <<windowVars, heard>>

\* The window and its clock start over whatever the position was.
SlowReset == EnterClosed("reset") /\ RestartWindow /\ heard' = 0 /\ UNCHANGED call

SlowTick == MachineTick /\ WindowTick /\ UNCHANGED heard

SlowNext ==
    \/ \E c \in Calls :
        \/ SlowAllow(c) \/ SlowAbandon(c) \/ SlowRecycle(c)
        \/ \E cause \in Causes : SlowReport(c, cause)
    \/ SlowAllowDenied \/ SlowStateOf \/ SlowReset \/ SlowTick

SlowSpec == SlowInit /\ [][SlowNext]_slowVars

-----------------------------------------------------------------------------
\* Every variable keeps its type.
SlowTypeOK == MachineTypeOK /\ WindowTypeOK /\ heard \in 0..MinSamples

\* Light traffic cannot trip the guard, and neither can the backlog that
\* tripped it last time: opening takes MinSamples completions reported since
\* the machine last closed, whichever calls they belong to.
FreshEvidence ==
    [][name = "closed" /\ name' = "open" => heard' = MinSamples]_slowVars

\* This step records a completion.
Recorded == \E k \in Kinds : recent'[0][k] > recent[0][k]

\* The machine opens on the report that makes the last window of wall-clock
\* time degraded and on no other, as long as no idle time longer than the
\* window made the ring fall behind.
OpensOnTheWindow ==
    [][Recorded /\ ~overrun' =>
         (name' = "open" <=> Degraded(TrueCount("fast")', TrueCount("slow")'))]_slowVars
=============================================================================
