------------------------------ MODULE Breaker ------------------------------
(***************************************************************************)
(* The consecutive-failure circuit breaker (internal/circuit/breaker.go)   *)
(* on the shared machine, with an operator's reset.                        *)
(***************************************************************************)
EXTENDS BreakerMachine

CONSTANT FailThreshold  \* consecutive server faults that open

ASSUME ThresholdAssumption == FailThreshold \in Nat \ {0}

VARIABLE failures       \* the consecutive-failure count

vars == <<machineVars, failures>>

Init == MachineInit /\ failures = 0

Allow(c) == Admit(c) /\ UNCHANGED failures

AllowDenied == DenyAndReclaim /\ UNCHANGED failures

StateOf == Observe /\ UNCHANGED failures

-----------------------------------------------------------------------------
(* Report *)

Trips(count) == count >= FailThreshold

\* In closed the outcome only moves the failure count, or opens.
ReportClosed(outcome) ==
    /\ name = "closed"
    /\ CASE outcome \in Healthy ->
              failures' = 0 /\ UNCHANGED <<positionVars, historyVars>>
         [] outcome = "serverFault" ->
              /\ failures' = failures + 1
              /\ IF Trips(failures + 1) THEN EnterOpen
                 ELSE UNCHANGED <<positionVars, historyVars>>
         [] outcome = "gatewayTerminated" ->
              UNCHANGED <<positionVars, historyVars, failures>>

\* Mutant: recovery keeps the old failure count.
DropFailuresNot == UNCHANGED failures

\* The strategy's cleanup on entering closed.
DropFailures == failures' = 0

ReportHalfOpen(c, cause) ==
    \/ ProbeAbsorbed(c) /\ UNCHANGED failures
    \/ ProbeFailed(c, OutcomeOf(cause)) /\ UNCHANGED failures
    \/ ProbePassed(c, cause, OutcomeOf(cause)) /\ DropFailures

\* Mutant: an open machine keeps counting.
ReportOpenCounting ==
    /\ name = "open"
    /\ failures' = failures + 1
    /\ UNCHANGED <<positionVars, historyVars>>

\* Open absorbs a very late report.
ReportOpen == name = "open" /\ UNCHANGED <<positionVars, historyVars, failures>>

Report(c, cause) ==
    /\ Returned(c)
    /\ \/ ReportClosed(OutcomeOf(cause))
       \/ ReportHalfOpen(c, cause)
       \/ ReportOpen

Abandon(c) == Abandoned(c) /\ UNCHANGED failures

Recycle(c) == Recycled(c) /\ UNCHANGED failures

Reset == EnterClosed("reset") /\ DropFailures /\ UNCHANGED call

Tick == MachineTick /\ UNCHANGED failures

Next ==
    \/ \E c \in Calls :
        \/ Allow(c) \/ Abandon(c) \/ Recycle(c)
        \/ \E cause \in Causes : Report(c, cause)
    \/ AllowDenied \/ StateOf \/ Reset \/ Tick

Spec == Init /\ [][Next]_vars

\* Time passes, and somebody keeps reading the machine: the router reads it
\* for every request, the recovery loop on a timer.
FairSpec == Spec /\ WF_vars(Tick) /\ WF_vars(StateOf)

-----------------------------------------------------------------------------
\* Every variable keeps its type; the failure count never passes the
\* threshold.
TypeOK == MachineTypeOK /\ failures \in 0..FailThreshold

\* A closed machine is always below its threshold: recovery, whichever way,
\* starts from a count that cannot reopen on the first stale fault unless
\* the threshold is one.
ClosedBelowThreshold == name = "closed" => failures < FailThreshold
=============================================================================
