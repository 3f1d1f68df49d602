--------------------------- MODULE BreakerProofs ---------------------------
(***************************************************************************)
(* Proofs about the circuit breakers, for any number of concurrent callers *)
(* and every threshold, cooldown, probe timeout and window geometry.       *)
(*                                                                         *)
(* What the shared skeleton (BreakerMachine) guarantees whatever strategy  *)
(* runs on it is proved once, for the steps a strategy may take on it; the *)
(* consecutive-failure breaker (Breaker) and the slow-call breaker         *)
(* (SlowBreaker) are then shown to take no others.  In the same way what   *)
(* the bucket ring (RollingWindow) counts is proved for the steps a        *)
(* strategy may take on it, and used for the slow-call breaker and the     *)
(* ratio breaker (RatioBreaker).                                           *)
(***************************************************************************)
EXTENDS Breaker, SlowBreaker, RatioBreaker, FiniteSetTheorems,
        FunctionTheorems, TLAPS

-----------------------------------------------------------------------------
(* The machine *)

\* A report of one call, as far as the machine is concerned.
MachineReport(c) ==
    /\ Returned(c)
    /\ \/ name # "half-open" /\ UNCHANGED <<positionVars, historyVars>>
       \/ name = "closed" /\ EnterOpen
       \/ ProbeAbsorbed(c)
       \/ \E cause \in Causes : \/ ProbeFailed(c, OutcomeOf(cause))
                                \/ ProbePassed(c, cause, OutcomeOf(cause))

\* The steps a strategy may take on the machine.
MachineNext ==
    \/ \E c \in Calls : Admit(c) \/ Abandoned(c) \/ Recycled(c) \/ MachineReport(c)
    \/ DenyAndReclaim
    \/ Observe
    \/ EnterClosed("reset") /\ UNCHANGED call
    \/ MachineTick

\* A probe was admitted after the machine last opened; while no probe is out,
\* the last one of this outage is as far back as the machine has been open.
ProbeInv ==
    /\ probe # NoCall => probe \in fresh
    /\ name = "open" => sinceProbe >= sinceOpen
    /\ name = "closed" => sinceProbe = Cooldown
    /\ name = "half-open" /\ probe = NoCall => sinceProbe = Cooldown

MachineInv == MachineTypeOK /\ SlotHasHolder /\ ProbeInv

\* A new machine satisfies it.
LEMMA MachineInitially == MachineInit => MachineInv
BY MachineAssumption
   DEF MachineAssumption, MachineInit, MachineInv, MachineTypeOK, SlotHasHolder, ProbeInv

-----------------------------------------------------------------------------
\* Admitting a call, as a probe or not, keeps it.
LEMMA AdmitStep ==
    ASSUME MachineInv, NEW c \in Calls, Admit(c)
    PROVE  MachineInv'
<1> USE MachineAssumption
    DEF MachineAssumption, MachineInv, Admit, GrantProbe, Cooled, positionVars
<1>1. MachineTypeOK'
  BY DEF MachineTypeOK
<1>2. SlotHasHolder'
  BY DEF MachineTypeOK, SlotHasHolder
<1>3. ProbeInv'
  BY DEF MachineTypeOK, SlotHasHolder, ProbeInv
<1> QED BY <1>1, <1>2, <1>3

\* Whoever finds the probe expired, or reports it failed, reopens.
LEMMA ReclaimKeeps ==
    ASSUME MachineInv, Reclaim, call' \in [Calls -> {"idle", "flying", "lost"}]
    PROVE  MachineInv'
BY MachineAssumption
   DEF MachineAssumption, MachineInv, Reclaim, MachineTypeOK, SlotHasHolder, ProbeInv

\* Closing, whether by the probe or by an operator, frees the slot.
LEMMA CloseKeeps ==
    ASSUME MachineInv, NEW cause \in Causes \cup {"reset"}, EnterClosed(cause),
           call' \in [Calls -> {"idle", "flying", "lost"}]
    PROVE  MachineInv'
BY MachineAssumption
   DEF MachineAssumption, MachineInv, EnterClosed, MachineTypeOK, SlotHasHolder, ProbeInv

\* A read keeps it, whichever lazy transition it takes.
LEMMA ObserveStep ==
    ASSUME MachineInv, Observe
    PROVE  MachineInv'
<1>1. CASE name' = "half-open"
  BY <1>1, MachineAssumption
     DEF MachineAssumption, MachineInv, Observe, Cooled, Reclaim, historyVars,
         MachineTypeOK, SlotHasHolder, ProbeInv
<1>2. CASE name' # "half-open"
  <2>1. Reclaim /\ call' = call
    BY <1>2 DEF Observe, Reclaim
  <2> QED BY <2>1, ReclaimKeeps DEF MachineInv, MachineTypeOK
<1> QED BY <1>1, <1>2

\* A report keeps it, however late and whoever holds the slot.
LEMMA ReportStep ==
    ASSUME MachineInv, NEW c \in Calls, MachineReport(c)
    PROVE  MachineInv'
<1>1. /\ call' = [call EXCEPT ![c] = "idle"]
      /\ call' \in [Calls -> {"idle", "flying", "lost"}]
  BY DEF MachineReport, Returned, MachineInv, MachineTypeOK
<1>2. CASE name # "half-open" /\ UNCHANGED <<positionVars, historyVars>>
  BY <1>1, <1>2 DEF positionVars, historyVars, MachineInv, MachineTypeOK,
     SlotHasHolder, ProbeInv
<1>3. CASE name = "closed" /\ EnterOpen
  BY <1>1, <1>3, MachineAssumption
     DEF MachineAssumption, EnterOpen, MachineInv, MachineTypeOK, SlotHasHolder, ProbeInv
<1>4. CASE ProbeAbsorbed(c)
  BY <1>1, <1>4 DEF ProbeAbsorbed, OwnsProbe, positionVars, historyVars,
     MachineInv, MachineTypeOK, SlotHasHolder, ProbeInv
<1>5. ASSUME NEW cause \in Causes, ProbeFailed(c, OutcomeOf(cause)) PROVE MachineInv'
  BY <1>1, <1>5, ReclaimKeeps DEF ProbeFailed
<1>6. ASSUME NEW cause \in Causes, ProbePassed(c, cause, OutcomeOf(cause))
      PROVE  MachineInv'
  BY <1>1, <1>6, CloseKeeps DEF ProbePassed
<1> QED BY <1>2, <1>3, <1>4, <1>5, <1>6 DEF MachineReport

\* A holder that never reports changes nothing.
LEMMA HolderStep ==
    ASSUME MachineInv, NEW c \in Calls, Abandoned(c) \/ Recycled(c)
    PROVE  MachineInv'
BY DEF Abandoned, Recycled, positionVars, historyVars, MachineInv, MachineTypeOK,
       SlotHasHolder, ProbeInv

\* Time alone moves only the saturated clocks.
LEMMA MachineTickStep ==
    ASSUME MachineInv, MachineTick
    PROVE  MachineInv'
BY MachineAssumption
   DEF MachineAssumption, MachineTick, MachineInv, MachineTypeOK, SlotHasHolder, ProbeInv

\* The invariant of the probe slot is inductive under every strategy.
LEMMA MachineInductive == MachineInv /\ [MachineNext]_machineVars => MachineInv'
<1> SUFFICES ASSUME MachineInv, [MachineNext]_machineVars PROVE MachineInv'
  OBVIOUS
<1>1. ASSUME NEW c \in Calls,
             Admit(c) \/ Abandoned(c) \/ Recycled(c) \/ MachineReport(c)
      PROVE  MachineInv'
  BY <1>1, AdmitStep, HolderStep, ReportStep
<1>2. CASE DenyAndReclaim
  BY <1>2, ReclaimKeeps DEF DenyAndReclaim, MachineInv, MachineTypeOK
<1>3. CASE Observe
  BY <1>3, ObserveStep
<1>4. CASE EnterClosed("reset") /\ UNCHANGED call
  BY <1>4, CloseKeeps DEF MachineInv, MachineTypeOK
<1>5. CASE MachineTick
  BY <1>5, MachineTickStep
<1>6. CASE UNCHANGED machineVars
  BY <1>6 DEF machineVars, positionVars, historyVars, MachineInv, MachineTypeOK,
     SlotHasHolder, ProbeInv
<1> QED BY <1>1, <1>2, <1>3, <1>4, <1>5, <1>6 DEF MachineNext

-----------------------------------------------------------------------------
(* What a step may never do *)

\* Leaving an outage takes its own probe, in time.
LEMMA OnlyFreshProbeCloses ==
    ASSUME MachineInv, [MachineNext]_machineVars,
           name # "closed", name' = "closed", closedBy' # "reset"
    PROVE  \E c \in fresh : /\ probe = c
                            /\ call[c] = "flying" /\ call'[c] = "idle"
                            /\ probeAge <= ProbeTimeout
<1>1. PICK c \in Calls : MachineReport(c)
  BY DEF MachineNext, Admit, GrantProbe, Abandoned, Recycled, DenyAndReclaim,
     Observe, Reclaim, EnterClosed, MachineTick, machineVars, positionVars
<1>2. PICK cause \in Causes : ProbePassed(c, cause, OutcomeOf(cause))
  BY <1>1 DEF MachineReport, EnterOpen, ProbeAbsorbed, ProbeFailed, Reclaim, positionVars
<1> QED BY <1>1, <1>2, MachineAssumption
        DEF MachineAssumption, MachineReport, Returned, ProbePassed, OwnsProbe, Expired,
            MachineInv, ProbeInv, MachineTypeOK

\* The slot is only handed out a cooldown after the last probe.
LEMMA OnlySpacedProbes ==
    ASSUME MachineInv, [MachineNext]_machineVars, probe' # probe, probe' # NoCall
    PROVE  sinceProbe >= Cooldown
<1>1. ASSUME NEW c \in Calls, MachineReport(c)
      PROVE  probe' \in {probe, NoCall}
  BY <1>1 DEF MachineReport, EnterOpen, ProbeAbsorbed, ProbeFailed, ProbePassed,
     Reclaim, EnterClosed, positionVars
<1>2. PICK c \in Calls : Admit(c)
  BY <1>1 DEF MachineNext, Abandoned, Recycled, DenyAndReclaim, Observe, Reclaim,
     EnterClosed, MachineTick, machineVars, positionVars
<1> QED BY <1>2, MachineAssumption
        DEF MachineAssumption, Admit, GrantProbe, Cooled, positionVars, MachineInv,
            ProbeInv, MachineTypeOK

-----------------------------------------------------------------------------
(* The consecutive-failure breaker *)

IInv == MachineInv /\ TypeOK /\ ClosedBelowThreshold

\* What a caller can report.
LEMMA OutcomeKinds ==
    \A cause \in Causes :
        OutcomeOf(cause) \in Healthy \cup {"serverFault", "gatewayTerminated"}
BY DEF Causes, OutcomeOf, Healthy

\* On the machine, a step of the strategy is one of the skeleton's steps.
LEMMA RunsOnMachine == [Next]_vars => [MachineNext]_machineVars
<1>1. ASSUME NEW c \in Calls, NEW cause \in Causes, Report(c, cause)
      PROVE  MachineReport(c)
  <2>1. ReportClosed(OutcomeOf(cause)) =>
            \/ name # "half-open" /\ UNCHANGED <<positionVars, historyVars>>
            \/ name = "closed" /\ EnterOpen
    BY OutcomeKinds DEF ReportClosed, Healthy
  <2> QED BY <1>1, <2>1 DEF Report, ReportHalfOpen, ReportOpen, MachineReport
<1>2. UNCHANGED vars => UNCHANGED machineVars
  BY DEF vars
<1> QED BY <1>1, <1>2 DEF Next, MachineNext, Allow, AllowDenied, StateOf, Abandon,
                          Recycle, Reset, Tick

\* A new breaker satisfies the invariant.
LEMMA Initially == Init => IInv
BY MachineInitially, ThresholdAssumption
   DEF ThresholdAssumption, Init, MachineInit, IInv, MachineInv, TypeOK,
       ClosedBelowThreshold

\* Every step keeps the failure count in bounds, and below the threshold
\* while closed.
LEMMA CountStep ==
    ASSUME IInv, [Next]_vars
    PROVE  failures' \in 0..FailThreshold /\ ClosedBelowThreshold'
<1> USE ThresholdAssumption DEF ThresholdAssumption, IInv, TypeOK, ClosedBelowThreshold
<1>1. ASSUME NEW c \in Calls, NEW cause \in Causes, Report(c, cause)
      PROVE  failures' \in 0..FailThreshold /\ ClosedBelowThreshold'
  <2>1. CASE ReportClosed(OutcomeOf(cause))
    <3>1. CASE OutcomeOf(cause) = "serverFault"
      BY <2>1, <3>1 DEF ReportClosed, Healthy, Trips, EnterOpen, positionVars
    <3>2. CASE OutcomeOf(cause) \in Healthy
      <4>1. failures' = 0
        BY <2>1, <3>2 DEF ReportClosed, Healthy
      <4> QED BY <4>1
    <3>3. CASE OutcomeOf(cause) = "gatewayTerminated"
      BY <2>1, <3>3 DEF ReportClosed, Healthy, positionVars
    <3> QED BY <3>1, <3>2, <3>3, OutcomeKinds
  <2>2. CASE ReportHalfOpen(c, cause)
    BY <2>2 DEF ReportHalfOpen, ProbeAbsorbed, ProbeFailed, ProbePassed, Reclaim,
       EnterClosed, DropFailures, positionVars
  <2>3. CASE ReportOpen
    BY <2>3 DEF ReportOpen, positionVars
  <2> QED BY <1>1, <2>1, <2>2, <2>3 DEF Report
<1>2. CASE Reset
  BY <1>2 DEF Reset, EnterClosed, DropFailures
<1>3. ASSUME UNCHANGED failures, name' = "closed" => name = "closed"
      PROVE  failures' \in 0..FailThreshold /\ ClosedBelowThreshold'
  BY <1>3
<1>4. ASSUME NEW c \in Calls, Allow(c) \/ Abandon(c) \/ Recycle(c)
      PROVE  UNCHANGED failures /\ (name' = "closed" => name = "closed")
  BY <1>4 DEF Allow, Abandon, Recycle, Admit, GrantProbe, Abandoned, Recycled, positionVars
<1>5. AllowDenied \/ StateOf \/ Tick \/ UNCHANGED vars =>
          UNCHANGED failures /\ (name' = "closed" => name = "closed")
  BY DEF AllowDenied, DenyAndReclaim, StateOf, Observe, Reclaim, Tick, MachineTick,
     vars, machineVars, positionVars
<1> QED BY <1>1, <1>2, <1>3, <1>4, <1>5 DEF Next

\* The invariant holds throughout.
LEMMA Invariance == Spec => []IInv
<1>1. IInv /\ [Next]_vars => IInv'
  BY CountStep, RunsOnMachine, MachineInductive DEF IInv, MachineInv, TypeOK
<1> QED BY <1>1, Initially, PTL DEF Spec

-----------------------------------------------------------------------------
\* Every variable keeps its type; the failure count never passes the
\* threshold, however late reports arrive.
THEOREM TypeCorrect == Spec => []TypeOK
<1>1. IInv => TypeOK
  BY DEF IInv
<1> QED BY <1>1, Invariance, PTL

\* A closed breaker is below its threshold: every way back to closed drops
\* the count that opened it.
THEOREM ClosedIsBelowThreshold == Spec => []ClosedBelowThreshold
<1>1. IInv => ClosedBelowThreshold
  BY DEF IInv
<1> QED BY <1>1, Invariance, PTL

\* The probe slot always has a holder that is still out.
THEOREM SlotIsHeld == Spec => []SlotHasHolder
<1>1. IInv => SlotHasHolder
  BY DEF IInv, MachineInv
<1> QED BY <1>1, Invariance, PTL

\* Only a probe admitted in this outage, reporting in time, closes the
\* breaker: reports of earlier admissions are absorbed.
THEOREM RecoversByFreshProbe == Spec => RecoveryByFreshProbe
<1>1. ASSUME IInv, [Next]_vars,
             name # "closed" /\ name' = "closed" /\ closedBy' # "reset"
      PROVE  \E c \in fresh : /\ probe = c
                              /\ call[c] = "flying" /\ call'[c] = "idle"
                              /\ probeAge <= ProbeTimeout
  BY <1>1, RunsOnMachine, OnlyFreshProbeCloses DEF IInv
<1> QED BY <1>1, Invariance, PTL DEF Spec, RecoveryByFreshProbe

\* Two probes of one outage are at least a cooldown apart.
THEOREM ProbesAreSpaced == Spec => ProbesSpaced
<1>1. ASSUME IInv, [Next]_vars, probe' # probe /\ probe' # NoCall
      PROVE  sinceProbe >= Cooldown
  BY <1>1, RunsOnMachine, OnlySpacedProbes DEF IInv
<1> QED BY <1>1, Invariance, PTL DEF Spec, ProbesSpaced

-----------------------------------------------------------------------------
(* The slow-call breaker *)

SlowInv == MachineInv /\ SlowTypeOK

\* On the machine, a step of the strategy is one of the skeleton's steps.
LEMMA SlowRunsOnMachine == [SlowNext]_slowVars => [MachineNext]_machineVars
<1>1. ASSUME NEW c \in Calls, NEW cause \in Causes, SlowReport(c, cause)
      PROVE  MachineReport(c)
  <2>1. SlowReportClosed(OutcomeOf(cause)) =>
            \/ name # "half-open" /\ UNCHANGED <<positionVars, historyVars>>
            \/ name = "closed" /\ EnterOpen
    BY DEF SlowReportClosed
  <2> QED BY <1>1, <2>1 DEF SlowReport, SlowReportHalfOpen, SlowReportOpen, MachineReport
<1>2. UNCHANGED slowVars => UNCHANGED machineVars
  BY DEF slowVars
<1> QED BY <1>1, <1>2 DEF SlowNext, MachineNext, SlowAllow, SlowAllowDenied, SlowStateOf, SlowAbandon,
                          SlowRecycle, SlowReset, SlowTick

\* A quotient is between its multiples.
LEMMA Quotient ==
    ASSUME NEW a \in Nat, NEW b \in Nat \ {0}
    PROVE  /\ a \div b \in Nat
           /\ (a \div b) * b <= a /\ a < (a \div b + 1) * b
           /\ a % b = a - (a \div b) * b /\ a % b \in 0..(b - 1)
OBVIOUS

\* What a roll finds and leaves.
LEMMA RollTypes ==
    ASSUME WindowTypeOK
    PROVE  /\ Passed \in Nat /\ lag - Passed * Span \in 0..lag
           /\ Cursor \in Slots
           /\ Rolled \in [Slots -> [Kinds -> 0..MaxCount]]
<1> USE WindowAssumption DEF WindowAssumption
<1>1. lag \in Nat /\ offset \in Nat
  BY DEF WindowTypeOK, Slots
<1>2. Elapsed \in Nat /\ Elapsed * Span <= lag
  BY <1>1, Quotient DEF Elapsed
<1>3. Passed \in Nat /\ Passed <= Elapsed
  BY <1>2 DEF Passed
<1>4. Passed * Span \in Nat /\ Passed * Span <= Elapsed * Span
  BY <1>2, <1>3
<1>5. lag - Passed * Span \in 0..lag
  BY <1>1, <1>2, <1>4
<1>6. Cursor \in Slots
  BY <1>1, <1>3 DEF Cursor, Slots
<1>7. Rolled \in [Slots -> [Kinds -> 0..MaxCount]]
  BY DEF Rolled, Empty, WindowTypeOK
<1> QED BY <1>3, <1>5, <1>6, <1>7

\* A recorded completion stays inside the ring and within its bound.
LEMMA RecordTypes ==
    ASSUME WindowTypeOK, NEW k \in Kinds, Record(k)
    PROVE  WindowTypeOK'
<1> USE WindowAssumption DEF WindowAssumption
<1>1. /\ Cursor \in Slots /\ 0 \in Slots
      /\ Rolled \in [Slots -> [Kinds -> 0..MaxCount]]
      /\ recent \in [Slots -> [Kinds -> 0..MaxCount]]
      /\ lag' \in 0..lag
  BY RollTypes DEF Record, WindowTypeOK, Slots
<1>2. Rolled[Cursor][k] + 1 \in 0..MaxCount /\ recent[0][k] + 1 \in 0..MaxCount
  BY <1>1 DEF Record
<1>3. ring' \in [Slots -> [Kinds -> 0..MaxCount]]
  BY <1>1, <1>2 DEF Record
<1>4. recent' \in [Slots -> [Kinds -> 0..MaxCount]]
  BY <1>1, <1>2 DEF Record
<1>5. offset' \in Slots /\ lag' \in 0..MaxLag /\ overrun' \in BOOLEAN
  BY <1>1 DEF Record, WindowTypeOK
<1> QED BY <1>3, <1>4, <1>5 DEF WindowTypeOK

\* An empty ring is a ring.
LEMMA ClearedTypes == Cleared \in [Slots -> [Kinds -> 0..MaxCount]]
<1>1. Empty \in [Kinds -> 0..MaxCount]
  BY WindowAssumption DEF WindowAssumption, Empty
<1> QED BY <1>1 DEF Cleared

\* Clearing, with or without the clock, keeps the window's types.
LEMMA ClearTypes ==
    ASSUME WindowTypeOK, ClearWindow \/ RestartWindow
    PROVE  WindowTypeOK'
<1>1. lag' \in 0..MaxLag
  BY WindowAssumption DEF WindowAssumption, ClearWindow, RestartWindow, WindowTypeOK
<1> QED BY <1>1, ClearedTypes DEF ClearWindow, RestartWindow, WindowTypeOK

\* The passing of time keeps the window's types.
LEMMA WindowTickTypes ==
    ASSUME WindowTypeOK, WindowTick
    PROVE  WindowTypeOK'
<1> USE WindowAssumption DEF WindowAssumption
<1>1. lag' \in 0..MaxLag
  BY DEF WindowTick, WindowTypeOK
<1>2. recent' \in [Slots -> [Kinds -> 0..MaxCount]]
  <2>1. \A i \in Slots : i # 0 => i - 1 \in Slots
    BY DEF Slots
  <2>2. Empty \in [Kinds -> 0..MaxCount]
    BY DEF Empty
  <2> QED BY <2>1, <2>2 DEF WindowTick, WindowTypeOK
<1> QED BY <1>1, <1>2 DEF WindowTick, WindowTypeOK

-----------------------------------------------------------------------------
\* A new breaker satisfies the invariant.
LEMMA SlowInitially == SlowInit => SlowInv
<1>1. SlowInit => WindowTypeOK
  <2>1. 0 \in Slots /\ 0 \in 0..MaxLag
    BY WindowAssumption DEF WindowAssumption, Slots
  <2> QED BY <2>1, ClearedTypes DEF SlowInit, WindowInit, WindowTypeOK
<1> QED BY <1>1, MachineInitially, SlowAssumption
        DEF SlowAssumption, SlowInit, SlowInv, MachineInv, SlowTypeOK

\* Every step keeps the types of the evidence.
LEMMA EvidenceStep ==
    ASSUME SlowInv, [SlowNext]_slowVars
    PROVE  WindowTypeOK' /\ heard' \in 0..MinSamples
<1> USE SlowAssumption DEF SlowAssumption, SlowInv, SlowTypeOK
<1>1. ASSUME UNCHANGED <<windowVars, heard>>
      PROVE  WindowTypeOK' /\ heard' \in 0..MinSamples
  BY <1>1 DEF windowVars, WindowTypeOK
<1>2. ASSUME NEW c \in Calls, NEW cause \in Causes, SlowReport(c, cause)
      PROVE  WindowTypeOK' /\ heard' \in 0..MinSamples
  <2>1. CASE SlowReportClosed(OutcomeOf(cause))
    <3>1. KindOf(OutcomeOf(cause)) \in Kinds
      BY DEF KindOf
    <3>2. CASE Record(KindOf(OutcomeOf(cause)))
               /\ heard' = IF heard < MinSamples THEN heard + 1 ELSE heard
      BY <3>1, <3>2, RecordTypes
    <3> QED BY <2>1, <3>2, <1>1 DEF SlowReportClosed
  <2>2. CASE SlowReportHalfOpen(c, cause)
    BY <2>2, <1>1, ClearTypes DEF SlowReportHalfOpen, DropEvidence
  <2>3. CASE SlowReportOpen
    BY <2>3, <1>1 DEF SlowReportOpen
  <2> QED BY <1>2, <2>1, <2>2, <2>3 DEF SlowReport
<1>3. CASE SlowReset
  BY <1>3, ClearTypes DEF SlowReset
<1>4. CASE SlowTick
  BY <1>4, WindowTickTypes DEF SlowTick
<1> QED BY <1>1, <1>2, <1>3, <1>4
        DEF SlowNext, SlowAllow, SlowAbandon, SlowRecycle, SlowAllowDenied, SlowStateOf, slowVars

\* The invariant holds throughout.
LEMMA SlowInvariance == SlowSpec => []SlowInv
<1>1. SlowInv /\ [SlowNext]_slowVars => SlowInv'
  BY EvidenceStep, SlowRunsOnMachine, MachineInductive DEF SlowInv, MachineInv, SlowTypeOK
<1> QED BY <1>1, SlowInitially, PTL DEF SlowSpec

-----------------------------------------------------------------------------
\* Every variable keeps its type: the ring's cursor never leaves the ring,
\* its clock never runs ahead of now.
LEMMA SlowTypeCorrect == SlowSpec => []SlowTypeOK
<1>1. SlowInv => SlowTypeOK
  BY DEF SlowInv
<1> QED BY <1>1, SlowInvariance, PTL

\* The probe slot always has a holder that is still out.
THEOREM SlowSlotIsHeld == SlowSpec => []SlotHasHolder
<1>1. SlowInv => SlotHasHolder
  BY DEF SlowInv, MachineInv
<1> QED BY <1>1, SlowInvariance, PTL

\* Only a probe admitted in this outage, reporting in time, closes the
\* breaker.
THEOREM SlowRecoversByFreshProbe == SlowSpec => RecoveryByFreshProbe
<1>1. ASSUME SlowInv, [SlowNext]_slowVars,
             name # "closed" /\ name' = "closed" /\ closedBy' # "reset"
      PROVE  \E c \in fresh : /\ probe = c
                              /\ call[c] = "flying" /\ call'[c] = "idle"
                              /\ probeAge <= ProbeTimeout
  BY <1>1, SlowRunsOnMachine, OnlyFreshProbeCloses DEF SlowInv
<1> QED BY <1>1, SlowInvariance, PTL DEF SlowSpec, RecoveryByFreshProbe

-----------------------------------------------------------------------------
(* Counting with a ring *)

\* Products grow with their factors.
LEMMA ProductGrows ==
    ASSUME NEW a \in Nat, NEW b \in Nat, NEW c \in Nat, a <= b
    PROVE  a * c <= b * c /\ a * c \in Nat /\ b * c \in Nat
<1>1. PICK x \in Nat : b = a + x
  <2>1. b - a \in Nat /\ b = a + (b - a)
    OBVIOUS
  <2> QED BY <2>1
<1>2. (a + x) * c = a * c + x * c
  OBVIOUS
<1>3. a * c \in Nat /\ x * c \in Nat
  OBVIOUS
<1> QED BY <1>1, <1>2, <1>3

\* A quotient is the only number whose multiples enclose the dividend.
LEMMA QuotientIs ==
    ASSUME NEW a \in Nat, NEW b \in Nat \ {0}, NEW q \in Nat,
           q * b <= a, a < (q + 1) * b
    PROVE  a \div b = q
<1>1. PICK d \in Nat : d = a \div b /\ d * b <= a /\ a < (d + 1) * b
  BY Quotient
<1>2. ~(d + 1 <= q)
  BY <1>1, ProductGrows
<1>3. ~(q + 1 <= d)
  BY <1>1, ProductGrows
<1> QED BY <1>1, <1>2, <1>3

\* Taking whole buckets off the clock takes them off the quotient.
LEMMA QuotientLess ==
    ASSUME NEW a \in Nat, NEW b \in Nat \ {0}, NEW p \in Nat, p <= a \div b
    PROVE  a - p * b \in Nat /\ (a - p * b) \div b = a \div b - p
<1>1. PICK d \in Nat : d = a \div b /\ d * b <= a /\ a < (d + 1) * b
  BY Quotient
<1>2. PICK q \in Nat : d = q + p
  <2>1. d - p \in Nat /\ d = (d - p) + p
    BY <1>1
  <2> QED BY <2>1
<1>3. d * b = q * b + p * b /\ (d + 1) * b = (q + 1) * b + p * b
  BY <1>2
<1>4. q * b \in Nat /\ p * b \in Nat /\ (q + 1) * b \in Nat
  OBVIOUS
<1>5. a - p * b \in Nat /\ q * b <= a - p * b /\ a - p * b < (q + 1) * b
  BY <1>1, <1>3, <1>4
<1>6. (a - p * b) \div b = q
  BY <1>5, QuotientIs
<1> QED BY <1>1, <1>2, <1>5, <1>6

\* A tick completes a bucket exactly when the clock reaches a multiple.
LEMMA QuotientNext ==
    ASSUME NEW a \in Nat, NEW b \in Nat \ {0}
    PROVE  (a + 1) \div b = IF (a + 1) % b # 0 THEN a \div b ELSE a \div b + 1
<1>1. PICK d \in Nat : d = a \div b /\ d * b <= a /\ a < (d + 1) * b
  BY Quotient
<1>2. /\ d * b \in Nat /\ (d + 1) * b \in Nat /\ (d + 1) * b = d * b + b
      /\ (d + 2) * b = (d + 1) * b + b
  OBVIOUS
<1>3. (a + 1) % b = (a + 1) - ((a + 1) \div b) * b
  BY Quotient
<1>4. CASE a + 1 < (d + 1) * b
  <2>0. a + 1 \in Nat /\ d * b <= a + 1
    BY <1>1, <1>2
  <2>1. (a + 1) \div b = d
    BY <1>4, <2>0, QuotientIs
  <2>2. (a + 1) % b = (a + 1) - d * b
    BY <1>3, <2>1
  <2> QED BY <1>1, <1>2, <2>1, <2>2
<1>5. CASE a + 1 = (d + 1) * b
  <2>1. (a + 1) \div b = d + 1
    BY <1>2, <1>5, QuotientIs
  <2>2. (a + 1) % b = (a + 1) - (d + 1) * b
    BY <1>3, <2>1
  <2> QED BY <1>1, <1>2, <1>5, <2>1, <2>2
<1> QED BY <1>1, <1>2, <1>4, <1>5

\* Going round the ring at most once.
LEMMA Around ==
    ASSUME NEW b \in Nat \ {0}, NEW x \in Nat, x < b + b
    PROVE  x % b = IF x < b THEN x ELSE x - b
<1>1. x % b = x - (x \div b) * b
  BY Quotient
<1>2. CASE x < b
  <2>1. 0 * b = 0 /\ (0 + 1) * b = b
    OBVIOUS
  <2>2. x \div b = 0
    BY <1>2, <2>1, QuotientIs
  <2> QED BY <1>1, <1>2, <2>1, <2>2
<1>3. CASE ~(x < b)
  <2>1. 1 * b = b /\ (1 + 1) * b = b + b
    OBVIOUS
  <2>2. x \div b = 1
    BY <1>3, <2>1, QuotientIs
  <2> QED BY <1>1, <1>3, <2>1, <2>2
<1> QED BY <1>2, <1>3

-----------------------------------------------------------------------------
(* The geometry of the ring *)

\* How many buckets slot i lies behind a cursor at slot o.  It is its own
\* inverse: it also says which slot lies i buckets behind.
Behind(o, i) == IF i <= o THEN o - i ELSE o + Buckets - i

\* The age of a slot in buckets, by the clock of the ring.
Old(i) == Behind(offset, i) + Elapsed

\* The slots of some age or less.
Young(a) == {i \in Slots : Old(i) <= a}

LEMMA BehindIn ==
    ASSUME NEW o \in Slots, NEW i \in Slots
    PROVE  /\ Behind(o, i) \in Slots /\ Behind(o, Behind(o, i)) = i
           /\ Behind(o, i) = 0 <=> i = o
BY WindowAssumption DEF WindowAssumption, Behind, Slots

LEMMA OldIn ==
    ASSUME WindowTypeOK
    PROVE  Elapsed \in Nat /\ \A i \in Slots : Old(i) \in Nat
<1>1. Elapsed \in Nat
  <2>1. lag \in Nat /\ Span \in Nat \ {0}
    BY WindowAssumption DEF WindowAssumption, WindowTypeOK
  <2> QED BY <2>1, Quotient DEF Elapsed
<1>2. offset \in Slots /\ Slots \subseteq Nat
  BY DEF WindowTypeOK, Slots
<1>3. \A i \in Slots : Behind(offset, i) \in Nat
  BY <1>2, BehindIn
<1> QED BY <1>1, <1>3 DEF Old

\* A read touches exactly the slots younger than the window.
LEMMA LiveIsYoung ==
    ASSUME WindowTypeOK
    PROVE  Live = Young(Buckets - 1)
<1> USE WindowAssumption DEF WindowAssumption
<1>1. offset \in Slots /\ lag \in Nat /\ Buckets \in Nat \ {0} /\ Span \in Nat \ {0}
  BY DEF WindowTypeOK
<1>2. PICK e \in Nat : e = Elapsed
  BY <1>1, Quotient DEF Elapsed
<1>3. ASSUME NEW i \in 0..(Buckets - e - 1)
      PROVE  /\ (offset + e + 1 + i) % Buckets \in Slots
             /\ Behind(offset, (offset + e + 1 + i) % Buckets) = Buckets - 1 - e - i
  <2>1. PICK x \in Nat : x = offset + e + 1 + i /\ x < Buckets + Buckets
    BY <1>1 DEF Slots
  <2>2. x % Buckets = IF x < Buckets THEN x ELSE x - Buckets
    BY <1>1, <2>1, Around
  <2> HIDE DEF Behind
  <2>3. CASE x < Buckets
    <3>1. x \in Slots /\ Behind(offset, x) = Buckets - 1 - e - i
      BY <1>1, <2>1, <2>3 DEF Slots, Behind
    <3> QED BY <2>1, <2>2, <2>3, <3>1
  <2>4. CASE ~(x < Buckets)
    <3>1. x - Buckets \in Slots /\ Behind(offset, x - Buckets) = Buckets - 1 - e - i
      BY <1>1, <2>1, <2>4 DEF Slots, Behind
    <3> QED BY <2>1, <2>2, <2>4, <3>1
  <2> QED BY <2>3, <2>4
<1>4. ASSUME NEW s \in Live PROVE s \in Young(Buckets - 1)
  <2>1. PICK i \in 0..(Buckets - e - 1) : s = (offset + e + 1 + i) % Buckets
    BY <1>2 DEF Live
  <2> QED BY <1>1, <1>2, <1>3, <2>1 DEF Young, Old
<1>5. ASSUME NEW s \in Young(Buckets - 1) PROVE s \in Live
  <2>1. s \in Slots /\ Behind(offset, s) \in Slots /\ Behind(offset, s) + e <= Buckets - 1
    BY <1>1, <1>2, BehindIn DEF Young, Old
  <2>2. PICK i \in 0..(Buckets - e - 1) : i = Buckets - 1 - e - Behind(offset, s)
    BY <1>1, <2>1 DEF Slots
  <2>5. Buckets - 1 - e - i = Behind(offset, s)
    BY <1>1, <2>1, <2>2 DEF Slots
  <2>3. PICK x \in Slots : x = (offset + e + 1 + i) % Buckets /\ Behind(offset, x) = Behind(offset, s)
    BY <1>3, <2>5
  <2>4. x = s
    BY <1>1, <2>1, <2>3, BehindIn
  <2> QED BY <1>2, <2>3, <2>4 DEF Live
<1> QED BY <1>4, <1>5

\* A roll: the slots the cursor passes come to lie within the buckets it
\* passed, all the others keep their age.
LEMMA RollAges ==
    ASSUME WindowTypeOK
    PROVE  /\ Cursor \in Slots /\ Passed \in 0..Buckets /\ Passed <= Elapsed
           /\ \A i \in Slots :
                IF \E j \in 1..Passed : i = (offset + j) % Buckets
                THEN Behind(Cursor, i) < Passed
                ELSE Behind(Cursor, i) = Behind(offset, i) + Passed
<1> USE WindowAssumption DEF WindowAssumption
<1>1. offset \in Slots /\ lag \in Nat /\ Buckets \in Nat \ {0} /\ Span \in Nat \ {0}
  BY DEF WindowTypeOK
<1>2. Elapsed \in Nat
  BY <1>1, Quotient DEF Elapsed
<1>3. PICK p \in 0..Buckets : p = Passed /\ p <= Elapsed
  BY <1>1, <1>2 DEF Passed
<1>4. ASSUME NEW j \in 0..p
      PROVE  (offset + j) % Buckets = IF offset + j < Buckets THEN offset + j
                                      ELSE offset + j - Buckets
  <2>1. PICK x \in Nat : x = offset + j /\ x < Buckets + Buckets
    BY <1>1 DEF Slots
  <2>2. x % Buckets = IF x < Buckets THEN x ELSE x - Buckets
    BY <1>1, <2>1, Around
  <2>3. (offset + j) % Buckets = x % Buckets
    BY <2>1
  <2>4. offset \in Nat /\ offset + j - Buckets = x - Buckets
    BY <1>1, <2>1 DEF Slots
  <2>5. CASE x < Buckets
    BY <2>1, <2>2, <2>3, <2>5
  <2>6. CASE ~(x < Buckets)
    BY <2>1, <2>2, <2>3, <2>4, <2>6
  <2> QED BY <2>5, <2>6
<1>5. Cursor = IF offset + p < Buckets THEN offset + p ELSE offset + p - Buckets
  BY <1>3, <1>4 DEF Cursor
<1>6. Cursor \in Slots
  BY <1>1, <1>5 DEF Slots
<1>7. ASSUME NEW i \in Slots, NEW j \in 1..p, i = (offset + j) % Buckets
      PROVE  Behind(Cursor, i) < p
  <2>1. i = IF offset + j < Buckets THEN offset + j ELSE offset + j - Buckets
    BY <1>4, <1>7
  <2> QED BY <1>1, <1>5, <2>1 DEF Behind, Slots
<1>8. ASSUME NEW i \in Slots, ~ \E j \in 1..p : i = (offset + j) % Buckets
      PROVE  Behind(Cursor, i) = Behind(offset, i) + p
  <2>1. CASE i > offset
    <3>1. ~(i - offset <= p)
      <4>1. ASSUME NEW j \in 1..p, j = i - offset PROVE FALSE
        <5>1. (offset + j) % Buckets = i
          BY <1>1, <1>4, <2>1, <4>1 DEF Slots
        <5> QED BY <1>8, <5>1
      <4>2. i - offset <= p => i - offset \in 1..p
        BY <1>1, <2>1 DEF Slots
      <4> QED BY <4>1, <4>2
    <3> QED BY <1>1, <1>5, <2>1, <3>1 DEF Behind, Slots
  <2>2. CASE i <= offset
    <3>1. ~(i + Buckets - offset <= p)
      <4>1. ASSUME NEW j \in 1..p, j = i + Buckets - offset PROVE FALSE
        <5>1. (offset + j) % Buckets = i
          BY <1>1, <1>4, <2>2, <4>1 DEF Slots
        <5> QED BY <1>8, <5>1
      <4>2. i + Buckets - offset <= p => i + Buckets - offset \in 1..p
        BY <1>1, <2>2 DEF Slots
      <4> QED BY <4>1, <4>2
    <3> QED BY <1>1, <1>5, <2>2, <3>1 DEF Behind, Slots
  <2> QED BY <1>1, <2>1, <2>2 DEF Slots
<1> QED BY <1>3, <1>6, <1>7, <1>8

-----------------------------------------------------------------------------
(* What the ring holds, against the clock *)

\* A tally is finite.
LEMMA TallyFinite ==
    ASSUME NEW b, NEW S \in SUBSET Slots, NEW k
    PROVE  IsFiniteSet(Tally(b, S, k)) /\ Cardinality(Tally(b, S, k)) \in Nat
<1>1. IsFiniteSet(0..(Buckets - 1)) /\ IsFiniteSet(1..MaxCount)
  BY FS_Interval, WindowAssumption DEF WindowAssumption
<1>2. IsFiniteSet(S)
  BY <1>1, FS_Subset DEF Slots
<1>3. IsFiniteSet(S \X (1..MaxCount))
  BY <1>1, <1>2, FS_Product
<1>4. Tally(b, S, k) \in SUBSET (S \X (1..MaxCount))
  BY DEF Tally
<1> QED BY <1>3, <1>4, FS_Subset, FS_CardinalityType

\* Buckets that are moved somewhere else, each to a place of its own, and
\* lose nothing on the way hold no more than they did there.
LEMMA TallyMoves ==
    ASSUME NEW b, NEW c, NEW S \in SUBSET Slots, NEW T \in SUBSET Slots, NEW k,
           NEW m \in [S -> T], \A x, y \in S : m[x] = m[y] => x = y,
           \A x \in S : \A n \in 1..MaxCount : n <= b[x][k] => n <= c[m[x]][k]
    PROVE  Cardinality(Tally(b, S, k)) <= Cardinality(Tally(c, T, k))
<1> DEFINE f == [e \in Tally(b, S, k) |-> <<m[e[1]], e[2]>>]
<1>1. \A e \in Tally(b, S, k) :
        e[1] \in S /\ e[2] \in 1..MaxCount /\ e = <<e[1], e[2]>> /\ e[2] <= b[e[1]][k]
  BY DEF Tally
<1>2. ASSUME NEW e \in Tally(b, S, k) PROVE f[e] \in Tally(c, T, k)
  <2>1. <<m[e[1]], e[2]>> \in T \X (1..MaxCount) /\ e[2] <= c[m[e[1]]][k]
    BY <1>1
  <2> QED BY <2>1 DEF Tally
<1>3. f \in [Tally(b, S, k) -> Tally(c, T, k)]
  BY <1>2
<1>4. \A x, y \in Tally(b, S, k) : f[x] = f[y] => x = y
  BY <1>1
<1> HIDE DEF f
<1>5. f \in Injection(Tally(b, S, k), Tally(c, T, k))
  BY <1>3, <1>4, Fun_IsInj
<1> QED BY <1>5, TallyFinite, FS_Injection

\* One more element at most.
LEMMA TallyGrows ==
    ASSUME NEW b, NEW c, NEW S \in SUBSET Slots, NEW T \in SUBSET Slots, NEW k, NEW z,
           Tally(c, T, k) \subseteq Tally(b, S, k) \cup {z}
    PROVE  Cardinality(Tally(c, T, k)) <= Cardinality(Tally(b, S, k)) + 1
<1>1. IsFiniteSet(Tally(b, S, k)) /\ Cardinality(Tally(b, S, k)) \in Nat
      /\ Cardinality(Tally(c, T, k)) \in Nat
  BY TallyFinite
<1>2. /\ IsFiniteSet(Tally(b, S, k) \cup {z})
      /\ \/ Cardinality(Tally(b, S, k) \cup {z}) = Cardinality(Tally(b, S, k))
         \/ Cardinality(Tally(b, S, k) \cup {z}) = Cardinality(Tally(b, S, k)) + 1
  BY <1>1, FS_AddElement
<1>3. Cardinality(Tally(c, T, k)) <= Cardinality(Tally(b, S, k) \cup {z})
  BY <1>2, FS_Subset
<1> QED BY <1>1, <1>2, <1>3

\* The slots a roll wipes.
Wiped(i) == \E j \in 1..Passed : i = (offset + j) % Buckets

\* What a recorded completion does to the ring and to the reference.
LEMMA RecordMoves ==
    ASSUME WindowTypeOK, NEW k \in Kinds, Record(k)
    PROVE  /\ Cursor \in Slots /\ 0 \in Slots /\ Passed \in Nat
           /\ Elapsed' \in Nat /\ Elapsed \in Nat /\ Elapsed' = Elapsed - Passed
           /\ \A i \in Slots : Wiped(i) => Rolled[i] = Empty /\ Behind(Cursor, i) < Passed
           /\ \A i \in Slots : ~Wiped(i) => Rolled[i] = ring[i] /\ Old(i)' = Old(i)
           /\ \A i \in Slots, h \in Kinds :
                ring'[i][h] = IF i = Cursor /\ h = k THEN Rolled[i][h] + 1 ELSE Rolled[i][h]
           /\ \A i \in Slots, h \in Kinds :
                recent'[i][h] = IF i = 0 /\ h = k THEN recent[i][h] + 1 ELSE recent[i][h]
<1> USE WindowAssumption DEF WindowAssumption
<1>1. offset \in Slots /\ lag \in Nat /\ 0 \in Slots
  BY DEF WindowTypeOK, Slots
<1>2. Cursor \in Slots /\ Passed \in Nat /\ Passed <= lag \div Span
  BY RollAges DEF Elapsed
<1>3. lag \div Span \in Nat /\ lag' = lag - Passed * Span
  BY <1>1, Quotient DEF Record
<1>4. Elapsed' \in Nat /\ Elapsed \in Nat /\ Elapsed' = Elapsed - Passed
  <2>1. (lag - Passed * Span) \div Span = lag \div Span - Passed
    BY <1>1, <1>2, QuotientLess
  <2>2. Elapsed' = lag' \div Span
    BY DEF Elapsed
  <2> QED BY <1>2, <1>3, <2>1, <2>2 DEF Elapsed
<1>5. \A i \in Slots : Wiped(i) => Rolled[i] = Empty /\ Behind(Cursor, i) < Passed
  BY RollAges DEF Wiped, Rolled
<1>6. ASSUME NEW i \in Slots, ~Wiped(i) PROVE Rolled[i] = ring[i] /\ Old(i)' = Old(i)
  <2>1. Rolled[i] = ring[i]
    BY <1>6 DEF Wiped, Rolled
  <2>2. Behind(Cursor, i) = Behind(offset, i) + Passed
    BY <1>6, RollAges DEF Wiped
  <2>3. Old(i)' = Behind(Cursor, i) + Elapsed'
    BY DEF Old, Behind, Record
  <2>4. Behind(offset, i) \in Nat
    BY <1>1, BehindIn DEF Slots
  <2> QED BY <1>2, <1>4, <2>1, <2>2, <2>3, <2>4 DEF Old
<1>7. \A i \in Slots, h \in Kinds :
        ring'[i][h] = IF i = Cursor /\ h = k THEN Rolled[i][h] + 1 ELSE Rolled[i][h]
  <2>1. Rolled \in [Slots -> [Kinds -> 0..MaxCount]]
    BY RollTypes
  <2> QED BY <1>2, <2>1 DEF Record
<1>8. \A i \in Slots, h \in Kinds :
        recent'[i][h] = IF i = 0 /\ h = k THEN recent[i][h] + 1 ELSE recent[i][h]
  BY <1>1 DEF Record, WindowTypeOK
<1> QED BY <1>1, <1>2, <1>4, <1>5, <1>6, <1>7, <1>8

\* Of no age does the ring hold more completions, this age or less, than the
\* clock knows.  It is not enough to say so of the whole window: the ring may
\* take a completion for older than it is, and must not for younger.
Dominated ==
    \A k \in Kinds : \A a \in Slots :
        Cardinality(Tally(ring, Young(a), k)) <= Cardinality(Tally(recent, 0..a, k))

\* While no idle time outran the ring, it is the reference: bucket by bucket,
\* and nothing happened since the last write.
Aligned ==
    ~overrun =>
        /\ \A g \in Slots : g < Elapsed => recent[g] = Empty
        /\ \A i \in Slots : Old(i) \in Slots => ring[i] = recent[Old(i)]

RingInv == WindowTypeOK /\ Dominated /\ Aligned

\* The window starts over.
Emptied ==
    /\ ring' = Cleared /\ recent' = Cleared
    /\ overrun' = FALSE
    /\ offset' \in Slots /\ lag' \in 0..MaxLag

\* The ages up to a are slots, and so are the slots of these ages.
LEMMA AgesAreSlots ==
    ASSUME NEW a \in Slots
    PROVE  0..a \in SUBSET Slots /\ Young(a) \in SUBSET Slots /\ Young(a)' \in SUBSET Slots
BY WindowAssumption DEF WindowAssumption, Slots, Young

\* A completion enters the ring at the age its clock shows and the reference
\* at age zero.
LEMMA RecordDominated ==
    ASSUME RingInv, NEW k \in Kinds, Record(k)
    PROVE  Dominated'
<1> USE DEF RingInv
<1> SUFFICES ASSUME NEW h \in Kinds, NEW a \in Slots
             PROVE  Cardinality(Tally(ring', Young(a)', h)) <= Cardinality(Tally(recent', 0..a, h))
  BY DEF Dominated
<1>1. WindowTypeOK'
  BY RecordTypes
<1>2. /\ 0..a \in SUBSET Slots /\ Young(a) \in SUBSET Slots /\ Young(a)' \in SUBSET Slots
      /\ 0 \in 0..a
  BY AgesAreSlots, WindowAssumption DEF WindowAssumption, Slots
<1>3. Cardinality(Tally(ring, Young(a), h)) <= Cardinality(Tally(recent, 0..a, h))
  BY DEF Dominated
<1>4. ASSUME NEW e \in Tally(ring', Young(a)', h), ~(e[1] = Cursor /\ h = k)
      PROVE  e \in Tally(ring, Young(a), h)
  <2>1. /\ e \in Young(a)' \X (1..MaxCount) /\ e[2] <= ring'[e[1]][h]
        /\ e[1] \in Young(a)' /\ e[2] \in 1..MaxCount /\ e = <<e[1], e[2]>>
    BY DEF Tally
  <2>2. e[1] \in Slots /\ Old(e[1])' <= a
    <3>1. Young(a)' = {i \in Slots : Old(i)' <= a}
      BY DEF Young
    <3> QED BY <2>1, <3>1
  <2>3. ring'[e[1]][h] = Rolled[e[1]][h]
    BY <1>4, <2>2, RecordMoves
  <2>4. ~Wiped(e[1])
    <3>1. Rolled[e[1]] # Empty
      BY <2>1, <2>3 DEF Empty
    <3> QED BY <2>2, <3>1, RecordMoves
  <2>5. Rolled[e[1]] = ring[e[1]] /\ Old(e[1])' = Old(e[1])
    BY <2>2, <2>4, RecordMoves
  <2>6. e[1] \in Young(a) /\ e[2] <= ring[e[1]][h]
    BY <2>1, <2>2, <2>3, <2>5 DEF Young
  <2> QED BY <2>1, <2>6 DEF Tally
<1>5. CASE h # k
  <2>1. Tally(ring', Young(a)', h) \in SUBSET Tally(ring, Young(a), h)
    BY <1>4, <1>5
  <2>2. Cardinality(Tally(ring', Young(a)', h)) <= Cardinality(Tally(ring, Young(a), h))
    BY <1>2, <2>1, TallyFinite, FS_Subset
  <2>3. \A g \in 0..a : recent'[g][h] = recent[g][h]
    BY <1>2, <1>5, RecordMoves
  <2>4. Tally(recent', 0..a, h) = Tally(recent, 0..a, h)
    BY <2>3 DEF Tally
  <2>5. Cardinality(Tally(ring', Young(a)', h)) \in Nat
        /\ Cardinality(Tally(ring, Young(a), h)) \in Nat
        /\ Cardinality(Tally(recent, 0..a, h)) \in Nat
    BY <1>2, TallyFinite
  <2> QED BY <1>3, <2>2, <2>4, <2>5
<1>6. CASE h = k
  <2> DEFINE y == <<0, recent[0][k] + 1>>
             z == <<Cursor, Rolled[Cursor][k] + 1>>
  <2>1. Cursor \in Slots /\ 0 \in Slots /\ recent[0][k] \in Nat /\ recent[0][k] + 1 \in 1..MaxCount
        /\ Rolled[Cursor][k] \in Nat
    <3>1. Cursor \in Slots /\ 0 \in Slots /\ recent \in [Slots -> [Kinds -> 0..MaxCount]]
          /\ Rolled \in [Slots -> [Kinds -> 0..MaxCount]]
      BY RecordMoves, RollTypes DEF WindowTypeOK
    <3>2. recent[0][k] \in 0..MaxCount /\ Rolled[Cursor][k] \in 0..MaxCount
      BY <3>1
    <3>3. recent[0][k] < MaxCount /\ MaxCount \in Nat
      BY WindowAssumption DEF WindowAssumption, Record
    <3> QED BY <3>1, <3>2, <3>3
  <2>2. Tally(ring', Young(a)', h) \subseteq Tally(ring, Young(a), h) \cup {z}
    <3>1. ASSUME NEW e \in Tally(ring', Young(a)', h), e[1] = Cursor, e # z
          PROVE  e \in Tally(ring, Young(a), h)
      <4>1. /\ e[1] \in Young(a)' /\ e[2] \in 1..MaxCount /\ e = <<e[1], e[2]>>
            /\ e[2] <= ring'[e[1]][h]
        BY DEF Tally
      <4>2. ring'[Cursor][h] = Rolled[Cursor][h] + 1
        BY <1>6, <2>1, RecordMoves
      <4>3. e[2] <= Rolled[Cursor][h]
        BY <1>6, <2>1, <3>1, <4>1, <4>2
      <4>4. e[1] \in Slots /\ Old(e[1])' <= a
        <5>1. Young(a)' = {i \in Slots : Old(i)' <= a}
          BY DEF Young
        <5> QED BY <4>1, <5>1
      <4>5. ~Wiped(e[1])
        <5>1. Rolled[e[1]] # Empty
          BY <1>6, <3>1, <4>1, <4>3 DEF Empty
        <5> QED BY <4>4, <5>1, RecordMoves
      <4>6. Rolled[e[1]] = ring[e[1]] /\ Old(e[1])' = Old(e[1])
        BY <4>4, <4>5, RecordMoves
      <4>7. e[1] \in Young(a) /\ e[2] <= ring[e[1]][h]
        BY <3>1, <4>3, <4>4, <4>6 DEF Young
      <4> QED BY <4>1, <4>7 DEF Tally
    <3> QED BY <1>4, <3>1
  <2>3. Cardinality(Tally(ring', Young(a)', h)) <= Cardinality(Tally(ring, Young(a), h)) + 1
    BY <1>2, <2>2, TallyGrows
  <2>4. y \notin Tally(recent, 0..a, h)
    BY <1>6, <2>1 DEF Tally
  <2>5. Tally(recent, 0..a, h) \cup {y} \in SUBSET Tally(recent', 0..a, h)
    <3>1. recent'[0][h] = recent[0][h] + 1 /\ \A g \in 0..a : g # 0 => recent'[g][h] = recent[g][h]
      BY <1>2, <1>6, <2>1, RecordMoves
    <3>2. y \in Tally(recent', 0..a, h)
      BY <1>2, <1>6, <2>1, <3>1 DEF Tally
    <3>3. ASSUME NEW e \in Tally(recent, 0..a, h) PROVE e \in Tally(recent', 0..a, h)
      <4>1. e \in (0..a) \X (1..MaxCount) /\ e[1] \in 0..a /\ e[2] \in 1..MaxCount
            /\ e[2] <= recent[e[1]][h]
        BY DEF Tally
      <4>2. e[2] <= recent'[e[1]][h]
        BY <1>6, <2>1, <3>1, <4>1
      <4> QED BY <4>1, <4>2 DEF Tally
    <3> QED BY <3>2, <3>3
  <2> HIDE DEF y, z
  <2>6. Cardinality(Tally(recent, 0..a, h) \cup {y}) = Cardinality(Tally(recent, 0..a, h)) + 1
    BY <1>2, <2>4, TallyFinite, FS_AddElement
  <2>7. Cardinality(Tally(recent, 0..a, h) \cup {y}) <= Cardinality(Tally(recent', 0..a, h))
    BY <1>2, <2>5, TallyFinite, FS_Subset
  <2>8. Cardinality(Tally(ring', Young(a)', h)) \in Nat
        /\ Cardinality(Tally(ring, Young(a), h)) \in Nat
        /\ Cardinality(Tally(recent, 0..a, h)) \in Nat
        /\ Cardinality(Tally(recent', 0..a, h)) \in Nat
    BY <1>2, TallyFinite
  <2> QED BY <1>3, <2>3, <2>6, <2>7, <2>8
<1> QED BY <1>5, <1>6

\* A tick that completes a bucket ages everything by one, in the ring and in
\* the reference; any other changes nothing.
LEMMA TickMoves ==
    ASSUME WindowTypeOK, WindowTick
    PROVE  /\ Elapsed \in Nat
           /\ \/ /\ Elapsed' = Elapsed /\ recent' = recent
                 /\ \A i \in Slots : Old(i)' = Old(i)
              \/ /\ Elapsed' = Elapsed + 1
                 /\ recent' = [i \in Slots |-> IF i = 0 THEN Empty ELSE recent[i - 1]]
                 /\ \A i \in Slots : Old(i)' = Old(i) + 1
<1>1. lag \in Nat /\ Span \in Nat \ {0} /\ offset \in Slots
  BY WindowAssumption DEF WindowAssumption, WindowTypeOK
<1>2. Elapsed \in Nat
  BY <1>1, Quotient DEF Elapsed
<1>3. Elapsed' = IF (lag + 1) % Span # 0 THEN Elapsed ELSE Elapsed + 1
  BY <1>1, QuotientNext DEF Elapsed, WindowTick
<1>4. \A i \in Slots : Behind(offset, i) \in Nat
  BY <1>1, BehindIn DEF Slots
<1>5. \A i \in Slots : Old(i)' = Behind(offset, i) + Elapsed'
  BY DEF Old, Behind, WindowTick
<1>6. CASE (lag + 1) % Span # 0
  BY <1>2, <1>3, <1>5, <1>6 DEF WindowTick, Old
<1>7. CASE (lag + 1) % Span = 0
  BY <1>2, <1>3, <1>4, <1>5, <1>7 DEF WindowTick, Old
<1> QED BY <1>2, <1>6, <1>7

LEMMA TickDominated ==
    ASSUME RingInv, WindowTick
    PROVE  Dominated'
<1> USE DEF RingInv
<1> SUFFICES ASSUME NEW h \in Kinds, NEW a \in Slots
             PROVE  Cardinality(Tally(ring', Young(a)', h)) <= Cardinality(Tally(recent', 0..a, h))
  BY DEF Dominated
<1>1. /\ 0..a \in SUBSET Slots /\ Young(a) \in SUBSET Slots /\ Young(a)' \in SUBSET Slots
  BY AgesAreSlots
<1>2. ring' = ring /\ Young(a)' = {i \in Slots : Old(i)' <= a}
  BY DEF WindowTick, Young
<1>3. CASE recent' = recent /\ \A i \in Slots : Old(i)' = Old(i)
  <2>1. Young(a)' = Young(a)
    BY <1>2, <1>3 DEF Young
  <2> QED BY <1>2, <1>3, <2>1 DEF Dominated
<1>4. CASE /\ recent' = [i \in Slots |-> IF i = 0 THEN Empty ELSE recent[i - 1]]
           /\ \A i \in Slots : Old(i)' = Old(i) + 1
  <2>1. \A i \in Slots : Old(i) \in Nat
    BY OldIn
  <2>2. CASE a = 0
    <3>1. Tally(ring', Young(a)', h) = {}
      <4>1. Young(a)' = {}
        <5>1. \A i \in Slots : ~(Old(i)' <= a)
          BY <1>4, <2>1, <2>2
        <5> QED BY <1>2, <5>1
      <4> QED BY <4>1 DEF Tally
    <3>2. Cardinality(Tally(recent', 0..a, h)) \in Nat
      BY <1>1, TallyFinite
    <3> QED BY <3>1, <3>2, FS_EmptySet
  <2>3. CASE a # 0
    <3>1. a - 1 \in Slots /\ a \in Nat
      BY <2>3, WindowAssumption DEF WindowAssumption, Slots
    <3>2. Young(a)' = Young(a - 1)
      <4>1. \A i \in Slots : Old(i)' <= a <=> Old(i) <= a - 1
        BY <1>4, <2>1, <3>1
      <4> QED BY <1>2, <4>1 DEF Young
    <3>3. /\ 0..(a - 1) \in SUBSET Slots
          /\ Cardinality(Tally(ring, Young(a - 1), h)) <= Cardinality(Tally(recent, 0..(a - 1), h))
      BY <3>1, AgesAreSlots DEF Dominated
    <3> DEFINE m == [g \in 0..(a - 1) |-> g + 1]
    <3>4. m \in [0..(a - 1) -> 0..a] /\ \A x, y \in 0..(a - 1) : m[x] = m[y] => x = y
      BY <3>1
    <3>5. \A g \in 0..(a - 1) : recent'[m[g]] = recent[g]
      <4>1. \A g \in 0..(a - 1) : g + 1 \in Slots /\ g + 1 # 0 /\ (g + 1) - 1 = g
        BY <1>1, <3>1
      <4> QED BY <1>4, <4>1
    <3> HIDE DEF m
    <3>6. Cardinality(Tally(recent, 0..(a - 1), h)) <= Cardinality(Tally(recent', 0..a, h))
      <4>1. \A g \in 0..(a - 1) : \A n \in 1..MaxCount :
              n <= recent[g][h] => n <= recent'[m[g]][h]
        BY <3>5
      <4> QED BY <1>1, <3>3, <3>4, <4>1, TallyMoves
    <3>7. /\ Cardinality(Tally(ring', Young(a)', h)) \in Nat
          /\ Cardinality(Tally(recent, 0..(a - 1), h)) \in Nat
          /\ Cardinality(Tally(recent', 0..a, h)) \in Nat
      BY <1>1, <3>3, TallyFinite
    <3>8. Tally(ring', Young(a)', h) = Tally(ring, Young(a - 1), h)
      BY <1>2, <3>2
    <3> HIDE DEF m
    <3> QED BY <3>3, <3>6, <3>7, <3>8
  <2> QED BY <2>2, <2>3
<1> QED BY <1>3, <1>4, TickMoves

\* An empty ring holds nothing of any age.
LEMMA EmptiedDominated ==
    ASSUME Emptied
    PROVE  Dominated'
<1> SUFFICES ASSUME NEW h \in Kinds, NEW a \in Slots
             PROVE  Cardinality(Tally(ring', Young(a)', h)) <= Cardinality(Tally(recent', 0..a, h))
  BY DEF Dominated
<1>1. 0..a \in SUBSET Slots /\ Young(a)' \in SUBSET Slots
  BY AgesAreSlots
<1>2. Tally(ring', Young(a)', h) = {}
  BY <1>1 DEF Emptied, Tally, Cleared, Empty
<1>3. Cardinality(Tally(recent', 0..a, h)) \in Nat
  BY <1>1, TallyFinite
<1> QED BY <1>2, <1>3, FS_EmptySet

\* As long as the cursor catches up with the clock, every bucket of the ring
\* is the bucket of the reference of the same age.
LEMMA RecordAligned ==
    ASSUME RingInv, NEW k \in Kinds, Record(k)
    PROVE  Aligned'
<1> USE WindowAssumption DEF WindowAssumption, RingInv
<1> SUFFICES ASSUME ~overrun'
             PROVE  /\ \A g \in Slots : g < Elapsed' => recent'[g] = Empty
                    /\ \A i \in Slots : Old(i)' \in Slots => ring'[i] = recent'[Old(i)']
  BY DEF Aligned
<1>1. WindowTypeOK' /\ Elapsed \in Nat /\ Cursor \in Slots /\ 0 \in Slots /\ offset' = Cursor
  BY RecordTypes, RecordMoves DEF Record
<1>2. ~overrun /\ Passed = Elapsed /\ Passed <= Buckets
  <2>1. overrun' = (overrun \/ Elapsed > Buckets)
    BY DEF Record
  <2>2. ~overrun /\ ~(Elapsed > Buckets)
    BY <2>1
  <2> QED BY <1>1, <2>2 DEF Passed
<1>3. Elapsed' = 0 /\ Passed \in Nat
  BY <1>1, <1>2, RecordMoves
<1>4. \A i \in Slots : Old(i)' = Behind(Cursor, i) /\ Behind(Cursor, i) \in Slots
  <2>1. \A i \in Slots : Old(i)' = Behind(Cursor, i) + Elapsed'
    BY <1>1 DEF Old, Behind
  <2>2. \A i \in Slots : Behind(Cursor, i) \in Slots
    BY <1>1, BehindIn
  <2> QED BY <1>3, <2>1, <2>2 DEF Slots
<1>5. ASSUME NEW i \in Slots PROVE Rolled[i] = recent[Behind(Cursor, i)]
  <2>1. CASE Wiped(i)
    <3>1. Rolled[i] = Empty /\ Behind(Cursor, i) < Elapsed
      BY <1>2, <2>1, RecordMoves
    <3> QED BY <1>2, <1>4, <3>1 DEF Aligned
  <2>2. CASE ~Wiped(i)
    <3>1. Rolled[i] = ring[i] /\ Old(i)' = Old(i)
      BY <2>2, RecordMoves
    <3>2. Old(i) = Behind(Cursor, i) /\ Old(i) \in Slots
      BY <1>4, <3>1
    <3>3. ring[i] = recent[Old(i)]
      BY <1>2, <3>2 DEF Aligned
    <3> QED BY <3>1, <3>2, <3>3
  <2> QED BY <2>1, <2>2
<1>6. ASSUME NEW i \in Slots PROVE ring'[i] = recent'[Behind(Cursor, i)]
  <2>1. PICK d \in Slots : d = Behind(Cursor, i) /\ (d = 0 <=> i = Cursor)
    BY <1>1, BehindIn
  <2>2. ring'[i] \in [Kinds -> 0..MaxCount] /\ recent'[d] \in [Kinds -> 0..MaxCount]
    BY <1>1 DEF WindowTypeOK
  <2>3. \A h \in Kinds : ring'[i][h] = recent'[d][h]
    BY <1>5, <2>1, RecordMoves
  <2>4. ring'[i] = [h \in Kinds |-> ring'[i][h]] /\ recent'[d] = [h \in Kinds |-> recent'[d][h]]
    BY <2>2
  <2> QED BY <2>1, <2>3, <2>4
<1>7. \A g \in Slots : ~(g < Elapsed')
  BY <1>3 DEF Slots
<1> QED BY <1>4, <1>6, <1>7

LEMMA TickAligned ==
    ASSUME RingInv, WindowTick
    PROVE  Aligned'
<1> USE WindowAssumption DEF WindowAssumption, RingInv
<1> SUFFICES ASSUME ~overrun
             PROVE  /\ \A g \in Slots : g < Elapsed' => recent'[g] = Empty
                    /\ \A i \in Slots : Old(i)' \in Slots => ring[i] = recent'[Old(i)']
  BY DEF Aligned, WindowTick
<1>1. \A i \in Slots : Old(i) \in Nat
  BY OldIn
<1>2. CASE Elapsed' = Elapsed /\ recent' = recent /\ \A i \in Slots : Old(i)' = Old(i)
  BY <1>2 DEF Aligned
<1>3. CASE /\ Elapsed' = Elapsed + 1
           /\ recent' = [i \in Slots |-> IF i = 0 THEN Empty ELSE recent[i - 1]]
           /\ \A i \in Slots : Old(i)' = Old(i) + 1
  <2>1. ASSUME NEW g \in Slots, g < Elapsed' PROVE recent'[g] = Empty
    <3>1. CASE g = 0
      BY <1>3, <3>1
    <3>2. CASE g # 0
      <4>1. g - 1 \in Slots /\ g - 1 < Elapsed
        BY <1>3, <2>1, <3>2, TickMoves DEF Slots
      <4> QED BY <1>3, <3>2, <4>1 DEF Aligned
    <3> QED BY <3>1, <3>2
  <2>2. ASSUME NEW i \in Slots, Old(i)' \in Slots PROVE ring[i] = recent'[Old(i)']
    <3>1. PICK d \in Nat : d = Old(i) /\ Old(i)' = d + 1
      BY <1>1, <1>3
    <3>2. d + 1 \in Slots /\ d \in Slots /\ d + 1 # 0 /\ (d + 1) - 1 = d
      BY <2>2, <3>1 DEF Slots
    <3>3. recent'[d + 1] = recent[d]
      BY <1>3, <3>2
    <3> QED BY <3>1, <3>2, <3>3 DEF Aligned
  <2> QED BY <2>1, <2>2
<1> QED BY <1>2, <1>3, TickMoves

LEMMA EmptiedAligned ==
    ASSUME Emptied
    PROVE  Aligned'
BY DEF Emptied, Aligned, Cleared

\* A window without a completion.
LEMMA RingInitially == WindowInit => RingInv
<1> SUFFICES ASSUME WindowInit PROVE RingInv
  OBVIOUS
<1>1. WindowTypeOK
  <2>1. 0 \in Slots /\ 0 \in 0..MaxLag
    BY WindowAssumption DEF WindowAssumption, Slots
  <2> QED BY <2>1, ClearedTypes DEF WindowInit, WindowTypeOK
<1>2. Dominated
  <2> SUFFICES ASSUME NEW h \in Kinds, NEW a \in Slots
               PROVE  Cardinality(Tally(ring, Young(a), h)) <= Cardinality(Tally(recent, 0..a, h))
    BY DEF Dominated
  <2>1. 0..a \in SUBSET Slots /\ Young(a) \in SUBSET Slots
    BY AgesAreSlots
  <2>2. Tally(ring, Young(a), h) = {}
    BY <2>1 DEF WindowInit, Tally, Cleared, Empty
  <2>3. Cardinality(Tally(recent, 0..a, h)) \in Nat
    BY <2>1, TallyFinite
  <2> QED BY <2>2, <2>3, FS_EmptySet
<1>3. Aligned
  BY DEF Aligned, WindowInit, Cleared
<1> QED BY <1>1, <1>2, <1>3 DEF RingInv

\* Whatever a strategy does with its window keeps the invariant.
LEMMA RingStep ==
    ASSUME RingInv,
           (\E k \in Kinds : Record(k)) \/ Emptied \/ WindowTick \/ UNCHANGED windowVars
    PROVE  RingInv'
<1>1. ASSUME NEW k \in Kinds, Record(k) PROVE RingInv'
  BY <1>1, RecordTypes, RecordDominated, RecordAligned DEF RingInv
<1>2. CASE Emptied
  <2>1. WindowTypeOK'
    BY <1>2, ClearedTypes DEF Emptied, WindowTypeOK
  <2> QED BY <1>2, <2>1, EmptiedDominated, EmptiedAligned DEF RingInv
<1>3. CASE WindowTick
  BY <1>3, WindowTickTypes, TickDominated, TickAligned DEF RingInv
<1>4. CASE UNCHANGED windowVars
  BY <1>4 DEF windowVars, RingInv, WindowTypeOK, Dominated, Aligned, Young, Old, Elapsed
<1> QED BY <1>1, <1>2, <1>3, <1>4

\* Clearing and restarting empty the window.
LEMMA ClearsEmpty ==
    ASSUME WindowTypeOK, ClearWindow \/ RestartWindow
    PROVE  Emptied
BY WindowAssumption
   DEF WindowAssumption, ClearWindow, RestartWindow, Emptied, WindowTypeOK

\* A read of the window never counts more than there is.
LEMMA ReadsNoMore ==
    ASSUME RingInv
    PROVE  /\ NeverStale
           /\ \A k \in Kinds : Count(k) \in Nat /\ TrueCount(k) \in Nat
<1>1. Buckets - 1 \in Slots /\ 0..(Buckets - 1) = Slots
  BY WindowAssumption DEF WindowAssumption, Slots
<1>2. Live = Young(Buckets - 1) /\ Live \in SUBSET Slots
  BY LiveIsYoung DEF RingInv, Young
<1>3. \A k \in Kinds : Count(k) <= TrueCount(k)
  BY <1>1, <1>2 DEF RingInv, Dominated, Count, TrueCount
<1>4. \A k \in Kinds : Count(k) \in Nat /\ TrueCount(k) \in Nat
  BY <1>2, TallyFinite DEF Count, TrueCount
<1> QED BY <1>3, <1>4 DEF NeverStale

\* And counts all there is as long as no idle time outran the ring.
LEMMA ReadsAll ==
    ASSUME RingInv, ~overrun, NEW k \in Kinds
    PROVE  Count(k) = TrueCount(k)
<1> USE WindowAssumption DEF WindowAssumption
<1>1. /\ Live = Young(Buckets - 1) /\ Live \in SUBSET Slots /\ offset \in Slots
      /\ Elapsed \in Nat /\ Buckets \in Nat \ {0}
  BY LiveIsYoung, OldIn DEF RingInv, Young, WindowTypeOK
\* The slot of an age.
<1> DEFINE S == {g \in Slots : g >= Elapsed}
           m == [g \in S |-> Behind(offset, g - Elapsed)]
<1>2. ASSUME NEW g \in S
      PROVE  m[g] \in Live /\ Old(m[g]) = g /\ ring[m[g]] = recent[g]
  <2>1. g \in Slots /\ g - Elapsed \in Slots
    BY <1>1 DEF Slots
  <2>2. m[g] \in Slots /\ Behind(offset, m[g]) = g - Elapsed
    BY <1>1, <2>1, BehindIn
  <2>3. Old(m[g]) = g
    BY <1>1, <2>1, <2>2 DEF Old, Slots
  <2>4. m[g] \in Live
    BY <1>1, <2>1, <2>2, <2>3 DEF Young, Slots
  <2>5. ring[m[g]] = recent[g]
    BY <2>1, <2>2, <2>3 DEF RingInv, Aligned
  <2> QED BY <2>3, <2>4, <2>5
<1>3. m \in [S -> Live] /\ S \in SUBSET Slots
  BY <1>2
<1>4. \A x, y \in S : m[x] = m[y] => x = y
  BY <1>2
<1>5. \A g \in S : \A n \in 1..MaxCount : n <= recent[g][k] => n <= ring[m[g]][k]
  BY <1>2
<1>6. Tally(recent, Slots, k) = Tally(recent, S, k)
  <2>1. ASSUME NEW e \in Tally(recent, Slots, k) PROVE e[1] \in S
    <3>1. e[1] \in Slots /\ e[2] \in 1..MaxCount /\ e[2] <= recent[e[1]][k]
      BY DEF Tally
    <3>2. ~(e[1] < Elapsed)
      BY <3>1 DEF RingInv, Aligned, Empty
    <3> QED BY <1>1, <3>1, <3>2 DEF Slots
  <2> QED BY <2>1 DEF Tally
<1> HIDE DEF S, m
<1>7. Cardinality(Tally(recent, S, k)) <= Cardinality(Tally(ring, Live, k))
  BY <1>1, <1>3, <1>4, <1>5, TallyMoves
<1>8. TrueCount(k) <= Count(k)
  BY <1>6, <1>7 DEF TrueCount, Count
<1>9. Count(k) <= TrueCount(k) /\ Count(k) \in Nat /\ TrueCount(k) \in Nat
  BY ReadsNoMore DEF NeverStale
<1> QED BY <1>8, <1>9

-----------------------------------------------------------------------------
(* The slow-call breaker and its window *)

\* The ring never holds more completions than were reported since the machine
\* last closed, as far as that was counted.
HeardOf ==
    heard < MinSamples =>
        Cardinality(Tally(ring, Slots, "fast")) + Cardinality(Tally(ring, Slots, "slow")) <= heard

SlowWindowInv == SlowInv /\ RingInv /\ HeardOf

\* A report in closed, as far as position and evidence are concerned.
Judged(k) ==
    /\ name = "closed"
    /\ Record(k)
    /\ heard' = IF heard < MinSamples THEN heard + 1 ELSE heard
    /\ name' = IF Tripped THEN "open" ELSE "closed"

\* What a step does to the evidence, and that nothing else opens the machine.
LEMMA SlowSteps ==
    ASSUME SlowInv, [SlowNext]_slowVars
    PROVE  \/ Judged("fast") \/ Judged("slow")
           \/ Emptied /\ heard' = 0 /\ name' = "closed"
           \/ WindowTick /\ heard' = heard /\ name' = name
           \/ UNCHANGED <<windowVars, heard>> /\ ~(name = "closed" /\ name' = "open")
<1> DEFINE Rest == UNCHANGED <<windowVars, heard>> /\ ~(name = "closed" /\ name' = "open")
           Over == Emptied /\ heard' = 0 /\ name' = "closed"
<1>1. ASSUME NEW c \in Calls, NEW cause \in Causes, SlowReport(c, cause)
      PROVE  Judged("fast") \/ Judged("slow") \/ Over \/ Rest
  <2>1. CASE SlowReportClosed(OutcomeOf(cause))
    <3>1. KindOf(OutcomeOf(cause)) \in {"fast", "slow"}
      BY DEF KindOf
    <3>2. CASE OutcomeOf(cause) # "gatewayTerminated"
      <4>1. Judged(KindOf(OutcomeOf(cause)))
        BY <2>1, <3>2 DEF SlowReportClosed, Judged, EnterOpen, positionVars
      <4> QED BY <3>1, <4>1
    <3>3. CASE OutcomeOf(cause) = "gatewayTerminated"
      BY <2>1, <3>3 DEF SlowReportClosed, positionVars
    <3> QED BY <3>2, <3>3
  <2>2. CASE SlowReportHalfOpen(c, cause)
    <3>1. ProbePassed(c, cause, OutcomeOf(cause)) /\ DropEvidence => Over
      BY ClearsEmpty DEF SlowInv, SlowTypeOK, ProbePassed, EnterClosed, DropEvidence
    <3>2. name = "half-open"
      BY <2>2 DEF SlowReportHalfOpen, ProbeAbsorbed, ProbeFailed, ProbePassed
    <3> QED BY <2>2, <3>1, <3>2 DEF SlowReportHalfOpen
  <2>3. CASE SlowReportOpen
    BY <2>3 DEF SlowReportOpen
  <2> QED BY <1>1, <2>1, <2>2, <2>3 DEF SlowReport
<1>2. ASSUME NEW c \in Calls, SlowAllow(c) \/ SlowAbandon(c) \/ SlowRecycle(c)
      PROVE  Rest
  BY <1>2 DEF SlowAllow, SlowAbandon, SlowRecycle, Admit, GrantProbe, Abandoned, Recycled,
              positionVars
<1>3. SlowAllowDenied \/ SlowStateOf => Rest
  BY DEF SlowAllowDenied, SlowStateOf, DenyAndReclaim, Observe
<1>4. SlowReset => Over
  BY ClearsEmpty DEF SlowInv, SlowTypeOK, SlowReset, EnterClosed
<1>5. SlowTick => WindowTick /\ heard' = heard /\ name' = name
  BY DEF SlowTick, MachineTick
<1>6. UNCHANGED slowVars => Rest
  BY DEF slowVars, machineVars, positionVars
<1> HIDE DEF Rest, Over
<1>7. \/ Judged("fast") \/ Judged("slow") \/ Over \/ Rest
      \/ WindowTick /\ heard' = heard /\ name' = name
  BY <1>1, <1>2, <1>3, <1>4, <1>5, <1>6 DEF SlowNext
<1> QED BY <1>7 DEF Rest, Over

\* A recorded completion is one more in the ring, at most.
LEMMA RecordAddsOne ==
    ASSUME WindowTypeOK, NEW k \in Kinds, Record(k), NEW h \in Kinds
    PROVE  /\ Cardinality(Tally(ring, Slots, h)) \in Nat
           /\ Cardinality(Tally(ring', Slots, h)) \in Nat
           /\ Cardinality(Tally(ring', Slots, h))
                <= Cardinality(Tally(ring, Slots, h)) + (IF h = k THEN 1 ELSE 0)
<1> DEFINE z == <<Cursor, Rolled[Cursor][k] + 1>>
<1>1. /\ Cardinality(Tally(ring, Slots, h)) \in Nat /\ IsFiniteSet(Tally(ring, Slots, h))
      /\ Cardinality(Tally(ring', Slots, h)) \in Nat
  BY TallyFinite
<1>2. Cursor \in Slots /\ Rolled \in [Slots -> [Kinds -> 0..MaxCount]]
      /\ ring \in [Slots -> [Kinds -> 0..MaxCount]] /\ MaxCount \in Nat
  BY RollTypes, WindowAssumption DEF WindowAssumption, WindowTypeOK
<1>3. \A i \in Slots : Rolled[i][h] \in 0..MaxCount /\ ring[i][h] \in 0..MaxCount /\ Rolled[i][h] <= ring[i][h]
  BY <1>2, RecordMoves DEF Empty
<1>4. ASSUME NEW e \in Tally(ring', Slots, h), h = k => e # z
      PROVE  e \in Tally(ring, Slots, h)
  <2>1. /\ e \in Slots \X (1..MaxCount) /\ e[1] \in Slots /\ e[2] \in 1..MaxCount
        /\ e = <<e[1], e[2]>> /\ e[2] <= ring'[e[1]][h]
    BY DEF Tally
  <2>2. e[2] <= Rolled[e[1]][h]
    <3>1. Rolled[e[1]][h] \in Nat
          /\ ring'[e[1]][h] = IF e[1] = Cursor /\ h = k THEN Rolled[e[1]][h] + 1
                              ELSE Rolled[e[1]][h]
      BY <1>3, <2>1, RecordMoves
    <3>2. CASE e[1] = Cursor /\ h = k
      <4>1. e[2] # Rolled[e[1]][h] + 1
        BY <1>4, <2>1, <3>2
      <4> QED BY <2>1, <3>1, <3>2, <4>1
    <3>3. CASE ~(e[1] = Cursor /\ h = k)
      BY <2>1, <3>1, <3>3
    <3> QED BY <3>2, <3>3
  <2>3. e[2] <= ring[e[1]][h]
    BY <1>3, <2>1, <2>2
  <2> QED BY <2>1, <2>3 DEF Tally
<1> HIDE DEF z
<1>5. CASE h = k
  <2>1. Tally(ring', Slots, h) \subseteq Tally(ring, Slots, h) \cup {z}
    BY <1>4
  <2>2. Cardinality(Tally(ring', Slots, h)) <= Cardinality(Tally(ring, Slots, h)) + 1
    BY <2>1, TallyGrows
  <2> QED BY <1>1, <1>5, <2>2
<1>6. CASE h # k
  <2>1. Tally(ring', Slots, h) \in SUBSET Tally(ring, Slots, h)
    BY <1>4, <1>6
  <2>2. Cardinality(Tally(ring', Slots, h)) <= Cardinality(Tally(ring, Slots, h))
    BY <1>1, <2>1, FS_Subset
  <2> QED BY <1>1, <1>6, <2>2
<1> QED BY <1>5, <1>6

LEMMA HeardStep ==
    ASSUME SlowWindowInv, [SlowNext]_slowVars
    PROVE  HeardOf'
<1> USE SlowAssumption DEF SlowAssumption, SlowWindowInv
<1>1. heard \in Nat /\ MinSamples \in Nat /\ WindowTypeOK
  BY DEF RingInv, SlowInv, SlowTypeOK
<1>2. "fast" \in Kinds /\ "slow" \in Kinds
  OBVIOUS
<1>3. ASSUME NEW k \in {"fast", "slow"}, Judged(k) PROVE HeardOf'
  <2>1. k \in Kinds /\ Record(k)
    BY <1>2, <1>3 DEF Judged
  <2>2. PICK f \in Nat, s \in Nat, f1 \in Nat, s1 \in Nat :
          /\ f = Cardinality(Tally(ring, Slots, "fast"))
          /\ s = Cardinality(Tally(ring, Slots, "slow"))
          /\ f1 = Cardinality(Tally(ring', Slots, "fast"))
          /\ s1 = Cardinality(Tally(ring', Slots, "slow"))
    BY TallyFinite
  <2>3. f1 <= f + (IF "fast" = k THEN 1 ELSE 0) /\ s1 <= s + (IF "slow" = k THEN 1 ELSE 0)
    BY <1>1, <1>2, <2>1, <2>2, RecordAddsOne
  <2>4. f1 + s1 <= f + s + 1
    BY <2>3
  <2>5. heard < MinSamples => f + s <= heard
    BY <2>2 DEF HeardOf
  <2>6. heard' = IF heard < MinSamples THEN heard + 1 ELSE heard
    BY <1>3 DEF Judged
  <2>7. heard' < MinSamples => f1 + s1 <= heard'
    BY <1>1, <2>4, <2>5, <2>6
  <2> QED BY <2>2, <2>7 DEF HeardOf
<1>4. ASSUME Emptied, heard' = 0 PROVE HeardOf'
  <2>1. ring' = Cleared
    BY <1>4 DEF Emptied
  <2>2. Tally(ring', Slots, "fast") = {} /\ Tally(ring', Slots, "slow") = {}
    BY <1>2, <2>1 DEF Tally, Cleared, Empty
  <2> QED BY <1>4, <2>2, FS_EmptySet DEF HeardOf
<1>5. ASSUME ring' = ring, heard' = heard PROVE HeardOf'
  BY <1>5 DEF HeardOf
<1> QED BY <1>3, <1>4, <1>5, SlowSteps DEF WindowTick, windowVars

LEMMA SlowWindowInvariance == SlowSpec => []SlowWindowInv
<1>1. SlowInit => SlowWindowInv
  <2>1. SlowInit => RingInv /\ ring = Cleared /\ heard = 0
    BY RingInitially DEF SlowInit, WindowInit
  <2>2. ASSUME ring = Cleared, heard = 0 PROVE HeardOf
    <3>1. Tally(ring, Slots, "fast") = {} /\ Tally(ring, Slots, "slow") = {}
      BY <2>2, SlowAssumption DEF SlowAssumption, Tally, Cleared, Empty
    <3> QED BY <2>2, <3>1, FS_EmptySet DEF HeardOf
  <2> QED BY <2>1, <2>2, SlowInitially DEF SlowWindowInv
<1>2. SlowWindowInv /\ [SlowNext]_slowVars => SlowWindowInv'
  <2> SUFFICES ASSUME SlowWindowInv, [SlowNext]_slowVars PROVE SlowWindowInv'
    OBVIOUS
  <2>1. SlowInv'
    BY EvidenceStep, SlowRunsOnMachine, MachineInductive
       DEF SlowWindowInv, SlowInv, MachineInv, SlowTypeOK
  <2>2. \A k \in {"fast", "slow"} : Judged(k) => k \in Kinds /\ Record(k)
    BY SlowAssumption DEF SlowAssumption, Judged
  <2>3. (\E k \in Kinds : Record(k)) \/ Emptied \/ WindowTick \/ UNCHANGED windowVars
    BY <2>2, SlowSteps DEF SlowWindowInv
  <2>4. RingInv'
    BY <2>3, RingStep DEF SlowWindowInv
  <2> QED BY <2>1, <2>4, HeardStep DEF SlowWindowInv
<1> QED BY <1>1, <1>2, PTL DEF SlowSpec

\* A read never counts a completion that is older than the window, however
\* long the breaker was idle and whatever was cleared: for every geometry of
\* the ring.
THEOREM ReadsAreNeverStale == SlowSpec => []NeverStale
<1>1. SlowWindowInv => NeverStale
  BY ReadsNoMore DEF SlowWindowInv
<1> QED BY <1>1, SlowWindowInvariance, PTL

\* What was shown of reads, for the two kinds of this breaker.
ReadsRight ==
    RingInv =>
        /\ Live \in SUBSET Slots
        /\ ~overrun => Count("fast") = TrueCount("fast") /\ Count("slow") = TrueCount("slow")

LEMMA ReadsNow == ReadsRight
<1>1. RingInv => Live \in SUBSET Slots
  BY LiveIsYoung DEF RingInv, Young
<1>2. ASSUME RingInv, ~overrun
      PROVE  Count("fast") = TrueCount("fast") /\ Count("slow") = TrueCount("slow")
  BY <1>2, ReadsAll, SlowAssumption DEF SlowAssumption
<1> QED BY <1>1, <1>2 DEF ReadsRight

\* The same of the state a step leads to.
LEMMA ReadsThen ==
    ASSUME RingInv'
    PROVE  /\ Count("fast")' <= Cardinality(Tally(ring', Slots, "fast"))
           /\ Count("slow")' <= Cardinality(Tally(ring', Slots, "slow"))
           /\ Count("fast")' \in Nat /\ Count("slow")' \in Nat
           /\ Cardinality(Tally(ring', Slots, "fast")) \in Nat
           /\ Cardinality(Tally(ring', Slots, "slow")) \in Nat
           /\ ~overrun' => /\ Count("fast")' = TrueCount("fast")'
                           /\ Count("slow")' = TrueCount("slow")'
<1>2. ReadsRight'
  BY ReadsNow, PTL
<1>3. Live' \in SUBSET Slots
  BY <1>2 DEF ReadsRight
<1>4. ASSUME NEW h
      PROVE  /\ Tally(ring', Live', h) \in SUBSET Tally(ring', Slots, h)
             /\ Cardinality(Tally(ring', Live', h)) <= Cardinality(Tally(ring', Slots, h))
             /\ Cardinality(Tally(ring', Live', h)) \in Nat
             /\ Cardinality(Tally(ring', Slots, h)) \in Nat
  <2>1. Tally(ring', Live', h) \in SUBSET Tally(ring', Slots, h)
    BY <1>3 DEF Tally
  <2> QED BY <1>3, <2>1, TallyFinite, FS_Subset
<1>5. Count("fast")' = Cardinality(Tally(ring', Live', "fast"))
      /\ Count("slow")' = Cardinality(Tally(ring', Live', "slow"))
  BY DEF Count, Tally
<1> QED BY <1>2, <1>4, <1>5 DEF ReadsRight

\* Only completions reported since the machine last closed open it, and only
\* if there are enough of them.
THEOREM OpensOnFreshEvidence == SlowSpec => FreshEvidence
<1>1. ASSUME SlowWindowInv, SlowWindowInv', [SlowNext]_slowVars, name = "closed", name' = "open"
      PROVE  heard' = MinSamples
  <2>1. PICK k \in {"fast", "slow"} : Judged(k)
    BY <1>1, SlowSteps DEF SlowWindowInv
  <2>2. Count("fast")' + Count("slow")' >= MinSamples
    BY <1>1, <2>1 DEF Judged, Tripped, Degraded
  <2>3. heard' \in 0..MinSamples /\ MinSamples \in Nat
    BY <1>1, SlowAssumption DEF SlowAssumption, SlowWindowInv, SlowInv, SlowTypeOK
  <2>4. heard' < MinSamples =>
          Cardinality(Tally(ring', Slots, "fast")) + Cardinality(Tally(ring', Slots, "slow")) <= heard'
    BY <1>1 DEF SlowWindowInv, HeardOf
  <2>5. RingInv'
    BY <1>1 DEF SlowWindowInv
  <2> QED BY <2>2, <2>3, <2>4, <2>5, ReadsThen
<1> QED BY <1>1, SlowWindowInvariance, PTL DEF SlowSpec, FreshEvidence

\* The machine opens on the completion that makes the last window of
\* wall-clock time degraded and on no other.
THEOREM OpensExactlyOnTheWindow == SlowSpec => OpensOnTheWindow
<1>1. ASSUME SlowWindowInv, SlowWindowInv', [SlowNext]_slowVars, Recorded, ~overrun'
      PROVE  name' = "open" <=> Degraded(TrueCount("fast")', TrueCount("slow")')
  <2>1. /\ WindowTypeOK /\ RingInv' /\ 0 \in Slots
        /\ \A h \in Kinds : recent[0][h] \in Nat
    <3>1. WindowTypeOK /\ RingInv'
      BY <1>1 DEF SlowWindowInv, RingInv
    <3>2. 0 \in Slots
      BY WindowAssumption DEF WindowAssumption, Slots
    <3> QED BY <3>1, <3>2 DEF WindowTypeOK
  <2>2. ~Emptied
    BY <1>1, <2>1 DEF Emptied, Recorded, Cleared, Empty
  <2>3. ~WindowTick
    BY <1>1, <2>1, TickMoves DEF Recorded, Empty
  <2>4. ~UNCHANGED windowVars
    BY <1>1, <2>1 DEF Recorded, windowVars
  <2>5. PICK k \in {"fast", "slow"} : Judged(k)
    BY <1>1, <2>2, <2>3, <2>4, SlowSteps DEF SlowWindowInv
  <2>6. Count("fast")' = TrueCount("fast")' /\ Count("slow")' = TrueCount("slow")'
    BY <1>1, <2>1, ReadsThen
  <2>7. name' = "open" <=> Degraded(Count("fast")', Count("slow")')
    BY <2>5 DEF Judged, Tripped
  <2> QED BY <2>6, <2>7
<1> QED BY <1>1, SlowWindowInvariance, PTL DEF SlowSpec, OpensOnTheWindow

-----------------------------------------------------------------------------
(* The ratio breaker *)

\* The run of denials is not older than the last stamped admission.
Starving ==
    /\ passed \in BOOLEAN /\ denying \in BOOLEAN
    /\ sincePass \in Nat /\ starved \in Nat
    /\ ~denying => starved = 0
    /\ denying /\ passed => starved <= sincePass

RatioInv == RingInv /\ Starving

LEMMA RatioInitially == RatioInit => RatioInv
<1> SUFFICES ASSUME RatioInit PROVE RatioInv
  OBVIOUS
<1>1. RingInv
  BY RingInitially DEF RatioInit
<1>2. passed = FALSE /\ denying = FALSE
  BY Zenon DEF RatioInit
<1>3. sincePass = 0 /\ starved = 0
  BY DEF RatioInit
<1>4. Starving
  <2>1. sincePass \in Nat /\ starved \in Nat
    BY <1>3
  <2> QED BY <1>2, <1>3, <2>1, Zenon DEF Starving
<1> QED BY <1>1, <1>4 DEF RatioInv

\* What a step does to the window.
LEMMA RatioSteps ==
    ASSUME RatioInv, [RatioNext]_ratioVars
    PROVE  \/ Deny
           \/ Record("success") \/ Record("failure")
           \/ Emptied \/ WindowTick \/ UNCHANGED windowVars
<1>1. ASSUME NEW c \in Permissions, NEW outcome \in RatioOutcomes, RatioReport(c, outcome)
      PROVE  Record("success") \/ Record("failure") \/ UNCHANGED windowVars
  BY <1>1 DEF RatioReport
<1>2. RatioReset => Emptied
  BY WindowAssumption DEF WindowAssumption, RatioReset, Emptied, Slots
<1>3. ASSUME NEW c \in Permissions, AllowQuiet(c) \/ AllowStamped(c)
      PROVE  UNCHANGED windowVars
  BY <1>3 DEF AllowQuiet, AllowStamped, Granted
<1>4. RatioTick => WindowTick
  BY DEF RatioTick
<1>5. UNCHANGED ratioVars => UNCHANGED windowVars
  BY DEF ratioVars
<1> QED BY <1>1, <1>2, <1>3, <1>4, <1>5 DEF RatioNext

LEMMA StarvingStep ==
    ASSUME Starving, [RatioNext]_ratioVars
    PROVE  Starving'
<1> USE DEF Starving
<1>1. ASSUME NEW c \in Permissions, AllowQuiet(c) \/ AllowStamped(c) PROVE Starving'
  <2>1. starved' = 0 /\ sincePass' \in {0, sincePass}
    BY <1>1 DEF AllowQuiet, AllowStamped, Granted, guardVars
  <2>2. denying' = FALSE
    BY <1>1, Zenon DEF AllowQuiet, AllowStamped, Granted
  <2>3. passed' = passed \/ passed' = TRUE
    <3>1. AllowQuiet(c) => passed' = passed
      BY DEF AllowQuiet, guardVars
    <3>2. AllowStamped(c) => passed' = TRUE
      BY Zenon DEF AllowStamped
    <3> QED BY <1>1, <3>1, <3>2, Zenon
  <2>4. sincePass' \in Nat /\ starved' \in Nat
    BY <2>1
  <2>5. passed' \in BOOLEAN /\ denying' \in BOOLEAN
    BY <2>2, <2>3, Zenon
  <2> QED BY <2>1, <2>2, <2>4, <2>5, Zenon
<1>2. ASSUME NEW c \in Permissions, NEW outcome \in RatioOutcomes, RatioReport(c, outcome)
      PROVE  Starving'
  BY <1>2 DEF RatioReport, guardVars, starveVars
<1>3. CASE Deny
  BY <1>3 DEF Deny, guardVars
<1>4. CASE RatioReset
  BY <1>4 DEF RatioReset
<1>5. CASE RatioTick
  <2>1. ForcePass \in Nat
    BY RatioAssumption DEF RatioAssumption
  <2>2. /\ passed' = passed /\ denying' = denying
        /\ sincePass' = IF passed THEN Saturating(sincePass) ELSE sincePass
        /\ starved' = IF denying THEN Saturating(starved) ELSE starved
    BY <1>5 DEF RatioTick
  <2>3. Saturating(sincePass) \in Nat /\ Saturating(starved) \in Nat
    BY <2>1 DEF Saturating
  <2>4. starved <= sincePass => Saturating(starved) <= Saturating(sincePass)
    BY <2>1 DEF Saturating
  <2> QED BY <2>2, <2>3, <2>4
<1>6. CASE UNCHANGED ratioVars
  BY <1>6 DEF ratioVars, guardVars, starveVars
<1> QED BY <1>1, <1>2, <1>3, <1>4, <1>5, <1>6 DEF RatioNext

LEMMA RatioInvariance == RatioSpec => []RatioInv
<1>1. ASSUME RatioInv, [RatioNext]_ratioVars PROVE RatioInv'
  <2>1. {"success", "failure", "drop"} \subseteq Kinds
    BY RatioAssumption DEF RatioAssumption
  <2>2. (\E k \in Kinds : Record(k)) \/ Emptied \/ WindowTick \/ UNCHANGED windowVars
    BY <1>1, <2>1, RatioSteps DEF Deny
  <2>3. RingInv'
    BY <1>1, <2>2, RingStep DEF RatioInv
  <2> QED BY <1>1, <2>3, StarvingStep DEF RatioInv
<1> QED BY <1>1, RatioInitially, PTL DEF RatioSpec

\* Nothing else looks like a denial.
LEMMA DeniedByDeny ==
    ASSUME RatioInv, [RatioNext]_ratioVars, Denied
    PROVE  Deny
<1>1. WindowTypeOK /\ "drop" \in Kinds /\ "success" \in Kinds /\ "failure" \in Kinds
  BY RatioAssumption DEF RatioAssumption, RatioInv, RingInv
<1>2. 0 \in Slots
  BY WindowAssumption DEF WindowAssumption, Slots
<1>3. recent[0]["drop"] \in Nat
  BY <1>1, <1>2 DEF WindowTypeOK
<1>4. ~Emptied
  BY <1>1, <1>2, <1>3 DEF Denied, Emptied, Cleared, Empty
<1>5. ~WindowTick
  BY <1>1, <1>2, <1>3, TickMoves DEF Denied, Empty
<1>6. ~UNCHANGED windowVars
  BY <1>3 DEF Denied, windowVars
<1>7. ~Record("success") /\ ~Record("failure")
  <2>1. ASSUME NEW k \in {"success", "failure"}, Record(k) PROVE FALSE
    <3>1. k \in Kinds /\ k # "drop"
      BY <1>1
    <3>2. recent'[0]["drop"] = recent[0]["drop"]
      BY <1>1, <1>2, <2>1, <3>1, RecordMoves
    <3> QED BY <1>3, <3>2 DEF Denied
  <2> QED BY <2>1
<1> QED BY <1>4, <1>5, <1>6, <1>7, RatioSteps

\* Once a saturated guard has admitted a call, the forced pass ends every run
\* of denials within its interval.
THEOREM NoRunOfDenialsLasts == RatioSpec => NoStarvation
<1>1. ASSUME RatioInv, [RatioNext]_ratioVars, Denied, passed PROVE starved < ForcePass
  <2>1. ~(sincePass >= ForcePass) /\ ForcePass \in Nat
    BY <1>1, DeniedByDeny, RatioAssumption DEF RatioAssumption, Deny, PassDue
  <2>2. starved <= sincePass /\ starved \in Nat /\ sincePass \in Nat
    BY <1>1 DEF RatioInv, Starving
  <2> QED BY <2>1, <2>2
<1> QED BY <1>1, RatioInvariance, PTL DEF RatioSpec, NoStarvation

\* The weight of an accept stays positive: the failing buckets are no more
\* than the window has.
LEMMA WeightIsNat ==
    ASSUME WindowTypeOK
    PROVE  KTenths * Buckets - (KTenths - MinKTenths) * FailingBuckets \in Nat
<1>1. Buckets \in Nat /\ KTenths \in Nat /\ MinKTenths \in Nat /\ MinKTenths <= KTenths
  BY WindowAssumption, RatioAssumption DEF WindowAssumption, RatioAssumption
<1>2. Elapsed \in Nat
  BY OldIn
<1>3. Ages \in SUBSET (0..(Buckets - 1))
  BY <1>1, <1>2 DEF Ages
<1>4. IsFiniteSet(0..(Buckets - 1)) /\ Cardinality(0..(Buckets - 1)) = Buckets
  <2>1. 0 \in Int /\ Buckets - 1 \in Int
    BY <1>1
  <2> QED BY <1>1, <2>1, FS_Interval, WindowAssumption DEF WindowAssumption
<1>5. PICK F \in SUBSET (0..(Buckets - 1)) : FailingBuckets = Cardinality(F)
  BY <1>3 DEF FailingBuckets
<1>6. PICK n \in Nat : n = FailingBuckets /\ n <= Buckets
  <2>1. IsFiniteSet(F) /\ Cardinality(F) <= Cardinality(0..(Buckets - 1))
    BY <1>4, <1>5, FS_Subset
  <2>2. Cardinality(F) \in Nat
    BY <2>1, FS_CardinalityType
  <2> QED BY <1>4, <1>5, <2>1, <2>2
<1>7. PICK d \in Nat : d = KTenths - MinKTenths /\ d <= KTenths
  BY <1>1
<1>8. n * d <= Buckets * d /\ n * d \in Nat /\ Buckets * d \in Nat
  BY <1>1, <1>6, <1>7, ProductGrows
<1>9. d * Buckets <= KTenths * Buckets /\ KTenths * Buckets \in Nat
  BY <1>1, <1>7, ProductGrows
<1>10. d * n = n * d /\ d * Buckets = Buckets * d
  BY <1>1
<1> QED BY <1>6, <1>7, <1>8, <1>9, <1>10

\* A saturated window holds more events than the protection.
LEMMA SaturatedIsBusy ==
    ASSUME RingInv, Saturated
    PROVE  Total > Protection
<1>1. WindowTypeOK /\ Buckets \in Nat /\ Protection \in Nat
  BY WindowAssumption, RatioAssumption DEF WindowAssumption, RatioAssumption, RingInv
<1>2. Accepts \in Nat /\ Total \in Nat
  BY ReadsNoMore, RatioAssumption DEF RatioAssumption, Accepts, Total
<1>3. PICK w \in Nat : w = KTenths * Buckets - (KTenths - MinKTenths) * FailingBuckets
  BY <1>1, WeightIsNat
<1>4. (Total - Protection) * 10 * Buckets > w * Accepts
  BY <1>3 DEF Saturated
<1>5. w * Accepts \in Nat
  BY <1>2
<1>6. CASE Total <= Protection
  <2>1. PICK x \in Nat : x = Protection - Total
    BY <1>1, <1>2, <1>6
  <2>2. Total - Protection = 0 - x
    BY <1>1, <1>2, <2>1
  <2>3. (0 - x) * 10 * Buckets = 0 - (x * 10 * Buckets) /\ x * 10 * Buckets \in Nat
    BY <1>1
  <2> QED BY <1>4, <1>5, <2>2, <2>3
<1> QED BY <1>1, <1>2, <1>6

\* A denial always rests on more than Protection events of the last window of
\* wall-clock time.
THEOREM DenialsRestOnRecentEvents == RatioSpec => DeniesOnRecentEvents
<1>1. ASSUME RatioInv, [RatioNext]_ratioVars, Denied
      PROVE  TrueCount("success") + TrueCount("failure") + TrueCount("drop") > Protection
  <2>1. RingInv /\ Saturated
    BY <1>1, DeniedByDeny DEF Deny, RatioInv
  <2>2. Total > Protection
    BY <2>1, SaturatedIsBusy
  <2>3. Protection \in Nat /\ {"success", "failure", "drop"} \subseteq Kinds
    BY RatioAssumption DEF RatioAssumption
  <2>4. \A k \in {"success", "failure", "drop"} :
          Count(k) \in Nat /\ TrueCount(k) \in Nat /\ Count(k) <= TrueCount(k)
    BY <2>1, <2>3, ReadsNoMore DEF NeverStale
  <2> QED BY <2>2, <2>3, <2>4 DEF Total, Accepts
<1> QED BY <1>1, RatioInvariance, PTL DEF RatioSpec, DeniesOnRecentEvents
=============================================================================
