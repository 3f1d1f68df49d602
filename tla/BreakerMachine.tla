--------------------------- MODULE BreakerMachine ---------------------------
(***************************************************************************)
(* The three-state skeleton that the consecutive-failure and the slow-call *)
(* breakers share (internal/circuit/machine.go) under concurrent callers:  *)
(* relay attempts (relay/executor.go), the active prober                   *)
(* (circuit/prober.go), the router's and the recovery loop's reads.        *)
(* Callers hold their permission across an upstream exchange and report at *)
(* any later time, or never.                                               *)
(*                                                                         *)
(* One machine, that is one upstream; machines share nothing but a mutex.  *)
(* A call stands for the permission Allow hands out and for the probeGrant *)
(* it may carry: the grant is pinned by identity, so naming the call that  *)
(* holds it names the grant.  Times are ticks since the stamped moment,    *)
(* saturated where no comparison tells them apart.                         *)
(***************************************************************************)
EXTENDS Integers

CONSTANTS
    Calls,          \* permissions that may be outstanding
    NoCall,         \* no probe outstanding
    Cooldown,       \* ticks an open machine denies
    ProbeTimeout    \* ticks a probe is given

ASSUME MachineAssumption ==
    /\ NoCall \notin Calls
    /\ Cooldown \in Nat \ {0}
    /\ ProbeTimeout \in Nat

VARIABLES
    name,       \* the position
    sinceOpen,  \* now - openedAt
    probe,      \* the call holding the probe slot
    probeAge,   \* now - (deadline - ProbeTimeout) of that probe
    call,       \* what became of each permission
    \* history
    fresh,      \* calls admitted since the machine last opened
    sinceProbe, \* ticks since the last probe of this outage was admitted
    closedBy    \* what last closed the machine

positionVars == <<name, sinceOpen, probe, probeAge>>
historyVars == <<fresh, sinceProbe, closedBy>>
machineVars == <<positionVars, call, historyVars>>

MachineInit ==
    /\ name = "closed"
    /\ sinceOpen = 0
    /\ probe = NoCall
    /\ probeAge = 0
    /\ call = [c \in Calls |-> "idle"]
    /\ fresh = {}
    /\ sinceProbe = Cooldown
    /\ closedBy = "start"

-----------------------------------------------------------------------------
(* What a caller can report *)

\* What can end an exchange: a 2xx in time, a slow 2xx, a 4xx, a 5xx or
\* timeout or reset, the gateway's own ceiling, the client walking away (or
\* the prober being shut down) before the upstream answered anything.
Causes == {"ok", "slow", "rejected", "broken", "cut", "gone"}

\* The outcome the caller reports: stashUpstreamError, transportOutcome,
\* exchangeStream and ActiveProbe.
OutcomeOf(cause) ==
    CASE cause = "ok" -> "success"
      [] cause = "slow" -> "slow"
      [] cause \in {"rejected", "gone"} -> "clientFault"
      [] cause = "broken" -> "serverFault"
      [] cause = "cut" -> "gatewayTerminated"

Healthy == {"success", "clientFault", "slow"}

-----------------------------------------------------------------------------
(* Moving the machine *)

Cooled == sinceOpen >= Cooldown

\* Mutant: nobody looks at the deadline of a probe that does not report.
ExpiredNever == FALSE

\* now.After(deadline)
Expired == probe # NoCall /\ probeAge > ProbeTimeout

\* enter(StateOpen) out of closed: openedAt is stamped, the slot is empty.
EnterOpen ==
    /\ name' = "open"
    /\ sinceOpen' = 0
    /\ fresh' = {}
    /\ UNCHANGED <<probe, probeAge, sinceProbe, closedBy>>

\* enter(StateClosed): the slot is cleared; the strategy's cleanup comes on
\* top.
EnterClosed(cause) ==
    /\ name' = "closed"
    /\ probe' = NoCall
    /\ sinceProbe' = Cooldown
    /\ closedBy' = cause
    /\ UNCHANGED <<sinceOpen, probeAge, fresh>>

\* Mutant: the cooldown goes on from the last stamp.
ReclaimUnstamped ==
    /\ name' = "open"
    /\ probe' = NoCall
    /\ fresh' = {}
    /\ UNCHANGED <<sinceOpen, probeAge, sinceProbe, closedBy>>

\* reclaim: back to open with a fresh cooldown.
Reclaim ==
    /\ name' = "open"
    /\ probe' = NoCall
    /\ sinceOpen' = 0
    /\ fresh' = {}
    /\ UNCHANGED <<probeAge, sinceProbe, closedBy>>

GrantProbe(c) ==
    /\ name' = "half-open"
    /\ probe' = c
    /\ probeAge' = 0
    /\ sinceProbe' = 0
    /\ UNCHANGED sinceOpen

\* allow, admitting: closed passes everything; a cooled open machine and an
\* empty half-open slot turn the caller into the probe.
Admit(c) ==
    /\ call[c] = "idle"
    /\ \/ name = "closed" /\ UNCHANGED <<positionVars, sinceProbe>>
       \/ name = "open" /\ Cooled /\ GrantProbe(c)
       \/ name = "half-open" /\ probe = NoCall /\ GrantProbe(c)
    /\ call' = [call EXCEPT ![c] = "flying"]
    /\ fresh' = fresh \cup {c}
    /\ UNCHANGED closedBy

\* allow, denying in half-open: an expired probe is reclaimed, the caller is
\* denied all the same.  Every other denial changes nothing.
DenyAndReclaim ==
    /\ name = "half-open" /\ Expired
    /\ Reclaim
    /\ UNCHANGED call

\* observe: the lazy transitions of a read; it never takes the slot.
Observe ==
    /\ \/ /\ name = "open" /\ Cooled
          /\ name' = "half-open"
          /\ UNCHANGED <<sinceOpen, probe, probeAge, historyVars>>
       \/ /\ name = "half-open" /\ Expired
          /\ Reclaim
    /\ UNCHANGED call

-----------------------------------------------------------------------------
(* Report, the part the strategies share *)

\* The reported flag: a permission reports once.
Returned(c) ==
    /\ call[c] = "flying"
    /\ call' = [call EXCEPT ![c] = "idle"]

\* Mutant: any report of half-open is taken for the probe's.
OwnsProbeAny(c) == probe # NoCall

OwnsProbe(c) == probe = c

\* In half-open only the owner of the outstanding probe moves the machine.
ProbeAbsorbed(c) ==
    name = "half-open" /\ ~OwnsProbe(c) /\ UNCHANGED <<positionVars, historyVars>>

ProbeFailed(c, outcome) ==
    /\ name = "half-open" /\ OwnsProbe(c)
    /\ outcome \in {"gatewayTerminated", "serverFault"} \/ Expired
    /\ Reclaim

ProbePassed(c, cause, outcome) ==
    /\ name = "half-open" /\ OwnsProbe(c)
    /\ outcome \in Healthy /\ ~Expired
    /\ EnterClosed(cause)

\* A holder that panicked or hangs never reports.
Abandoned(c) ==
    /\ call[c] = "flying"
    /\ call' = [call EXCEPT ![c] = "lost"]
    /\ UNCHANGED <<positionVars, historyVars>>

\* A lost permission that nothing refers to stands for a new one.
Recycled(c) ==
    /\ call[c] = "lost" /\ probe # c
    /\ call' = [call EXCEPT ![c] = "idle"]
    /\ UNCHANGED <<positionVars, historyVars>>

MachineTick ==
    /\ sinceOpen' = IF sinceOpen < Cooldown THEN sinceOpen + 1 ELSE sinceOpen
    /\ probeAge' = IF probeAge <= ProbeTimeout THEN probeAge + 1 ELSE probeAge
    /\ sinceProbe' = IF sinceProbe < Cooldown THEN sinceProbe + 1 ELSE sinceProbe
    /\ UNCHANGED <<name, probe, call, fresh, closedBy>>

-----------------------------------------------------------------------------
MachineTypeOK ==
    /\ name \in {"closed", "open", "half-open"}
    /\ sinceOpen \in 0..Cooldown
    /\ probe \in Calls \cup {NoCall}
    /\ probeAge \in 0..(ProbeTimeout + 1)
    /\ call \in [Calls -> {"idle", "flying", "lost"}]
    /\ fresh \subseteq Calls
    /\ sinceProbe \in 0..Cooldown
    /\ closedBy \in Causes \cup {"start", "reset"}

\* The slot is only taken in half-open and always by a call that is still
\* out: no reset, reclaim or late report leaves a slot nobody can free.
SlotHasHolder ==
    probe # NoCall => name = "half-open" /\ call[probe] \in {"flying", "lost"}

\* Only an operator, or a call admitted since the machine last opened and
\* reporting within the probe timeout, closes the machine: a report of an
\* earlier admission cannot, however late it arrives.
RecoveryByFreshProbe ==
    [][name # "closed" /\ name' = "closed" /\ closedBy' # "reset" =>
         \E c \in fresh : /\ probe = c
                          /\ call[c] = "flying" /\ call'[c] = "idle"
                          /\ probeAge <= ProbeTimeout]_machineVars

\* An upstream that stays down sees at most one call per cooldown: two
\* probes of the same outage are at least a cooldown apart, however probes
\* were lost, reclaimed or answered.
ProbesSpaced ==
    [][probe' # probe /\ probe' # NoCall => sinceProbe >= Cooldown]_machineVars

\* The probe slot does not leak: a probe whose holder never reports is
\* reclaimed.
SlotFreed == probe # NoCall ~> probe = NoCall
=============================================================================
