---------------------------- MODULE RatioBreaker ----------------------------
(***************************************************************************)
(* The ratio circuit breaker (internal/circuit/ratio.go): no positions,    *)
(* only a deny probability computed from the rolling window, and a forced  *)
(* pass that is meant to keep some traffic flowing.  The random draw is a  *)
(* choice: a call may be denied whenever its deny ratio is positive, and   *)
(* may always be admitted, since the ratio stays below one.                *)
(***************************************************************************)
EXTENDS RollingWindow

CONSTANTS
    Permissions,    \* permissions that may be outstanding
    Protection,     \* events a window may hold without denying
    KTenths,        \* ratioK and ratioMinK, in tenths
    MinKTenths,
    ForcePass       \* forced-pass interval, in ticks

ASSUME RatioAssumption ==
    /\ {"success", "failure", "drop"} \subseteq Kinds
    /\ Protection \in Nat /\ ForcePass \in Nat \ {0}
    /\ MinKTenths \in Nat /\ KTenths \in Nat /\ MinKTenths <= KTenths

VARIABLES
    flying,     \* permissions not reported yet
    passed,     \* lastPass is set
    sincePass,  \* now - lastPass, saturated at ForcePass
    denying,    \* history: calls were denied and none admitted since
    starved     \* history: ticks since the first of them, saturated

guardVars == <<passed, sincePass>>
starveVars == <<denying, starved>>
ratioVars == <<windowVars, flying, guardVars, starveVars>>

RatioInit ==
    /\ WindowInit
    /\ flying = {}
    /\ passed = FALSE /\ sincePass = 0
    /\ denying = FALSE /\ starved = 0

-----------------------------------------------------------------------------
(* history: one read of the window, oldest bucket first *)

Ages == 0..(Buckets - Elapsed - 1)
At(i) == ring[(offset + Elapsed + 1 + i) % Buckets]

Accepts == Count("success")
Total == Accepts + Count("failure") + Count("drop")

\* The run of failure-only buckets, and of failure-free ones, that ends at the
\* current bucket; buckets without an answer do not break a run.
FailingBuckets ==
    Cardinality({i \in Ages : /\ At(i)["failure"] > 0
                              /\ \A j \in Ages : j >= i => At(j)["success"] = 0})
WorkingBuckets ==
    Cardinality({i \in Ages : /\ At(i)["success"] > 0
                              /\ \A j \in Ages : j >= i => At(j)["failure"] = 0})

\* Mutant: the protection is added where it is subtracted.
SaturatedUnprotected ==
    LET weight == KTenths * Buckets - (KTenths - MinKTenths) * FailingBuckets
    IN  (Total + Protection) * 10 * Buckets > weight * Accepts

\* dropRatio > 0: more events than the protection and the weighted accepts
\* justify.  The weight is in tenths of a bucket.
Saturated ==
    LET weight == KTenths * Buckets - (KTenths - MinKTenths) * FailingBuckets
    IN  (Total - Protection) * 10 * Buckets > weight * Accepts

\* Mutant: the interval is never over.
PassDueNever == FALSE

PassDue == passed /\ sincePass >= ForcePass

-----------------------------------------------------------------------------
(* Allow *)

Granted(c) ==
    /\ c \notin flying
    /\ flying' = flying \cup {c}
    /\ denying' = FALSE
    /\ starved' = 0
    /\ UNCHANGED windowVars

AllowQuiet(c) == ~Saturated /\ Granted(c) /\ UNCHANGED guardVars

\* Forced, or lucky: the admission is stamped.
AllowStamped(c) ==
    /\ Saturated
    /\ Granted(c)
    /\ passed' = TRUE
    /\ sincePass' = 0

\* The denial is an event of the window.  All-healthy buckets dilute the
\* ratio to zero.
Deny ==
    /\ Saturated /\ ~PassDue
    /\ WorkingBuckets < Buckets
    /\ Record("drop")
    /\ denying' = TRUE
    /\ UNCHANGED <<flying, guardVars, starved>>

-----------------------------------------------------------------------------
(* Report, once: a gateway cut records nothing *)

RatioReport(c, outcome) ==
    /\ c \in flying
    /\ flying' = flying \ {c}
    /\ \/ outcome \in {"success", "clientFault", "slow"} /\ Record("success")
       \/ outcome = "serverFault" /\ Record("failure")
       \/ outcome = "gatewayTerminated" /\ UNCHANGED windowVars
    /\ UNCHANGED <<guardVars, starveVars>>

\* An operator clears the guard.
RatioReset ==
    /\ ring' = Cleared /\ offset' = 0 /\ lag' = 0
    /\ recent' = Cleared /\ overrun' = FALSE
    /\ passed' = FALSE /\ sincePass' = 0
    /\ denying' = FALSE /\ starved' = 0
    /\ UNCHANGED flying

Saturating(n) == IF n < ForcePass THEN n + 1 ELSE n

RatioTick ==
    /\ WindowTick
    /\ sincePass' = IF passed THEN Saturating(sincePass) ELSE sincePass
    /\ starved' = IF denying THEN Saturating(starved) ELSE starved
    /\ UNCHANGED <<flying, passed, denying>>

RatioOutcomes == {"success", "clientFault", "slow", "serverFault", "gatewayTerminated"}

RatioNext ==
    \/ \E c \in Permissions :
        \/ AllowQuiet(c) \/ AllowStamped(c)
        \/ \E outcome \in RatioOutcomes : RatioReport(c, outcome)
    \/ Deny \/ RatioReset \/ RatioTick

RatioSpec == RatioInit /\ [][RatioNext]_ratioVars

-----------------------------------------------------------------------------
\* This step denies a call.
Denied == recent'[0]["drop"] > recent[0]["drop"]

\* A call is denied only on more than Protection events of the last window of
\* wall-clock time: light traffic and old grudges never deny, however reads,
\* late reports and idle times alternate.
DeniesOnRecentEvents ==
    [][Denied => TrueCount("success") + TrueCount("failure") + TrueCount("drop")
                   > Protection]_ratioVars

\* Once a saturated guard has admitted a call, no run of denials lasts a
\* forced-pass interval.
NoStarvation == [][Denied /\ passed => starved < ForcePass]_ratioVars
=============================================================================
