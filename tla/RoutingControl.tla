--------------------------- MODULE RoutingControl ---------------------------
(***************************************************************************)
(* Who takes an upstream out of rotation and who brings it back: the       *)
(* routing switch (internal/router/control.go), the credential rings       *)
(* (internal/upstream/credential.go), the fatal hook of the request        *)
(* goroutines and the enable callback (cmd/breakwater/serve.go), and the   *)
(* recovery loop (cmd/breakwater/recovery.go).                             *)
(*                                                                         *)
(* The switch is one lock; the rings are atomic flags without one, so the  *)
(* hook's count and the callback's revival go flag by flag and interleave. *)
(***************************************************************************)
EXTENDS Integers, FiniteSets

CONSTANTS
    Upstreams,
    RingSize,       \* credentials per upstream; 0 for an adapter without a ring
    Probed,         \* upstreams with a probe_url
    Workers,        \* goroutines serving requests
    Passes,         \* healthy probes that restore an upstream
    Backoff,        \* ceiling of the probe ladder, in intervals; 0 turns it off
    Nobody

ASSUME ControlAssumption ==
    /\ RingSize \in [Upstreams -> Nat] /\ Probed \subseteq Upstreams
    /\ Passes \in Nat \ {0} /\ Backoff \in Nat
    /\ Nobody \notin Upstreams

VARIABLES
    manual,     \* disabledUpstreams
    auto,       \* autoDisabled
    dead,       \* retired positions of each ring
    healthy,    \* upstreams whose probe endpoint answers 2xx (environment)
    worker,     \* one request goroutine: where it is, on what, what it counted;
                \* raced is history: a revival overlapped its hook
    operator,   \* the admin call in its enable callback
    rec,        \* the recovery loop: where it is, on what, what is left of the pass
    book        \* its probeBook: passes, the last wait scheduled after a failure
                \* (for the failure count) and the intervals left of it

switch == <<manual, auto>>
vars == <<switch, dead, healthy, worker, operator, rec, book>>

Credentials(u) == 1..RingSize[u]
Idle == [at |-> "idle", up |-> Nobody, cred |-> 0, pos |-> 1, raced |-> FALSE]
Rest == [at |-> "idle", up |-> Nobody, pos |-> 1, todo |-> {}]
Blank == [passes |-> 0, rung |-> 0, wait |-> 0]

Init ==
    /\ manual = {} /\ auto = {}
    /\ dead = [u \in Upstreams |-> {}]
    /\ healthy = Probed
    /\ worker = [w \in Workers |-> Idle]
    /\ operator = Rest /\ rec = Rest
    /\ book = [u \in Probed |-> Blank]

-----------------------------------------------------------------------------
(* Requests *)

\* UpstreamEnabled
InRotation(u) == u \notin manual \cup auto

\* Candidates: the upstream is enabled when the request is routed.
Route(w, u) ==
    /\ worker[w].at = "idle" /\ InRotation(u)
    /\ worker' = [worker EXCEPT ![w].at = "routed", ![w].up = u]
    /\ UNCHANGED <<switch, dead, healthy, operator, rec, book>>

\* Forward picks a living credential; -1 (here 0) rides an adapter without a
\* ring.
Pick(w, c) ==
    LET u == worker[w].up
    IN  /\ worker[w].at = "routed"
        /\ IF RingSize[u] = 0 THEN c = 0 ELSE c \in Credentials(u) \ dead[u]
        /\ worker' = [worker EXCEPT ![w].at = "exchange", ![w].cred = c]
        /\ UNCHANGED <<switch, dead, healthy, operator, rec, book>>

\* No credential is alive, or the exchange ends without a fatal condition.
Leave(w) ==
    /\ \/ worker[w].at = "exchange"
       \/ worker[w].at = "routed" /\ RingSize[worker[w].up] > 0
            /\ dead[worker[w].up] = Credentials(worker[w].up)
    /\ worker' = [worker EXCEPT ![w] = Idle]
    /\ UNCHANGED <<switch, dead, healthy, operator, rec, book>>

-----------------------------------------------------------------------------
(* autoDisableHook *)

\* Mutant: a credential another report retired convicts the upstream.
RepeatDisables(w) == IF worker[w].cred \in dead[worker[w].up] THEN "disable" ELSE "count"

\* Newly retired or not, the living are counted.
AfterRetire(w) == "count"

\* A fatal condition: the credential is retired by one atomic swap; a report
\* without a ring goes straight to the upstream.
Fatal(w) ==
    LET u == worker[w].up
        c == worker[w].cred
    IN  /\ worker[w].at = "exchange"
        /\ IF c = 0
           THEN worker' = [worker EXCEPT ![w].at = "disable"] /\ UNCHANGED dead
           ELSE /\ dead' = [dead EXCEPT ![u] = @ \cup {c}]
                /\ worker' = [worker EXCEPT ![w].at = AfterRetire(w), ![w].cred = 0]
        /\ UNCHANGED <<switch, healthy, operator, rec, book>>

\* AliveCredentials, one flag at a time: a living one keeps the upstream.
Count(w) ==
    LET k == worker[w]
    IN  /\ k.at = "count"
        /\ worker' =
             [worker EXCEPT ![w] =
                 IF k.pos \notin dead[k.up] THEN Idle
                 ELSE IF k.pos = RingSize[k.up] THEN [k EXCEPT !.at = "disable", !.pos = 1]
                 ELSE [k EXCEPT !.pos = k.pos + 1]]
        /\ UNCHANGED <<switch, dead, healthy, operator, rec, book>>

\* AutoDisableUpstream: a manual disable subsumes the automatic one.
AutoDisable(w) ==
    /\ worker[w].at = "disable"
    /\ auto' = IF worker[w].up \in manual THEN auto ELSE auto \cup {worker[w].up}
    /\ worker' = [worker EXCEPT ![w] = Idle]
    /\ UNCHANGED <<manual, dead, healthy, operator, rec, book>>

-----------------------------------------------------------------------------
(* The operator *)

Disable(u) ==
    /\ operator.at = "idle"
    /\ auto' = auto \ {u} /\ manual' = manual \cup {u}
    /\ UNCHANGED <<dead, healthy, worker, operator, rec, book>>

\* Mutant: only a lifted auto disable runs the callback.
EnableAuto(u) ==
    /\ operator.at = "idle"
    /\ auto' = auto \ {u} /\ manual' = manual \ {u}
    /\ operator' = IF u \in auto THEN [Rest EXCEPT !.at = "revive", !.up = u] ELSE Rest
    /\ UNCHANGED <<dead, healthy, worker, rec, book>>

\* Both channels are cleared, then the callback runs outside the lock.
Enable(u) ==
    /\ operator.at = "idle"
    /\ auto' = auto \ {u} /\ manual' = manual \ {u}
    /\ operator' = [Rest EXCEPT !.at = "revive", !.up = u]
    /\ UNCHANGED <<dead, healthy, worker, rec, book>>

\* reviveRing and revive, one flag at a time.
Revive(who) ==
    IF who.pos > RingSize[who.up] THEN UNCHANGED <<dead, worker>>
    ELSE /\ dead' = [dead EXCEPT ![who.up] = @ \ {who.pos}]
         /\ worker' = [w \in Workers |-> [worker[w] EXCEPT
                !.raced = @ \/ (worker[w].up = who.up /\ worker[w].at \in {"count", "disable"})]]

OperatorRevives ==
    /\ operator.at = "revive"
    /\ Revive(operator)
    /\ operator' = IF operator.pos >= RingSize[operator.up] THEN Rest
                   ELSE [operator EXCEPT !.pos = @ + 1]
    /\ UNCHANGED <<switch, healthy, rec, book>>

-----------------------------------------------------------------------------
(* The recovery loop *)

\* An interval of a scheduled wait is over.
Waited(b) == [b EXCEPT !.wait = IF @ > 0 THEN @ - 1 ELSE 0]

\* A tick lists the auto-disabled upstreams; for the others time just passes.
Tick ==
    /\ rec.at = "idle"
    /\ rec' = [rec EXCEPT !.at = "pass", !.todo = auto]
    /\ book' = [u \in Probed |-> IF u \in auto THEN book[u] ELSE Waited(book[u])]
    /\ UNCHANGED <<switch, dead, healthy, worker, operator>>

PassEnds ==
    /\ rec.at = "pass" /\ rec.todo = {}
    /\ rec' = Rest
    /\ UNCHANGED <<switch, dead, healthy, worker, operator, book>>

\* Mutant: every skipped pass schedules the next probe anew.
SkipReschedules(u) ==
    /\ rec.at = "pass" /\ u \in rec.todo
    /\ u \in Probed => Backoff > 0 /\ book[u].wait > 0
    /\ book' = IF u \in Probed THEN [book EXCEPT ![u].wait = Backoff] ELSE book
    /\ rec' = [rec EXCEPT !.todo = @ \ {u}]
    /\ UNCHANGED <<switch, dead, healthy, worker, operator>>

\* An upstream without a probe, or one not due yet.  The clock of the tick
\* decides on which side of the boundary it falls.
Skip(u) ==
    /\ rec.at = "pass" /\ u \in rec.todo
    /\ u \in Probed => Backoff > 0 /\ book[u].wait > 0
    /\ book' = IF u \in Probed THEN [book EXCEPT ![u] = Waited(@)] ELSE book
    /\ rec' = [rec EXCEPT !.todo = @ \ {u}]
    /\ UNCHANGED <<switch, dead, healthy, worker, operator>>

BeginProbe(u) ==
    /\ rec.at = "pass" /\ u \in rec.todo \cap Probed
    /\ Backoff > 0 => book[u].wait <= 1
    /\ rec' = [rec EXCEPT !.at = "probe", !.up = u, !.todo = @ \ {u}]
    /\ UNCHANGED <<switch, dead, healthy, worker, operator, book>>

\* probeBackoff in intervals, from the wait of the failure before: one after
\* the first failure, then doubled, never past the ceiling.
ProbeBackoff(rung) ==
    LET delay == IF rung = 0 THEN 1 ELSE 2 * rung
    IN  IF delay > Backoff THEN Backoff ELSE delay

\* The probe fails or times out.
ProbeFails(u) ==
    /\ rec.at = "probe" /\ u = rec.up /\ u \notin healthy
    /\ LET delay == ProbeBackoff(book[u].rung)
       IN  book' = [book EXCEPT ![u] = [passes |-> 0, rung |-> delay, wait |-> delay]]
    /\ rec' = [rec EXCEPT !.at = "pass", !.up = Nobody]
    /\ UNCHANGED <<switch, dead, healthy, worker, operator>>

\* A healthy answer forgets the ladder; enough of them lift the disable.
ProbeAnswers(u) ==
    /\ rec.at = "probe" /\ u = rec.up /\ u \in healthy
    /\ LET n == book[u].passes + 1
       IN  /\ book' = [book EXCEPT ![u] = [Blank EXCEPT !.passes = n]]
           /\ rec' = IF n < Passes THEN [rec EXCEPT !.at = "pass", !.up = Nobody]
                     ELSE [rec EXCEPT !.at = "lift"]
    /\ UNCHANGED <<switch, dead, healthy, worker, operator>>

\* AutoEnableUpstream, the switch half.
AutoEnable ==
    /\ rec.at = "lift"
    /\ auto' = auto \ {rec.up}
    /\ rec' = [rec EXCEPT !.at = "revive", !.pos = 1]
    /\ UNCHANGED <<manual, dead, healthy, worker, operator, book>>

\* ... and the callback; then the passes are forgotten.
RecoveryRevives ==
    /\ rec.at = "revive"
    /\ Revive(rec)
    /\ IF rec.pos >= RingSize[rec.up]
       THEN /\ rec' = [rec EXCEPT !.at = "pass", !.up = Nobody, !.pos = 1]
            /\ book' = [book EXCEPT ![rec.up].passes = 0]
       ELSE /\ rec' = [rec EXCEPT !.pos = @ + 1]
            /\ UNCHANGED book
    /\ UNCHANGED <<switch, healthy, operator>>

\* The health endpoint comes and goes.
Flip(u) ==
    /\ healthy' = IF u \in healthy THEN healthy \ {u} ELSE healthy \cup {u}
    /\ UNCHANGED <<switch, dead, worker, operator, rec, book>>

-----------------------------------------------------------------------------

Request(w) ==
    \/ \E u \in Upstreams : Route(w, u)
    \/ \E c \in UNION {0..RingSize[u] : u \in Upstreams} : Pick(w, c)
    \/ Leave(w) \/ Fatal(w)

Hook(w) == Count(w) \/ AutoDisable(w)

Recovery ==
    \/ Tick \/ PassEnds
    \/ \E u \in Upstreams : Skip(u)
    \/ \E u \in Probed : BeginProbe(u) \/ ProbeFails(u) \/ ProbeAnswers(u)
    \/ AutoEnable \/ RecoveryRevives

Next ==
    \/ \E w \in Workers : Request(w) \/ Hook(w)
    \/ OperatorRevives
    \/ \E u \in Upstreams : Disable(u) \/ Enable(u)
    \/ Recovery
    \/ \E u \in Probed : Flip(u)

\* Goroutines are scheduled, the ticker ticks, a probe ends with its timeout.
\* Requests, the operator and the environment owe nothing.
Fairness ==
    /\ WF_vars(Recovery)
    /\ WF_vars(OperatorRevives)
    /\ \A w \in Workers : WF_vars(Hook(w))

Spec == Init /\ [][Next]_vars /\ Fairness

-----------------------------------------------------------------------------
(* Properties *)

Somebody == Upstreams \cup {Nobody}

\* Every variable keeps its type.
TypeOK ==
    /\ manual \subseteq Upstreams /\ auto \subseteq Upstreams /\ healthy \subseteq Probed
    /\ dead \in [Upstreams -> SUBSET Nat]
    /\ \A u \in Upstreams : dead[u] \subseteq Credentials(u)
    /\ worker \in [Workers -> [at : {"idle", "routed", "exchange", "count", "disable"},
                             up : Somebody, cred : Nat, pos : Nat, raced : BOOLEAN]]
    /\ operator \in [at : {"idle", "revive"}, up : Somebody, pos : Nat,
                     todo : SUBSET Upstreams]
    /\ rec \in [at : {"idle", "pass", "probe", "lift", "revive"}, up : Somebody, pos : Nat,
                todo : SUBSET Upstreams]
    /\ book \in [Probed -> [passes : 0..Passes, rung : 0..Backoff, wait : 0..Backoff]]

\* Someone is still to act on the upstream: a hook that has retired a
\* credential, or a callback that is reviving the ring.
Pending(u) ==
    \/ \E w \in Workers : worker[w].up = u /\ worker[w].at \in {"count", "disable"}
    \/ \E who \in {operator, rec} : who.at = "revive" /\ who.up = u

\* An upstream in rotation has a living credential, or someone is about to
\* take it out or revive it: whatever reports, operators and recoveries
\* interleave, none is left in rotation with a dead ring (serve.go:582,
\* control.go:162).  Every variable keeps its type.
NoDeadRotation ==
    /\ TypeOK
    /\ \A u \in Upstreams :
        RingSize[u] > 0 /\ InRotation(u) /\ dead[u] = Credentials(u) => Pending(u)

\* A hook takes the upstream out of rotation only when its whole ring is
\* dead, unless a revival overlapped the hook: counts of concurrent reports
\* never convict an upstream that can still serve (serve.go:576).
OnlyTheLastDeathDisables ==
    [][\A w \in Workers :
        LET u == worker[w].up
        IN  worker[w].at = "disable" /\ worker'[w].at = "idle" /\ ~worker[w].raced
            /\ RingSize[u] > 0 /\ u \in auto' \ auto
                => dead[u] = Credentials(u)]_vars

\* A probed upstream whose endpoint stays healthy never remains auto-disabled
\* (recovery.go:126).
HealthyReturns ==
    \A u \in Probed : <>[](u \in healthy) => []<>(u \notin auto)
=============================================================================
