------------------------ MODULE RoutingControlProofs ------------------------
(***************************************************************************)
(* Proofs about the routing switch, the credential rings, the fatal hook   *)
(* and the recovery loop (RoutingControl), for every number of upstreams,  *)
(* ring sizes, request goroutines and limits.                              *)
(***************************************************************************)
EXTENDS RoutingControl, TLAPS

\* Where a request goroutine is on its upstream: the hook counts positions of
\* a ring, and unless a revival raced it, what it passed is still dead.
Working(w) ==
    LET k == worker[w]
        u == k.up
    IN  /\ k.at # "idle" => u \in Upstreams
        /\ k.at # "count" => k.pos = 1
        /\ k.at = "exchange" =>
             IF RingSize[u] = 0 THEN k.cred = 0 ELSE k.cred \in Credentials(u)
        /\ k.at = "count" => RingSize[u] > 0 /\ k.pos \in Credentials(u)
        /\ k.at = "count" /\ ~k.raced => \A c \in Credentials(u) : c < k.pos => c \in dead[u]
        /\ k.at = "disable" /\ ~k.raced /\ RingSize[u] > 0 => dead[u] = Credentials(u)

\* A callback goes over the ring from its first position to its last.
Reviving(who) ==
    IF who.at = "revive"
    THEN who.up \in Upstreams /\ (who.pos = 1 \/ who.pos \in Credentials(who.up))
    ELSE who.pos = 1

\* The recovery loop works on probed upstreams, and keeps the passes at the
\* threshold only until it has lifted the disable.
Recovering ==
    /\ rec.at \in {"probe", "lift", "revive"} => rec.up \in Probed
    /\ \A u \in Probed :
        book[u].passes = Passes => rec.at \in {"lift", "revive"} /\ rec.up = u

\* No ring is dead in rotation but for a moment.
Rotation ==
    \A u \in Upstreams :
        RingSize[u] > 0 /\ InRotation(u) /\ dead[u] = Credentials(u) => Pending(u)

IInv ==
    /\ TypeOK
    /\ \A w \in Workers : Working(w)
    /\ Reviving(operator) /\ Reviving(rec)
    /\ Recovering
    /\ Rotation

\* The initial states satisfy the invariant.
LEMMA InitInv == Init => IInv
<1> SUFFICES ASSUME Init PROVE IInv
  OBVIOUS
<1> USE ControlAssumption DEF ControlAssumption, Init, Idle, Rest, Blank
<1>1. TypeOK
  BY DEF TypeOK, Somebody, Credentials
<1>2. (\A w \in Workers : Working(w)) /\ Reviving(operator) /\ Reviving(rec)
  BY DEF Working, Reviving
<1>3. Recovering
  BY DEF Recovering
<1>4. Rotation
  BY DEF Rotation, Credentials
<1> QED BY <1>1, <1>2, <1>3, <1>4 DEF IInv

-----------------------------------------------------------------------------
(* Requests and the fatal hook *)

\* A step of one goroutine that touches neither the switch nor the rings.
LEMMA QuietStep ==
    ASSUME IInv, NEW w \in Workers, NEW k,
           k \in [at : {"idle", "routed", "exchange", "count", "disable"},
                  up : Somebody, cred : Nat, pos : Nat, raced : BOOLEAN],
           worker' = [worker EXCEPT ![w] = k], Working(w)',
           \A u \in Upstreams :
               /\ worker[w].up = u /\ worker[w].at \in {"count", "disable"}
               /\ RingSize[u] > 0 /\ InRotation(u) /\ dead[u] = Credentials(u)
               => k.up = u /\ k.at \in {"count", "disable"},
           UNCHANGED <<switch, dead, healthy, operator, rec, book>>
    PROVE  IInv'
<1> USE DEF switch
<1>0. worker'[w] = k /\ \A v \in Workers : v # w => worker'[v] = worker[v]
  BY DEF IInv, TypeOK
<1>1. TypeOK'
  BY DEF IInv, TypeOK
<1>2. ASSUME NEW v \in Workers PROVE Working(v)'
  BY <1>0 DEF IInv, Working
<1>3. (Reviving(operator) /\ Reviving(rec) /\ Recovering)'
  BY DEF IInv, Reviving, Recovering
<1>4. Rotation'
  <2> SUFFICES ASSUME NEW u \in Upstreams, RingSize[u] > 0, InRotation(u),
                      dead[u] = Credentials(u)
               PROVE  Pending(u)'
    BY DEF Rotation, InRotation
  <2>1. Pending(u)
    BY DEF IInv, Rotation
  <2>2. CASE \E v \in Workers : worker[v].up = u /\ worker[v].at \in {"count", "disable"}
    <3>1. PICK v \in Workers : worker[v].up = u /\ worker[v].at \in {"count", "disable"}
      BY <2>2
    <3>2. worker'[v].up = u /\ worker'[v].at \in {"count", "disable"}
      BY <1>0, <3>1
    <3> QED BY <3>2 DEF Pending
  <2>3. CASE \E who \in {operator, rec} : who.at = "revive" /\ who.up = u
    BY <2>3 DEF Pending
  <2> QED BY <2>1, <2>2, <2>3 DEF Pending
<1> QED BY <1>1, <1>2, <1>3, <1>4 DEF IInv

\* Routing, picking a credential and leaving.
LEMMA RequestStep ==
    ASSUME IInv, NEW w \in Workers,
           \/ \E u \in Upstreams : Route(w, u)
           \/ \E c \in UNION {0..RingSize[u] : u \in Upstreams} : Pick(w, c)
           \/ Leave(w)
    PROVE  IInv'
<1> DEFINE Types == [at : {"idle", "routed", "exchange", "count", "disable"},
                     up : Somebody, cred : Nat, pos : Nat, raced : BOOLEAN]
<1>0. worker[w] \in Types /\ Working(w) /\ DOMAIN worker = Workers
  BY DEF IInv, TypeOK
<1>1. ASSUME NEW u \in Upstreams, Route(w, u) PROVE IInv'
  <2> DEFINE k == [worker[w] EXCEPT !.at = "routed", !.up = u]
  <2>1. /\ worker' = [worker EXCEPT ![w] = k] /\ worker[w].at = "idle"
        /\ UNCHANGED <<switch, dead, healthy, operator, rec, book>>
    BY <1>1 DEF Route
  <2>2. k \in Types /\ k.at = "routed" /\ k.up = u /\ k.pos = 1
    BY <1>0, <2>1 DEF Working, Somebody
  <2> HIDE DEF k
  <2>3. Working(w)'
    BY <1>0, <2>1, <2>2 DEF Working
  <2> QED BY <2>1, <2>2, <2>3, QuietStep
<1>2. ASSUME NEW c \in UNION {0..RingSize[u] : u \in Upstreams}, Pick(w, c) PROVE IInv'
  <2> DEFINE k == [worker[w] EXCEPT !.at = "exchange", !.cred = c]
  <2>1. /\ worker' = [worker EXCEPT ![w] = k] /\ worker[w].at = "routed"
        /\ IF RingSize[worker[w].up] = 0 THEN c = 0
           ELSE c \in Credentials(worker[w].up) \ dead[worker[w].up]
        /\ UNCHANGED <<switch, dead, healthy, operator, rec, book>>
    BY <1>2 DEF Pick
  <2>0. c \in Nat
    <3>1. PICK u \in Upstreams : c \in 0..RingSize[u]
      BY <1>2
    <3> QED BY <3>1, ControlAssumption DEF ControlAssumption
  <2>2. /\ k \in Types /\ k.at = "exchange" /\ k.up = worker[w].up /\ k.pos = 1
        /\ k.cred = c
    BY <1>0, <2>0, <2>1 DEF Working
  <2> HIDE DEF k
  <2>3. Working(w)'
    BY <1>0, <2>1, <2>2 DEF Working
  <2> QED BY <2>1, <2>2, <2>3, QuietStep
<1>3. CASE Leave(w)
  <2>1. /\ worker' = [worker EXCEPT ![w] = Idle] /\ worker[w].at \in {"exchange", "routed"}
        /\ UNCHANGED <<switch, dead, healthy, operator, rec, book>>
    BY <1>3 DEF Leave
  <2>2. Idle \in Types /\ Idle.at = "idle" /\ Idle.pos = 1
    BY DEF Idle, Somebody
  <2>3. Working(w)'
    BY <1>0, <2>1, <2>2 DEF Working
  <2> QED BY <2>1, <2>2, <2>3, QuietStep
<1> QED BY <1>1, <1>2, <1>3

\* The hook retires the credential: from here on someone counts the living.
LEMMA FatalStep ==
    ASSUME IInv, NEW w \in Workers, Fatal(w)
    PROVE  IInv'
<1> DEFINE Types == [at : {"idle", "routed", "exchange", "count", "disable"},
                     up : Somebody, cred : Nat, pos : Nat, raced : BOOLEAN]
           u == worker[w].up
           c == worker[w].cred
<1>0. /\ worker \in [Workers -> Types] /\ Working(w) /\ worker[w].at = "exchange"
      /\ u \in Upstreams /\ worker[w].pos = 1
      /\ UNCHANGED <<switch, healthy, operator, rec, book>>
  BY DEF IInv, TypeOK, Fatal, Working
<1>1. CASE c = 0
  <2> DEFINE k == [worker[w] EXCEPT !.at = "disable"]
  <2>1. worker' = [worker EXCEPT ![w] = k] /\ UNCHANGED dead
    BY <1>1 DEF Fatal
  <2>2. k \in Types /\ k.at = "disable" /\ k.up = u /\ k.pos = 1 /\ RingSize[u] = 0
    BY <1>0, <1>1, ControlAssumption DEF ControlAssumption, Working, Credentials
  <2> HIDE DEF k
  <2>3. Working(w)'
    BY <1>0, <2>1, <2>2 DEF Working
  <2> QED BY <1>0, <2>1, <2>2, <2>3, QuietStep
<1>2. CASE c # 0
  <2> DEFINE k == [worker[w] EXCEPT !.at = "count", !.cred = 0]
  <2>1. worker' = [worker EXCEPT ![w] = k] /\ dead' = [dead EXCEPT ![u] = @ \cup {c}]
    BY <1>2 DEF Fatal, AfterRetire
  <2>2. /\ k \in Types /\ k.at = "count" /\ k.up = u /\ k.pos = 1
        /\ c \in Credentials(u) /\ RingSize[u] > 0 /\ 1 \in Credentials(u)
    <3>1. k \in Types /\ k.at = "count" /\ k.up = u /\ k.pos = 1
      BY <1>0
    <3>2. c \in Credentials(u) /\ RingSize[u] > 0
      BY <1>0, <1>2, ControlAssumption DEF ControlAssumption, Working
    <3>3. 1 \in Credentials(u)
      BY <1>0, <3>2, ControlAssumption DEF ControlAssumption, Credentials
    <3> QED BY <3>1, <3>2, <3>3
  <2>3. /\ dead' \in [Upstreams -> SUBSET Nat]
        /\ \A x \in Upstreams : dead[x] \subseteq dead'[x] /\ dead'[x] \subseteq Credentials(x)
        /\ \A x \in Upstreams : x # u => dead'[x] = dead[x]
    BY <1>0, <2>1, <2>2 DEF IInv, TypeOK, Credentials
  <2> HIDE DEF k, u, c
  <2>4. worker'[w] = k /\ \A v \in Workers : v # w => worker'[v] = worker[v]
    BY <1>0, <2>1
  <2>5. TypeOK'
    BY <1>0, <2>1, <2>2, <2>3 DEF IInv, TypeOK, switch
  <2>6. ASSUME NEW v \in Workers PROVE Working(v)'
    <3>1. CASE v = w
      BY <2>2, <2>4, <3>1, <1>0 DEF Working, Credentials
    <3>2. CASE v # w
      <4>1. Working(v) /\ worker'[v] = worker[v] /\ (worker[v].at # "idle" => worker[v].up \in Upstreams)
        BY <2>4, <3>2 DEF IInv, Working
      <4>2. worker[v].at = "disable" /\ ~worker[v].raced /\ RingSize[worker[v].up] > 0
              => dead'[worker[v].up] = Credentials(worker[v].up)
        BY <2>3, <4>1 DEF Working
      <4> QED BY <2>3, <4>1, <4>2 DEF Working
    <3> QED BY <3>1, <3>2
  <2>7. (Reviving(operator) /\ Reviving(rec) /\ Recovering)'
    BY <1>0 DEF IInv, Reviving, Recovering
  <2>8. Rotation'
    <3> SUFFICES ASSUME NEW x \in Upstreams, RingSize[x] > 0, InRotation(x)',
                        dead'[x] = Credentials(x)
                 PROVE  Pending(x)'
      BY DEF Rotation
    <3>1. CASE x = u
      BY <2>2, <2>4, <3>1 DEF Pending
    <3>2. CASE x # u
      <4>1. Pending(x)
        BY <1>0, <2>3, <3>2 DEF IInv, Rotation, InRotation, switch
      <4>2. ASSUME NEW v \in Workers, worker[v].up = x, worker[v].at \in {"count", "disable"}
            PROVE  Pending(x)'
        BY <1>0, <2>4, <4>2 DEF Pending
      <4>3. ASSUME NEW who \in {operator, rec}, who.at = "revive", who.up = x
            PROVE  Pending(x)'
        BY <1>0, <4>3 DEF Pending
      <4> QED BY <4>1, <4>2, <4>3 DEF Pending
    <3> QED BY <3>1, <3>2
  <2> QED BY <2>5, <2>6, <2>7, <2>8 DEF IInv
<1> QED BY <1>1, <1>2

\* One flag of the count: a living credential clears the upstream, the last
\* dead one convicts it.
LEMMA CountStep ==
    ASSUME IInv, NEW w \in Workers, Count(w)
    PROVE  IInv'
<1> DEFINE Types == [at : {"idle", "routed", "exchange", "count", "disable"},
                     up : Somebody, cred : Nat, pos : Nat, raced : BOOLEAN]
           u == worker[w].up
           old == worker[w]
<1>0. /\ worker \in [Workers -> Types] /\ Working(w) /\ old.at = "count"
      /\ u \in Upstreams /\ RingSize[u] \in Nat /\ RingSize[u] > 0
      /\ old.pos \in Credentials(u) /\ dead[u] \subseteq Credentials(u)
      /\ UNCHANGED <<switch, dead, healthy, operator, rec, book>>
  BY ControlAssumption DEF ControlAssumption, IInv, TypeOK, Count, Working
<1>1. CASE old.pos \notin dead[u]
  <2>1. worker' = [worker EXCEPT ![w] = Idle]
    BY <1>0, <1>1 DEF Count
  <2>2. Idle \in Types /\ Idle.at = "idle" /\ Idle.pos = 1
    BY DEF Idle, Somebody
  <2>3. Working(w)'
    BY <1>0, <2>1, <2>2 DEF Working
  <2> QED BY <1>0, <1>1, <2>1, <2>2, <2>3, QuietStep
<1>2. CASE old.pos \in dead[u] /\ old.pos = RingSize[u]
  <2> DEFINE k == [old EXCEPT !.at = "disable", !.pos = 1]
  <2>1. worker' = [worker EXCEPT ![w] = k]
    BY <1>0, <1>2 DEF Count
  <2>2. /\ k \in Types /\ k.at = "disable" /\ k.up = u /\ k.pos = 1
        /\ k.raced = old.raced
    BY <1>0
  <2>3. ~old.raced => dead[u] = Credentials(u)
    <3>1. \A c \in Credentials(u) : c < old.pos \/ c = old.pos
      BY <1>0, <1>2 DEF Credentials
    <3>2. ~old.raced => \A c \in Credentials(u) : c < old.pos => c \in dead[u]
      BY <1>0 DEF Working
    <3> HIDE DEF old, u
    <3> QED BY <1>0, <1>2, <3>1, <3>2
  <2> HIDE DEF k
  <2>4. Working(w)'
    BY <1>0, <2>1, <2>2, <2>3 DEF Working
  <2> QED BY <1>0, <2>1, <2>2, <2>4, QuietStep
<1>3. CASE old.pos \in dead[u] /\ old.pos # RingSize[u]
  <2> DEFINE k == [old EXCEPT !.pos = old.pos + 1]
  <2>1. worker' = [worker EXCEPT ![w] = k]
    BY <1>0, <1>3 DEF Count
  <2>2. /\ k \in Types /\ k.at = "count" /\ k.up = u /\ k.pos = old.pos + 1
        /\ k.raced = old.raced
    BY <1>0
  <2>3. ~old.raced => \A c \in Credentials(u) : c < old.pos + 1 => c \in dead[u]
    BY <1>0, <1>3 DEF Working, Credentials
  <2>4. old.pos + 1 \in Credentials(u)
    BY <1>0, <1>3 DEF Credentials
  <2> HIDE DEF k
  <2>5. Working(w)'
    BY <1>0, <2>1, <2>2, <2>3, <2>4 DEF Working
  <2> QED BY <1>0, <2>1, <2>2, <2>5, QuietStep
<1> QED BY <1>1, <1>2, <1>3

\* The conviction: the upstream leaves rotation, so nobody needs to act on it.
LEMMA AutoDisableStep ==
    ASSUME IInv, NEW w \in Workers, AutoDisable(w)
    PROVE  IInv'
<1> DEFINE Types == [at : {"idle", "routed", "exchange", "count", "disable"},
                     up : Somebody, cred : Nat, pos : Nat, raced : BOOLEAN]
           u == worker[w].up
<1>0. /\ worker \in [Workers -> Types] /\ u \in Upstreams
      /\ auto' = (IF u \in manual THEN auto ELSE auto \cup {u})
      /\ worker' = [worker EXCEPT ![w] = Idle]
      /\ UNCHANGED <<manual, dead, healthy, operator, rec, book>>
  BY DEF IInv, TypeOK, AutoDisable, Working
<1>1. Idle \in Types /\ Idle.at = "idle" /\ Idle.pos = 1
  BY DEF Idle, Somebody
<1> HIDE DEF u
<1>2. worker'[w] = Idle /\ \A v \in Workers : v # w => worker'[v] = worker[v]
  BY <1>0
<1>3. TypeOK'
  BY <1>0, <1>1 DEF IInv, TypeOK
<1>4. ASSUME NEW v \in Workers PROVE Working(v)'
  BY <1>0, <1>1, <1>2 DEF IInv, Working
<1>5. (Reviving(operator) /\ Reviving(rec) /\ Recovering)'
  BY <1>0 DEF IInv, Reviving, Recovering
<1>6. Rotation'
  <2> SUFFICES ASSUME NEW x \in Upstreams, RingSize[x] > 0, InRotation(x)',
                      dead'[x] = Credentials(x)
               PROVE  Pending(x)'
    BY DEF Rotation
  <2>1. x # u /\ InRotation(x) /\ dead[x] = Credentials(x)
    BY <1>0 DEF InRotation
  <2>2. Pending(x)
    BY <2>1 DEF IInv, Rotation
  <2>3. ASSUME NEW v \in Workers, worker[v].up = x, worker[v].at \in {"count", "disable"}
        PROVE  Pending(x)'
    BY <1>2, <2>1, <2>3 DEF Pending, u
  <2>4. ASSUME NEW who \in {operator, rec}, who.at = "revive", who.up = x
        PROVE  Pending(x)'
    BY <1>0, <2>4 DEF Pending
  <2> QED BY <2>2, <2>3, <2>4 DEF Pending
<1> QED BY <1>3, <1>4, <1>5, <1>6 DEF IInv

-----------------------------------------------------------------------------
(* The operator and the recovery loop *)

\* A step that takes nothing out of a ring and puts nothing back into
\* rotation without a callback to revive it.
LEMMA SwitchStep ==
    ASSUME IInv, TypeOK', Reviving(operator)', Reviving(rec)', Recovering',
           UNCHANGED <<dead, worker>>,
           \A u \in Upstreams : InRotation(u)' =>
               \/ InRotation(u)
               \/ \E who \in {operator', rec'} : who.at = "revive" /\ who.up = u,
           \A who \in {operator, rec} : who.at = "revive" =>
               \E new \in {operator', rec'} : new.at = "revive" /\ new.up = who.up
    PROVE  IInv'
<1>1. ASSUME NEW v \in Workers PROVE Working(v)'
  BY DEF IInv, Working
<1>2. Rotation'
  <2> SUFFICES ASSUME NEW u \in Upstreams, RingSize[u] > 0, InRotation(u)',
                      dead[u] = Credentials(u)
               PROVE  Pending(u)'
    BY DEF Rotation
  <2>1. CASE \E who \in {operator', rec'} : who.at = "revive" /\ who.up = u
    BY <2>1 DEF Pending
  <2>2. CASE InRotation(u)
    <3>1. Pending(u)
      BY <2>2 DEF IInv, Rotation
    <3>2. CASE \E v \in Workers : worker[v].up = u /\ worker[v].at \in {"count", "disable"}
      BY <3>2 DEF Pending
    <3>3. CASE \E who \in {operator, rec} : who.at = "revive" /\ who.up = u
      BY <2>1, <3>3
    <3> QED BY <3>1, <3>2, <3>3 DEF Pending
  <2> QED BY <2>1, <2>2
<1> QED BY <1>1, <1>2 DEF IInv

\* The admin calls.
LEMMA OperatorStep ==
    ASSUME IInv, NEW u \in Upstreams, Disable(u) \/ Enable(u)
    PROVE  IInv'
<1>1. CASE Disable(u)
  <2>1. /\ auto' = auto \ {u} /\ manual' = manual \cup {u}
        /\ UNCHANGED <<dead, healthy, worker, operator, rec, book>>
    BY <1>1 DEF Disable
  <2>2. TypeOK'
    BY <2>1 DEF IInv, TypeOK
  <2>3. (Reviving(operator) /\ Reviving(rec) /\ Recovering)'
    BY <2>1 DEF IInv, Reviving, Recovering
  <2>4. \A x \in Upstreams : InRotation(x)' => InRotation(x)
    BY <2>1 DEF InRotation
  <2> QED BY <2>1, <2>2, <2>3, <2>4, SwitchStep
<1>2. CASE Enable(u)
  <2>1. /\ auto' = auto \ {u} /\ manual' = manual \ {u} /\ operator.at = "idle"
        /\ UNCHANGED <<dead, healthy, worker, rec, book>>
    BY <1>2 DEF Enable
  <2>2. operator' = [at |-> "revive", up |-> u, pos |-> 1, todo |-> {}]
    BY <1>2 DEF Enable, Rest
  <2>3. TypeOK'
    BY <2>1, <2>2 DEF IInv, TypeOK, Somebody
  <2>4. (Reviving(operator) /\ Reviving(rec) /\ Recovering)'
    BY <2>1, <2>2 DEF IInv, Reviving, Recovering
  <2>5. \A x \in Upstreams : InRotation(x)' => InRotation(x) \/ x = u
    BY <2>1 DEF InRotation
  <2> QED BY <2>1, <2>2, <2>3, <2>4, <2>5, SwitchStep
<1> QED BY <1>1, <1>2

\* One flag of a revival: the ring it goes over has a living credential from
\* here on, and the hooks under way on it know that they were raced.
LEMMA ReviveKeeps ==
    ASSUME IInv, NEW who \in {operator, rec}, who.at = "revive", Revive(who),
           UNCHANGED <<switch, healthy>>,
           operator' \in [at : {"idle", "revive"}, up : Somebody, pos : Nat,
                          todo : SUBSET Upstreams],
           rec' \in [at : {"idle", "pass", "probe", "lift", "revive"}, up : Somebody,
                     pos : Nat, todo : SUBSET Upstreams],
           book' \in [Probed -> [passes : 0..Passes, rung : 0..Backoff, wait : 0..Backoff]],
           Reviving(operator)', Reviving(rec)', Recovering',
           \A old \in {operator, rec} : old.at = "revive" =>
               \/ old.up = who.up
               \/ \E new \in {operator', rec'} : new.at = "revive" /\ new.up = old.up
    PROVE  IInv'
<1> DEFINE u == who.up
           pos == who.pos
           Types == [at : {"idle", "routed", "exchange", "count", "disable"},
                     up : Somebody, cred : Nat, pos : Nat, raced : BOOLEAN]
<1>0. /\ u \in Upstreams /\ (pos = 1 \/ pos \in Credentials(u)) /\ RingSize \in [Upstreams -> Nat]
      /\ worker \in [Workers -> Types] /\ dead \in [Upstreams -> SUBSET Nat]
      /\ \A x \in Upstreams : dead[x] \subseteq Credentials(x)
  BY ControlAssumption DEF ControlAssumption, IInv, TypeOK, Reviving
<1>1. /\ dead' \in [Upstreams -> SUBSET Nat] /\ \A x \in Upstreams : dead'[x] \subseteq dead[x]
      /\ \A x \in Upstreams : x # u => dead'[x] = dead[x]
      /\ RingSize[u] > 0 => dead'[u] # Credentials(u)
  <2>1. CASE pos > RingSize[u]
    <3>1. dead' = dead
      BY <2>1 DEF Revive
    <3>2. ~(RingSize[u] > 0)
      BY <1>0, <2>1 DEF Credentials
    <3> QED BY <1>0, <3>1, <3>2
  <2>2. CASE ~(pos > RingSize[u])
    <3>1. dead' = [dead EXCEPT ![u] = @ \ {pos}]
      BY <2>2 DEF Revive
    <3>2. pos \in Credentials(u)
      BY <1>0, <2>2 DEF Credentials
    <3> HIDE DEF u, pos
    <3> QED BY <1>0, <3>1, <3>2
  <2> QED BY <2>1, <2>2
<1>2. /\ worker' \in [Workers -> Types]
      /\ \A v \in Workers :
           /\ worker'[v].at = worker[v].at /\ worker'[v].up = worker[v].up
           /\ worker'[v].pos = worker[v].pos /\ worker'[v].cred = worker[v].cred
           /\ worker[v].raced => worker'[v].raced
           /\ worker[v].up = u /\ worker[v].at \in {"count", "disable"}
                => worker'[v].raced \/ dead' = dead
  <2>1. CASE pos > RingSize[u]
    BY <1>0, <2>1 DEF Revive
  <2>2. CASE ~(pos > RingSize[u])
    <3> DEFINE hit(v) == worker[v].up = u /\ worker[v].at \in {"count", "disable"}
    <3>1. worker' = [v \in Workers |-> [worker[v] EXCEPT !.raced = @ \/ hit(v)]]
      BY <2>2 DEF Revive
    <3>2. \A v \in Workers : hit(v) \in BOOLEAN
      OBVIOUS
    <3> HIDE DEF hit
    <3>3. ASSUME NEW v \in Workers
          PROVE  /\ worker'[v] \in Types
                 /\ worker'[v].at = worker[v].at /\ worker'[v].up = worker[v].up
                 /\ worker'[v].pos = worker[v].pos /\ worker'[v].cred = worker[v].cred
                 /\ worker'[v].raced = (worker[v].raced \/ hit(v))
      BY <1>0, <3>1, <3>2
    <3>4. worker' \in [Workers -> Types]
      BY <3>1, <3>3
    <3> QED BY <3>3, <3>4 DEF hit
  <2> QED BY <2>1, <2>2
<1> HIDE DEF u, pos
<1>3. TypeOK'
  <2>1. \A x \in Upstreams : dead'[x] \subseteq Credentials(x)
    BY <1>0, <1>1
  <2> QED BY <1>1, <1>2, <2>1 DEF IInv, TypeOK, switch
<1>4. ASSUME NEW v \in Workers PROVE Working(v)'
  <2>1. Working(v)
    BY DEF IInv
  <2>2. worker[v].at \in {"count", "disable"} /\ ~worker'[v].raced
          => dead'[worker[v].up] = dead[worker[v].up] /\ ~worker[v].raced
    BY <1>1, <1>2, <2>1 DEF Working
  <2> QED BY <1>2, <2>1, <2>2 DEF Working
<1>5. Rotation'
  <2> SUFFICES ASSUME NEW x \in Upstreams, RingSize[x] > 0, InRotation(x)',
                      dead'[x] = Credentials(x)
               PROVE  Pending(x)'
    BY DEF Rotation
  <2>1. x # u /\ dead[x] = Credentials(x) /\ InRotation(x)
    BY <1>1 DEF InRotation, switch
  <2>2. Pending(x)
    BY <2>1 DEF IInv, Rotation
  <2>3. ASSUME NEW v \in Workers, worker[v].up = x, worker[v].at \in {"count", "disable"}
        PROVE  Pending(x)'
    BY <1>2, <2>3 DEF Pending
  <2>4. ASSUME NEW old \in {operator, rec}, old.at = "revive", old.up = x
        PROVE  Pending(x)'
    BY <2>1, <2>4 DEF Pending, u
  <2> QED BY <2>2, <2>3, <2>4 DEF Pending
<1> QED BY <1>3, <1>4, <1>5 DEF IInv

\* The callback of an operator's enable.
LEMMA OperatorRevivesStep ==
    ASSUME IInv, OperatorRevives
    PROVE  IInv'
<1>0. /\ operator.at = "revive" /\ Revive(operator) /\ Reviving(operator)
      /\ UNCHANGED <<switch, healthy, rec, book>> /\ RingSize \in [Upstreams -> Nat]
  BY ControlAssumption DEF ControlAssumption, IInv, OperatorRevives
<1>1. CASE operator.pos >= RingSize[operator.up]
  <2>1. operator' = [at |-> "idle", up |-> Nobody, pos |-> 1, todo |-> {}]
    BY <1>1 DEF OperatorRevives, Rest
  <2> QED BY <1>0, <2>1, ReviveKeeps DEF IInv, TypeOK, Reviving, Recovering, Somebody
<1>2. CASE ~(operator.pos >= RingSize[operator.up])
  <2>1. operator' = [operator EXCEPT !.pos = operator.pos + 1]
    BY <1>2 DEF OperatorRevives
  <2>2. /\ operator' \in [at : {"idle", "revive"}, up : Somebody, pos : Nat,
                          todo : SUBSET Upstreams]
        /\ operator'.at = "revive" /\ operator'.up = operator.up
        /\ operator'.pos = operator.pos + 1
    <3>1. operator \in [at : {"idle", "revive"}, up : Somebody, pos : Nat,
                        todo : SUBSET Upstreams]
      BY DEF IInv, TypeOK
    <3> QED BY <1>0, <2>1, <3>1
  <2>3. Reviving(operator)'
    BY <1>0, <1>2, <2>2 DEF Reviving, Credentials
  <2> QED BY <1>0, <2>2, <2>3, ReviveKeeps DEF IInv, TypeOK, Reviving, Recovering
<1> QED BY <1>1, <1>2

\* A pass of the recovery loop up to the verdict of a probe.
LEMMA ProbeStep ==
    ASSUME IInv,
           \/ Tick \/ PassEnds
           \/ \E u \in Upstreams : Skip(u)
           \/ \E u \in Probed : BeginProbe(u) \/ ProbeFails(u) \/ ProbeAnswers(u)
    PROVE  IInv'
<1> DEFINE Types == [at : {"idle", "pass", "probe", "lift", "revive"}, up : Somebody,
                     pos : Nat, todo : SUBSET Upstreams]
           Books == [passes : 0..Passes, rung : 0..Backoff, wait : 0..Backoff]
<1>0. /\ rec \in Types /\ book \in [Probed -> Books] /\ auto \in SUBSET Upstreams
      /\ Passes \in Nat \ {0} /\ Backoff \in Nat /\ Probed \subseteq Upstreams
      /\ Reviving(rec) /\ Recovering
  BY ControlAssumption DEF ControlAssumption, IInv, TypeOK
<1>1. ASSUME UNCHANGED <<switch, dead, healthy, worker, operator>>,
             rec.at # "revive", rec' \in Types, rec'.at # "revive", rec'.pos = 1,
             book' \in [Probed -> Books], Recovering'
      PROVE  IInv'
  <2>1. TypeOK'
    BY <1>1 DEF IInv, TypeOK, switch
  <2>2. (Reviving(operator) /\ Reviving(rec))'
    BY <1>1 DEF IInv, Reviving
  <2>3. \A u \in Upstreams : InRotation(u)' => InRotation(u)
    BY <1>1 DEF InRotation, switch
  <2> QED BY <1>1, <2>1, <2>2, <2>3, SwitchStep
<1>w. ASSUME NEW b \in Books
      PROVE  Waited(b) \in Books /\ Waited(b).passes = b.passes
  BY <1>0 DEF Waited
<1>2. CASE Tick
  <2>1. /\ rec.at = "idle" /\ rec' = [rec EXCEPT !.at = "pass", !.todo = auto]
        /\ book' = [u \in Probed |-> IF u \in auto THEN book[u] ELSE Waited(book[u])]
        /\ UNCHANGED <<switch, dead, healthy, worker, operator>>
    BY <1>2 DEF Tick
  <2>2. rec' \in Types /\ rec'.at = "pass" /\ rec'.pos = 1
    BY <1>0, <2>1 DEF Reviving
  <2>3. /\ book' \in [Probed -> Books]
        /\ \A u \in Probed : book'[u].passes = book[u].passes
    BY <1>0, <1>w, <2>1
  <2>4. Recovering'
    BY <1>0, <2>1, <2>2, <2>3 DEF Recovering
  <2> QED BY <1>1, <2>1, <2>2, <2>3, <2>4
<1>3. CASE PassEnds
  <2>1. /\ rec.at = "pass" /\ rec' = [at |-> "idle", up |-> Nobody, pos |-> 1, todo |-> {}]
        /\ UNCHANGED <<switch, dead, healthy, worker, operator, book>>
    BY <1>3 DEF PassEnds, Rest
  <2> QED BY <1>0, <1>1, <2>1 DEF Recovering, Somebody
<1>4. ASSUME NEW u \in Upstreams, Skip(u) PROVE IInv'
  <2>1. /\ rec.at = "pass" /\ rec' = [rec EXCEPT !.todo = @ \ {u}]
        /\ book' = (IF u \in Probed THEN [book EXCEPT ![u] = Waited(book[u])] ELSE book)
        /\ UNCHANGED <<switch, dead, healthy, worker, operator>>
    BY <1>4 DEF Skip
  <2>2. rec' \in Types /\ rec'.at = "pass" /\ rec'.pos = 1
    BY <1>0, <2>1 DEF Reviving
  <2>3. /\ book' \in [Probed -> Books]
        /\ \A x \in Probed : book'[x].passes = book[x].passes
    BY <1>0, <1>w, <2>1
  <2>4. Recovering'
    BY <1>0, <2>1, <2>2, <2>3 DEF Recovering
  <2> QED BY <1>1, <2>1, <2>2, <2>3, <2>4
<1>5. ASSUME NEW u \in Probed, BeginProbe(u) PROVE IInv'
  <2>1. /\ rec.at = "pass" /\ rec' = [rec EXCEPT !.at = "probe", !.up = u, !.todo = @ \ {u}]
        /\ UNCHANGED <<switch, dead, healthy, worker, operator, book>>
    BY <1>5 DEF BeginProbe
  <2>2. rec' \in Types /\ rec'.at = "probe" /\ rec'.up = u /\ rec'.pos = 1
    BY <1>0, <2>1 DEF Reviving, Somebody
  <2>3. Recovering'
    BY <1>0, <2>1, <2>2 DEF Recovering
  <2> QED BY <1>0, <1>1, <2>1, <2>2, <2>3
<1>6. ASSUME NEW u \in Probed, ProbeFails(u) PROVE IInv'
  <2> DEFINE delay == ProbeBackoff(book[u].rung)
  <2>1. /\ rec.at = "probe" /\ rec' = [rec EXCEPT !.at = "pass", !.up = Nobody]
        /\ book' = [book EXCEPT ![u] = [passes |-> 0, rung |-> delay, wait |-> delay]]
        /\ UNCHANGED <<switch, dead, healthy, worker, operator>>
    BY <1>6 DEF ProbeFails
  <2>2. delay \in 0..Backoff
    BY <1>0 DEF ProbeBackoff
  <2> HIDE DEF delay
  <2>3. rec' \in Types /\ rec'.at = "pass" /\ rec'.pos = 1
    BY <1>0, <2>1 DEF Reviving, Somebody
  <2>4. /\ book' \in [Probed -> Books]
        /\ \A x \in Probed : book'[x].passes = IF x = u THEN 0 ELSE book[x].passes
    BY <1>0, <2>1, <2>2
  <2>5. Recovering'
    BY <1>0, <2>1, <2>3, <2>4 DEF Recovering
  <2> QED BY <1>1, <2>1, <2>3, <2>4, <2>5
<1>7. ASSUME NEW u \in Probed, ProbeAnswers(u) PROVE IInv'
  <2> DEFINE n == book[u].passes + 1
  <2>1. /\ rec.at = "probe" /\ u = rec.up
        /\ rec' = (IF n < Passes THEN [rec EXCEPT !.at = "pass", !.up = Nobody]
                   ELSE [rec EXCEPT !.at = "lift"])
        /\ book' = [book EXCEPT ![u] = [passes |-> n, rung |-> 0, wait |-> 0]]
        /\ UNCHANGED <<switch, dead, healthy, worker, operator>>
    <3>1. [Blank EXCEPT !.passes = n] = [passes |-> n, rung |-> 0, wait |-> 0]
      BY DEF Blank
    <3> QED BY <1>7, <3>1 DEF ProbeAnswers
  <2>2. n \in 1..Passes /\ \A x \in Probed : book[x].passes # Passes
    BY <1>0, <2>1 DEF Recovering
  <2> HIDE DEF n
  <2>3. /\ rec' \in Types /\ rec'.pos = 1
        /\ IF n < Passes THEN rec'.at = "pass" ELSE rec'.at = "lift" /\ rec'.up = u
    BY <1>0, <2>1 DEF Reviving, Somebody
  <2>4. /\ book' \in [Probed -> Books]
        /\ \A x \in Probed : book'[x].passes = IF x = u THEN n ELSE book[x].passes
    BY <1>0, <2>1, <2>2
  <2>5. Recovering'
    BY <1>0, <2>1, <2>2, <2>3, <2>4 DEF Recovering
  <2> QED BY <1>1, <2>1, <2>3, <2>4, <2>5
<1> QED BY <1>2, <1>3, <1>4, <1>5, <1>6, <1>7

\* The loop lifts the disable and revives the ring before it forgets the passes.
LEMMA RecoveryStep ==
    ASSUME IInv, AutoEnable \/ RecoveryRevives
    PROVE  IInv'
<1> DEFINE Types == [at : {"idle", "pass", "probe", "lift", "revive"}, up : Somebody,
                     pos : Nat, todo : SUBSET Upstreams]
           Books == [passes : 0..Passes, rung : 0..Backoff, wait : 0..Backoff]
<1>0. /\ rec \in Types /\ book \in [Probed -> Books] /\ RingSize \in [Upstreams -> Nat]
      /\ Passes \in Nat \ {0} /\ Probed \subseteq Upstreams
      /\ Reviving(rec) /\ Recovering
  BY ControlAssumption DEF ControlAssumption, IInv, TypeOK
<1>1. CASE AutoEnable
  <2>1. /\ rec.at = "lift" /\ rec' = [rec EXCEPT !.at = "revive", !.pos = 1]
        /\ auto' = auto \ {rec.up} /\ UNCHANGED <<manual, dead, healthy, worker, operator, book>>
    BY <1>1 DEF AutoEnable
  <2>2. /\ rec' \in Types /\ rec'.at = "revive" /\ rec'.pos = 1 /\ rec'.up = rec.up
        /\ rec.up \in Upstreams
    BY <1>0, <2>1 DEF Recovering
  <2>3. TypeOK'
    BY <2>1, <2>2 DEF IInv, TypeOK
  <2>4. (Reviving(operator) /\ Reviving(rec))'
    BY <2>1, <2>2 DEF IInv, Reviving
  <2>5. Recovering'
    BY <1>0, <2>1, <2>2 DEF Recovering
  <2>6. \A x \in Upstreams : InRotation(x)' => InRotation(x) \/ x = rec.up
    BY <2>1 DEF InRotation
  <2> QED BY <2>1, <2>2, <2>3, <2>4, <2>5, <2>6, SwitchStep
<1>2. CASE RecoveryRevives
  <2>0. /\ rec.at = "revive" /\ Revive(rec) /\ rec.up \in Probed /\ rec.up \in Upstreams
        /\ UNCHANGED <<switch, healthy, operator>>
    BY <1>0, <1>2 DEF RecoveryRevives, Recovering
  <2>o. /\ operator' \in [at : {"idle", "revive"}, up : Somebody, pos : Nat,
                          todo : SUBSET Upstreams]
        /\ Reviving(operator)'
    BY <2>0 DEF IInv, TypeOK, Reviving
  <2>1. CASE rec.pos >= RingSize[rec.up]
    <3>1. /\ rec' = [rec EXCEPT !.at = "pass", !.up = Nobody, !.pos = 1]
          /\ book' = [book EXCEPT ![rec.up].passes = 0]
      BY <1>2, <2>1 DEF RecoveryRevives
    <3>2. rec' \in Types /\ rec'.at = "pass" /\ rec'.pos = 1
      BY <1>0, <3>1 DEF Somebody
    <3>3. /\ book' \in [Probed -> Books]
          /\ \A x \in Probed : book'[x].passes = IF x = rec.up THEN 0 ELSE book[x].passes
      BY <1>0, <2>0, <3>1
    <3>4. Recovering' /\ Reviving(rec)'
      BY <1>0, <2>0, <3>2, <3>3 DEF Recovering, Reviving
    <3> QED BY <2>0, <2>o, <3>2, <3>3, <3>4, ReviveKeeps
  <2>2. CASE ~(rec.pos >= RingSize[rec.up])
    <3>1. rec' = [rec EXCEPT !.pos = rec.pos + 1] /\ UNCHANGED book
      BY <1>2, <2>2 DEF RecoveryRevives
    <3>2. rec' \in Types /\ rec'.at = "revive" /\ rec'.up = rec.up /\ rec'.pos = rec.pos + 1
      BY <1>0, <2>0, <3>1
    <3>3. Reviving(rec)'
      BY <1>0, <2>0, <2>2, <3>2 DEF Reviving, Credentials
    <3>4. Recovering'
      BY <1>0, <2>0, <3>1, <3>2 DEF Recovering
    <3> QED BY <1>0, <2>0, <2>o, <3>1, <3>2, <3>3, <3>4, ReviveKeeps
  <2> QED BY <2>1, <2>2
<1> QED BY <1>1, <1>2

\* Every step keeps the invariant.
LEMMA NextInv == IInv /\ [Next]_vars => IInv'
<1> SUFFICES ASSUME IInv, [Next]_vars PROVE IInv'
  OBVIOUS
<1>1. ASSUME NEW w \in Workers, Request(w) \/ Hook(w) PROVE IInv'
  BY <1>1, RequestStep, FatalStep, CountStep, AutoDisableStep DEF Request, Hook
<1>2. CASE Recovery
  BY <1>2, ProbeStep, RecoveryStep DEF Recovery
<1>3. ASSUME NEW u \in Probed, Flip(u) PROVE IInv'
  <2>1. TypeOK'
    BY <1>3 DEF Flip, IInv, TypeOK, switch
  <2>2. (Reviving(operator) /\ Reviving(rec) /\ Recovering)'
    BY <1>3 DEF Flip, IInv, Reviving, Recovering
  <2> QED BY <1>3, <2>1, <2>2, SwitchStep DEF Flip, switch, InRotation
<1>4. CASE UNCHANGED vars
  <2>1. TypeOK'
    BY <1>4 DEF vars, IInv, TypeOK, switch
  <2>2. (Reviving(operator) /\ Reviving(rec) /\ Recovering)'
    BY <1>4 DEF vars, IInv, Reviving, Recovering
  <2> QED BY <1>4, <2>1, <2>2, SwitchStep DEF vars, switch, InRotation
<1> QED BY <1>1, <1>2, <1>3, <1>4, OperatorStep, OperatorRevivesStep DEF Next

\* However reports, operators and recoveries interleave, no upstream stays in
\* rotation with a dead ring: someone is about to take it out or revive it
\* (serve.go:582, control.go:162).
THEOREM NoDeadRingServes == Spec => []NoDeadRotation
<1>1. IInv => NoDeadRotation
  BY DEF IInv, Rotation, NoDeadRotation
<1> QED BY <1>1, InitInv, NextInv, PTL DEF Spec

\* A hook that no revival raced takes an upstream out only when its whole ring
\* is dead (serve.go:576).
THEOREM ConvictsOnlyTheDead == Spec => OnlyTheLastDeathDisables
<1> DEFINE Step == \A w \in Workers :
                     LET u == worker[w].up
                     IN  worker[w].at = "disable" /\ worker'[w].at = "idle" /\ ~worker[w].raced
                         /\ RingSize[u] > 0 /\ u \in auto' \ auto
                             => dead[u] = Credentials(u)
<1>1. IInv => Step
  BY DEF IInv, Working
<1> QED BY <1>1, InitInv, NextInv, PTL DEF Spec, OnlyTheLastDeathDisables
=============================================================================
