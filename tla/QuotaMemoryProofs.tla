-------------------------- MODULE QuotaMemoryProofs -------------------------
(***************************************************************************)
(* Proofs about the in-process quota ledger (QuotaMemory), for every set   *)
(* of tenants and leases and every batch size of the sweep.                *)
(***************************************************************************)
EXTENDS QuotaMemory, TLAPS

Shape ==
    /\ bounded \in BOOLEAN /\ Legal(bounded)
    /\ provisioned \subseteq Tenants
    /\ balance \in [Tenants -> Nat]
    /\ state \in [Leases -> Recorded \cup {"unused", "purged"}]
    /\ tenant \in [Leases -> Tenants]
    /\ amount \in [Leases -> Nat]
    /\ age \in [Leases -> Nat]
    /\ req \in [Leases -> {"idle", "serving", "closing", "over"}]
    /\ used \in [Leases -> Uses \cup {0}]

\* Where a request is, against the record of its lease: a lease is created
\* once, and while a request with a budget is served the record is live and
\* younger than any cutoff.  A request without one may find its record closed
\* or gone.
Live ==
    \A l \in Leases :
        /\ req[l] = "idle" => state[l] = "unused"
        /\ bounded /\ req[l] = "serving" => state[l] = "RESERVED" /\ age[l] <= Ceiling

\* The walk only visits leases that were created.
Walk == \A l \in todo : l \in Leases /\ req[l] # "idle"

MemoryInv == Shape /\ Live /\ Walk

\* Where requests have a budget, the lease of one that is still served is not
\* reclaimed: the sweep passes it by, at whatever point of the walk it is.
ServedKeepsItsLease ==
    bounded => \A l \in Leases : req[l] = "serving" => state[l] = "RESERVED"

-----------------------------------------------------------------------------
\* The refund is what the contract owes, and a cancel returns everything.
LEMMA RefundIsOwed ==
    ASSUME MemoryInv, NEW l \in Leases
    PROVE  /\ RefundOf(l) \in Nat
           /\ used[l] > 0 => used[l] \in Uses
           /\ RefundOf(l) = Contract!SettleRefund(amount[l], used[l])
           /\ ~(used[l] > 0) => RefundOf(l) = amount[l]
<1>1. amount[l] \in Nat /\ used[l] \in Nat /\ used[l] \in Uses \cup {0}
  <2>1. amount[l] \in Nat /\ used[l] \in Uses \cup {0}
    BY DEF MemoryInv, Shape
  <2>2. Uses \subseteq Nat
    BY MemoryAssumption DEF MemoryAssumption
  <2>3. Uses \cup {0} \subseteq Nat
    BY <2>2
  <2> QED BY <2>1, <2>3
<1>2. RefundOf(l) \in Nat /\ (~(used[l] > 0) => RefundOf(l) = amount[l])
  BY <1>1 DEF RefundOf
<1>3. used[l] > 0 => used[l] \in Uses
  BY <1>1
<1>4. RefundOf(l) = Contract!SettleRefund(amount[l], used[l])
  BY <1>1 DEF RefundOf, Contract!SettleRefund
<1> QED BY <1>2, <1>3, <1>4

\* The walk of a lease whose request is served within a budget ends in a skip:
\* its age is below the cutoff, because LeaseTTL outlasts the budget.
LEMMA NotReclaimed ==
    ASSUME MemoryInv, NEW l \in Leases, bounded, req[l] = "serving"
    PROVE  ~Reclaimable(l)
<1>1. age[l] \in Nat /\ age[l] <= Ceiling
  BY DEF MemoryInv, Shape, Live
<1>2. LeaseTTL > Ceiling
  BY DEF MemoryInv, Shape, Legal
<1> QED BY <1>1, <1>2, MemoryAssumption DEF MemoryAssumption, Reclaimable

LEMMA MemoryInitial == Init => MemoryInv
BY MemoryAssumption
   DEF MemoryAssumption, Init, MemoryInv, Shape, Live, Walk, Recorded, Terminal

LEMMA MemoryStep == MemoryInv /\ [Next]_vars => MemoryInv'
<1> SUFFICES ASSUME MemoryInv, [Next]_vars PROVE MemoryInv'
  OBVIOUS
<1> USE DEF MemoryInv, Shape, Live, Walk
<1>1. ASSUME NEW t \in Tenants, NEW b \in Balances,
             SetBalance(t, b) \/ EnsureBalance(t, b)
      PROVE  MemoryInv'
  BY <1>1, MemoryAssumption
     DEF MemoryAssumption, SetBalance, EnsureBalance, requestVars, walkVars
<1>2. ASSUME NEW l \in Leases, NEW t \in Tenants, NEW a \in Amounts, Reserve(l, t, a)
      PROVE  MemoryInv'
  <2>1. balance[t] - a \in Nat /\ a \in Nat /\ 0 <= Ceiling
    BY <1>2, MemoryAssumption DEF MemoryAssumption, Reserve, CanReserve
  <2>2. Shape'
    BY <1>2, <2>1 DEF Reserve, Recorded
  <2>3. Live' /\ Walk'
    BY <1>2, <2>1 DEF Reserve, walkVars
  <2> QED BY <2>2, <2>3
<1>3. ASSUME NEW l \in Leases, NEW t \in Tenants, NEW a \in Amounts,
             ReserveRefused(l, t, a)
      PROVE  MemoryInv'
  BY <1>3 DEF ReserveRefused, leaseVars, walkVars
<1>4. ASSUME NEW l \in Leases, NEW u \in Uses \cup {0}, Finish(l, u)
      PROVE  MemoryInv'
  BY <1>4 DEF Finish, leaseVars, walkVars
<1>5. ASSUME NEW l \in Leases, SettleOrCancel(l)
      PROVE  MemoryInv'
  <2>1. RefundOf(l) \in Nat
    BY RefundIsOwed
  <2>2. CASE state[l] = "RESERVED"
    BY <1>5, <2>1, <2>2
       DEF SettleOrCancel, Close, Recorded, Terminal, walkVars
  <2>3. CASE state[l] # "RESERVED"
    BY <1>5, <2>3 DEF SettleOrCancel, leaseVars, walkVars
  <2> QED BY <2>2, <2>3
<1>6. ASSUME NEW l \in Leases, SweepVisit(l)
      PROVE  MemoryInv'
  <2>1. req' = req /\ used' = used /\ todo' = todo \ {l} /\ bounded' = bounded
    BY <1>6 DEF SweepVisit, requestVars
  <2>2. Walk'
    BY <2>1
  <2>3. CASE state[l] \in Terminal /\ state' = [state EXCEPT ![l] = "purged"]
             /\ UNCHANGED <<provisioned, balance, tenant, amount, age>>
    <3>1. ~(bounded /\ req[l] = "serving") /\ req[l] # "idle"
      BY <1>6, <2>3 DEF SweepVisit, Terminal
    <3> QED BY <2>1, <2>2, <2>3, <3>1
  <2>4. CASE state[l] = "RESERVED" /\ Reclaimable(l) /\ Close(l, "EXPIRED", amount[l])
    <3>1. ~(bounded /\ req[l] = "serving") /\ req[l] # "idle"
      BY <1>6, <2>4, NotReclaimed DEF SweepVisit
    <3> QED BY <2>1, <2>2, <2>4, <3>1 DEF Close, Recorded, Terminal
  <2>5. CASE UNCHANGED <<leaseVars, age>>
    BY <2>1, <2>2, <2>5 DEF leaseVars
  <2> QED BY <1>6, <2>3, <2>4, <2>5 DEF SweepVisit
<1>7. CASE SweepBegin
  BY <1>7 DEF SweepBegin, leaseVars, requestVars, Recorded, Terminal
<1>8. CASE SweepEnd
  BY <1>8 DEF SweepEnd, leaseVars, requestVars
<1>9. CASE Tick
  <2>1. age' \in [Leases -> Nat]
    BY <1>9 DEF Tick
  <2>2. ASSUME NEW l \in Leases, bounded, req[l] = "serving" PROVE age'[l] <= Ceiling
    BY <1>9, <2>2, MemoryAssumption DEF MemoryAssumption, Tick
  <2> QED BY <1>9, <2>1, <2>2 DEF Tick, leaseVars, requestVars, walkVars
<1>10. CASE UNCHANGED vars
  BY <1>10 DEF vars, leaseVars, requestVars, walkVars
<1> QED BY <1>1, <1>2, <1>3, <1>4, <1>5, <1>6, <1>7, <1>8, <1>9, <1>10 DEF Next

LEMMA MemoryInvariance == Spec => []MemoryInv
BY MemoryInitial, MemoryStep, PTL DEF Spec

-----------------------------------------------------------------------------
\* In every configuration that gives requests a budget, no pass of the sweep
\* takes the lease of a request that is still being served, although the walk
\* and the request are not synchronised: the configuration was only accepted
\* because LeaseTTL outlasts the budget.
THEOREM ServedLeaseIsKept == Spec => []ServedKeepsItsLease
<1>1. MemoryInv => ServedKeepsItsLease
  BY DEF MemoryInv, Live, ServedKeepsItsLease
<1> QED BY <1>1, MemoryInvariance, PTL

\* The ledger implements the port's contract for every instance: a visit of
\* the walk is an expiry, a purge or nothing, the deferred settlement of a
\* lease the sweep closed first is nothing, and no lease is created twice.
THEOREM MemoryRefinesContract == Spec => ImplementsContract
<1>1. Init => Contract!Init
  BY DEF Init, Contract!Init
<1>2. ASSUME MemoryInv, [Next]_vars
      PROVE  [Contract!Next]_(Contract!contractVars)
  <2> DEFINE Still == UNCHANGED <<provisioned, balance, state, tenant, amount>>
  <2>1. ASSUME NEW t \in Tenants, NEW b \in Balances,
               SetBalance(t, b) \/ EnsureBalance(t, b)
        PROVE  Contract!Next
    BY <2>1 DEF SetBalance, EnsureBalance, Contract!Next, Contract!Provision
  <2>2. ASSUME NEW l \in Leases, NEW t \in Tenants, NEW a \in Amounts, Reserve(l, t, a)
        PROVE  Contract!Next
    <3>1. Contract!Reserve(l, t, a)
      BY <1>2, <2>2 DEF Reserve, CanReserve, MemoryInv, Live, Contract!Reserve
    <3> QED BY <3>1 DEF Contract!Next
  <2>3. ASSUME NEW l \in Leases, SettleOrCancel(l)
        PROVE  Contract!Next \/ Still
    <3>1. CASE state[l] # "RESERVED"
      BY <2>3, <3>1 DEF SettleOrCancel, leaseVars
    <3>2. CASE state[l] = "RESERVED" /\ used[l] > 0
      <4>1. Contract!Settle(l, used[l]) /\ used[l] \in Uses
        BY <1>2, <2>3, <3>2, RefundIsOwed
           DEF SettleOrCancel, Close, Contract!Settle, Contract!Close
      <4> QED BY <4>1 DEF Contract!Next
    <3>3. CASE state[l] = "RESERVED" /\ ~(used[l] > 0)
      <4>1. Contract!Cancel(l)
        BY <1>2, <2>3, <3>3, RefundIsOwed
           DEF SettleOrCancel, Close, Contract!Cancel, Contract!Close
      <4> QED BY <4>1 DEF Contract!Next
    <3> QED BY <3>1, <3>2, <3>3
  <2>4. ASSUME NEW l \in Leases, SweepVisit(l)
        PROVE  Contract!Next \/ Still
    <3>1. \/ Contract!Purge(l)
          \/ Contract!Expire(l)
          \/ Still
      BY <2>4 DEF SweepVisit, Close, leaseVars, Terminal, Contract!Purge,
                  Contract!Expire, Contract!Close, Contract!Terminal
    <3> QED BY <3>1 DEF Contract!Next
  <2>5. ASSUME NEW l \in Leases, NEW t \in Tenants, NEW a \in Amounts,
               ReserveRefused(l, t, a)
        PROVE  Still
    BY <2>5 DEF ReserveRefused, leaseVars
  <2>6. ASSUME NEW l \in Leases, NEW u \in Uses \cup {0}, Finish(l, u)
        PROVE  Still
    BY <2>6 DEF Finish, leaseVars
  <2>7. SweepBegin \/ SweepEnd \/ Tick \/ UNCHANGED vars => Still
    BY DEF SweepBegin, SweepEnd, Tick, vars, leaseVars
  <2>8. Still => UNCHANGED Contract!contractVars
    BY DEF Contract!contractVars
  <2> HIDE DEF Still
  <2> QED BY <1>2, <2>1, <2>2, <2>3, <2>4, <2>5, <2>6, <2>7, <2>8 DEF Next
<1> QED BY <1>1, <1>2, MemoryInvariance, PTL
        DEF Spec, ImplementsContract, Contract!Spec
=============================================================================
