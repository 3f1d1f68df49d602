-------------------------- MODULE QuotaRedisProofs --------------------------
(***************************************************************************)
(* Proofs about the Redis quota ledger (QuotaRedis), for every set of      *)
(* tenants, leases and sweepers, whichever requests have a budget and for  *)
(* every horizon that outlasts it, and about the reconcilers that read the *)
(* ledger while it moves (QuotaReconcile), however many there are.         *)
(***************************************************************************)
EXTENDS QuotaReconcile, TLAPS

\* Where a request is, against the record of its lease.
RequestInv ==
    \A l \in Leases :
        /\ req[l] \in {"idle", "refused"} <=> state[l] = "unused"
        /\ state[l] = "SETTLED" => req[l] = "over"
        /\ req[l] = "zrem" => state[l] = "purged"
        /\ req[l] = "serving" /\ l \notin Unbounded => age[l] <= Ceiling

\* What a sweeper holds, against the records: it only ever holds leases that
\* were reserved and whose request is no longer being served or has no budget,
\* and it only removes the index entry of a record that is gone for good.
SweeperInv ==
    \A s \in Sweepers :
        /\ \A l \in page[s] : /\ req[l] \notin {"idle", "refused"}
                              /\ req[l] = "serving" => l \in Unbounded
        /\ call[s] # "none" => cur[s] \in page[s]
        /\ call[s] = "zrem" => state[cur[s]] = "purged"

IInv ==
    /\ TypeOK
    /\ used \in [Leases -> Uses \cup {0}]
    /\ NoOverdraft
    /\ RefundedOnce
    /\ SweepIndexExact
    /\ CreditsProvisioned
    /\ NoLiveExpiry
    /\ RequestInv
    /\ SweeperInv

\* SetBalance and EnsureBalance keep the invariant.
LEMMA ProvisioningStep ==
    ASSUME IInv, NEW t \in Tenants, NEW b \in Balances,
           SetBalance(t, b) \/ EnsureBalance(t, b)
    PROVE  IInv'
<1> USE DEF SetBalance, EnsureBalance, IInv, requestVars, sweeperVars
<1>1. TypeOK' /\ (used \in [Leases -> Uses \cup {0}])'
  BY QuotaAssumption DEF QuotaAssumption, TypeOK
<1>2. NoOverdraft'
  BY QuotaAssumption DEF QuotaAssumption, TypeOK, NoOverdraft
<1>3. RefundedOnce' /\ SweepIndexExact' /\ NoLiveExpiry'
  BY DEF RefundedOnce, SweepIndexExact, NoLiveExpiry
<1>4. CreditsProvisioned'
  BY DEF CreditsProvisioned
<1>5. RequestInv' /\ SweeperInv'
  BY DEF RequestInv, SweeperInv
<1> QED BY <1>1, <1>2, <1>3, <1>4, <1>5

\* The reserve script keeps it.
LEMMA ReserveStep ==
    ASSUME IInv, NEW l \in Leases, NEW t \in Tenants, NEW a \in Amounts,
           Reserve(l, t, a) \/ ReserveReplyLost(l, t, a)
    PROVE  IInv'
<1> USE DEF Reserve, ReserveReplyLost, ReserveScript, CanReserve, Move, IInv,
            requestVars, sweeperVars
<1>1. state[l] = "unused" /\ credit[l] = 0 /\ l \notin sweep
  BY DEF RequestInv, RefundedOnce, SweepIndexExact
<1>2. TypeOK' /\ (used \in [Leases -> Uses \cup {0}])'
  <2> USE QuotaAssumption, HorizonAssumption
          DEF QuotaAssumption, HorizonAssumption, TypeOK
  <2>1. balance' \in [Tenants -> Int] /\ debited' \in [Tenants -> Nat]
    OBVIOUS
  <2>2. /\ state' \in [Leases -> Recorded \cup {"unused", "purged"}]
        /\ req' \in [Leases -> ReqPhase]
    BY DEF Recorded, ReqPhase
  <2>3. /\ tenant' \in [Leases -> Tenants]
        /\ amount' \in [Leases -> Nat]
        /\ age' \in [Leases -> 0..LeaseTTL]
    OBVIOUS
  <2> QED BY <2>1, <2>2, <2>3
<1>3. NoOverdraft'
  BY QuotaAssumption DEF QuotaAssumption, TypeOK, NoOverdraft
<1>4. RefundedOnce'
  BY <1>1, QuotaAssumption DEF QuotaAssumption, TypeOK, RefundedOnce
<1>5. SweepIndexExact'
  BY <1>1 DEF TypeOK, SweepIndexExact
<1>6. CreditsProvisioned'
  BY DEF TypeOK, CreditsProvisioned
<1>7. NoLiveExpiry'
  BY DEF TypeOK, NoLiveExpiry
<1>8. RequestInv'
  BY <1>1, HorizonAssumption DEF HorizonAssumption, TypeOK, RequestInv
<1>9. SweeperInv'
  BY <1>1 DEF TypeOK, SweeperInv
<1> QED BY <1>2, <1>3, <1>4, <1>5, <1>6, <1>7, <1>8, <1>9

\* A refused reserve keeps it.
LEMMA ReserveRefusedStep ==
    ASSUME IInv, NEW l \in Leases, NEW t \in Tenants, NEW a \in Amounts,
           ReserveRefused(l, t, a)
    PROVE  IInv'
<1> USE DEF ReserveRefused, Move, IInv, ledgerVars, sweeperVars
<1>1. TypeOK' /\ (used \in [Leases -> Uses \cup {0}])'
  BY DEF TypeOK, ReqPhase
<1>2. NoOverdraft' /\ RefundedOnce' /\ SweepIndexExact' /\ CreditsProvisioned'
  BY DEF NoOverdraft, RefundedOnce, SweepIndexExact, CreditsProvisioned
<1>3. NoLiveExpiry' /\ RequestInv'
  BY DEF TypeOK, NoLiveExpiry, RequestInv
<1>4. SweeperInv'
  BY DEF TypeOK, SweeperInv
<1> QED BY <1>1, <1>2, <1>3, <1>4

\* A request that knows its outcome keeps it.
LEMMA FinishStep ==
    ASSUME IInv, NEW l \in Leases, NEW u \in Uses \cup {0}, Finish(l, u)
    PROVE  IInv'
<1> USE DEF Finish, Move, IInv, ledgerVars, sweeperVars
<1>1. TypeOK' /\ (used \in [Leases -> Uses \cup {0}])'
  BY QuotaAssumption DEF QuotaAssumption, TypeOK, ReqPhase
<1>2. RefundedOnce'
  <2>1. state[l] # "SETTLED"
    BY DEF RequestInv
  <2> QED BY <2>1 DEF TypeOK, RefundedOnce
<1>3. NoOverdraft' /\ SweepIndexExact' /\ CreditsProvisioned'
  BY DEF NoOverdraft, SweepIndexExact, CreditsProvisioned
<1>4. NoLiveExpiry'
  BY DEF TypeOK, NoLiveExpiry
<1>5. RequestInv'
  BY DEF TypeOK, RequestInv, NoLiveExpiry
<1>6. SweeperInv'
  BY DEF TypeOK, SweeperInv
<1> QED BY <1>1, <1>2, <1>3, <1>4, <1>5, <1>6

\* The HGET ahead of a script keeps it.
LEMMA LookupStep ==
    ASSUME IInv, NEW l \in Leases, LookupLease(l)
    PROVE  IInv'
<1> USE DEF LookupLease, Move, IInv, ledgerVars, sweeperVars
<1>1. state[l] # "SETTLED" /\ state[l] # "unused"
  BY DEF RequestInv
<1>2. TypeOK' /\ (used \in [Leases -> Uses \cup {0}])'
  BY DEF TypeOK, ReqPhase
<1>3. NoOverdraft' /\ RefundedOnce' /\ SweepIndexExact' /\ CreditsProvisioned'
  BY DEF NoOverdraft, RefundedOnce, SweepIndexExact, CreditsProvisioned
<1>4. NoLiveExpiry'
  BY DEF TypeOK, NoLiveExpiry
<1>5. RequestInv'
  BY <1>1 DEF TypeOK, RequestInv, Recorded
<1>6. SweeperInv'
  BY DEF TypeOK, SweeperInv
<1> QED BY <1>2, <1>3, <1>4, <1>5, <1>6

\* A request that is gone keeps it.
LEMMA VanishStep ==
    ASSUME IInv, NEW l \in Leases, Vanish(l)
    PROVE  IInv'
<1> USE DEF Vanish, Move, IInv, ledgerVars, sweeperVars
<1>1. TypeOK' /\ (used \in [Leases -> Uses \cup {0}])'
  BY DEF TypeOK, ReqPhase
<1>2. NoOverdraft' /\ RefundedOnce' /\ SweepIndexExact' /\ CreditsProvisioned'
  BY DEF NoOverdraft, RefundedOnce, SweepIndexExact, CreditsProvisioned
<1>3. NoLiveExpiry' /\ RequestInv'
  BY DEF TypeOK, NoLiveExpiry, RequestInv
<1>4. SweeperInv'
  BY DEF TypeOK, SweeperInv
<1> QED BY <1>1, <1>2, <1>3, <1>4

\* What a settlement owes is a natural number within the reserved amount.
LEMMA RefundBounds ==
    ASSUME NEW reserved \in Nat, NEW u \in Nat
    PROVE  Refund(reserved, u) \in Nat /\ Refund(reserved, u) <= reserved
BY DEF Refund, Spent

\* The settle script keeps it.
LEMMA SettleStep ==
    ASSUME IInv, NEW l \in Leases, Settle(l)
    PROVE  IInv'
<1> USE DEF Settle, Move, IInv, sweeperVars
<1>1. CASE state[l] # "RESERVED"
  <2>1. UNCHANGED ledgerVars
    BY <1>1 DEF SettleScript
  <2> USE <2>1 DEF ledgerVars
  <2>2. TypeOK' /\ (used \in [Leases -> Uses \cup {0}])'
    BY DEF TypeOK, ReqPhase
  <2>3. NoOverdraft' /\ RefundedOnce' /\ SweepIndexExact' /\ CreditsProvisioned'
    BY DEF NoOverdraft, RefundedOnce, SweepIndexExact, CreditsProvisioned
  <2>4. NoLiveExpiry' /\ RequestInv'
    BY DEF TypeOK, NoLiveExpiry, RequestInv
  <2>5. SweeperInv'
    BY DEF TypeOK, SweeperInv
  <2> QED BY <2>2, <2>3, <2>4, <2>5
<1>2. CASE state[l] = "RESERVED"
  <2> DEFINE back == Refund(amount[l], used[l])
  <2>1. back \in Nat /\ back <= amount[l] /\ Spent(used[l]) \in Nat
    BY RefundBounds DEF TypeOK, Spent
  <2>2. /\ balance' = [balance EXCEPT ![tenant[l]] = @ + back]
        /\ refunded' = [refunded EXCEPT ![tenant[l]] = @ + back]
        /\ credit' = [credit EXCEPT ![l] = @ + back]
        /\ consumed' = [consumed EXCEPT ![tenant[l]] = @ + Spent(used[l])]
        /\ state' = [state EXCEPT ![l] = "SETTLED"]
        /\ sweep' = sweep \ {l}
        /\ UNCHANGED <<provisioned, debited, epoch, tenant, amount>>
    BY <1>2 DEF SettleScript, Credit
  <2>3. credit[l] = 0
    BY <1>2 DEF RefundedOnce
  <2> HIDE DEF back
  <2>4. TypeOK' /\ (used \in [Leases -> Uses \cup {0}])'
    BY <2>1, <2>2 DEF TypeOK, ReqPhase, Recorded, Terminal
  <2>5. NoOverdraft'
    BY <2>1, <2>2 DEF TypeOK, NoOverdraft
  <2>6. RefundedOnce'
    BY <1>2, <2>1, <2>2, <2>3 DEF TypeOK, RefundedOnce, back
  <2>7. SweepIndexExact'
    BY <2>2 DEF TypeOK, SweepIndexExact
  <2>8. CreditsProvisioned'
    BY <1>2, <2>2 DEF TypeOK, CreditsProvisioned
  <2>9. NoLiveExpiry'
    BY <2>2 DEF TypeOK, NoLiveExpiry
  <2>10. RequestInv'
    BY <1>2, <2>2 DEF TypeOK, RequestInv
  <2>11. SweeperInv'
    BY <1>2, <2>2 DEF TypeOK, SweeperInv
  <2> QED BY <2>4, <2>5, <2>6, <2>7, <2>8, <2>9, <2>10, <2>11
<1> QED BY <1>1, <1>2

\* The release script on a lease that was reserved, with either target: the
\* ledger's part of the invariant, whoever called.
LEMMA ReleaseLedger ==
    ASSUME IInv, NEW l \in Leases, NEW target \in {"CANCELLED", "EXPIRED"},
           ReleaseScript(l, target), UNCHANGED used
    PROVE  /\ balance' \in [Tenants -> Int] /\ refunded' \in [Tenants -> Nat]
           /\ credit' \in [Leases -> Nat]
           /\ state' \in [Leases -> Recorded \cup {"unused", "purged"}]
           /\ sweep' \subseteq Leases
           /\ UNCHANGED <<provisioned, debited, consumed, epoch, tenant, amount>>
           /\ \A k \in Leases : k # l => state'[k] = state[k]
           /\ state'[l] = IF state[l] = "RESERVED" THEN target ELSE state[l]
           /\ NoOverdraft' /\ RefundedOnce' /\ SweepIndexExact'
           /\ CreditsProvisioned'
<1> USE DEF IInv, ReleaseScript
<1>1. CASE state[l] # "RESERVED"
  <2>1. l \notin sweep
    BY <1>1 DEF SweepIndexExact
  <2> QED BY <1>1, <2>1 DEF TypeOK, NoOverdraft, RefundedOnce, SweepIndexExact,
                            CreditsProvisioned
<1>2. CASE state[l] = "RESERVED"
  <2>1. credit[l] = 0 /\ amount[l] \in Nat /\ tenant[l] \in Tenants
    BY <1>2 DEF RefundedOnce, TypeOK
  <2>2. /\ balance' = [balance EXCEPT ![tenant[l]] = @ + amount[l]]
        /\ refunded' = [refunded EXCEPT ![tenant[l]] = @ + amount[l]]
        /\ credit' = [credit EXCEPT ![l] = @ + amount[l]]
        /\ state' = [state EXCEPT ![l] = target]
        /\ sweep' = sweep \ {l}
        /\ UNCHANGED <<provisioned, debited, consumed, epoch, tenant, amount>>
    BY <1>2 DEF Credit
  <2>3. /\ balance' \in [Tenants -> Int] /\ refunded' \in [Tenants -> Nat]
        /\ credit' \in [Leases -> Nat]
        /\ state' \in [Leases -> Recorded \cup {"unused", "purged"}]
        /\ sweep' \subseteq Leases
    BY <2>1, <2>2 DEF TypeOK, Recorded, Terminal
  <2>4. NoOverdraft'
    BY <2>1, <2>2 DEF TypeOK, NoOverdraft
  <2>5. RefundedOnce'
    BY <2>1, <2>2 DEF TypeOK, RefundedOnce
  <2>6. SweepIndexExact'
    BY <2>2 DEF TypeOK, SweepIndexExact
  <2>7. CreditsProvisioned'
    BY <1>2, <2>2 DEF TypeOK, CreditsProvisioned
  <2>8. /\ \A k \in Leases : k # l => state'[k] = state[k]
        /\ state'[l] = IF state[l] = "RESERVED" THEN target ELSE state[l]
    BY <1>2, <2>2 DEF TypeOK
  <2> QED BY <2>2, <2>3, <2>4, <2>5, <2>6, <2>7, <2>8
<1> QED BY <1>1, <1>2

\* The release script keeps it.
LEMMA CancelStep ==
    ASSUME IInv, NEW l \in Leases, Cancel(l)
    PROVE  IInv'
<1> USE DEF Cancel, Move, IInv, sweeperVars
<1>1. ReleaseScript(l, "CANCELLED") /\ UNCHANGED used
  OBVIOUS
<1>2. /\ balance' \in [Tenants -> Int] /\ refunded' \in [Tenants -> Nat]
      /\ credit' \in [Leases -> Nat]
      /\ state' \in [Leases -> Recorded \cup {"unused", "purged"}]
      /\ sweep' \subseteq Leases
      /\ UNCHANGED <<provisioned, debited, consumed, epoch, tenant, amount>>
      /\ \A k \in Leases : k # l => state'[k] = state[k]
      /\ state'[l] = IF state[l] = "RESERVED" THEN "CANCELLED" ELSE state[l]
      /\ NoOverdraft' /\ RefundedOnce' /\ SweepIndexExact'
      /\ CreditsProvisioned'
  BY <1>1, ReleaseLedger
<1>3. TypeOK' /\ (used \in [Leases -> Uses \cup {0}])'
  BY <1>2 DEF TypeOK, ReqPhase
<1>4. NoLiveExpiry'
  BY <1>2 DEF TypeOK, NoLiveExpiry
<1>5. RequestInv'
  BY <1>2 DEF TypeOK, RequestInv
<1>6. SweeperInv'
  BY <1>2 DEF TypeOK, SweeperInv
<1> QED BY <1>2, <1>3, <1>4, <1>5, <1>6

\* Dropping the index entry of a record that is gone keeps it.
LEMMA CancelGhostStep ==
    ASSUME IInv, NEW l \in Leases, CancelGhost(l)
    PROVE  IInv'
<1> USE DEF CancelGhost, DropGhost, Move, IInv, sweeperVars
<1>1. sweep' = sweep
  BY DEF RequestInv, SweepIndexExact
<1>2. TypeOK' /\ (used \in [Leases -> Uses \cup {0}])'
  BY DEF TypeOK, ReqPhase
<1>3. NoOverdraft' /\ RefundedOnce' /\ SweepIndexExact' /\ CreditsProvisioned'
  BY <1>1 DEF NoOverdraft, RefundedOnce, SweepIndexExact, CreditsProvisioned
<1>4. NoLiveExpiry' /\ RequestInv'
  BY DEF TypeOK, NoLiveExpiry, RequestInv
<1>5. SweeperInv'
  BY DEF TypeOK, SweeperInv
<1> QED BY <1>2, <1>3, <1>4, <1>5

\* The expiry of a terminal record keeps it.
LEMMA PurgeStep ==
    ASSUME IInv, NEW l \in Leases, PurgeRecord(l)
    PROVE  IInv'
<1> USE DEF PurgeRecord, Terminal, IInv, requestVars, sweeperVars
<1>1. TypeOK' /\ (used \in [Leases -> Uses \cup {0}])'
  BY DEF TypeOK
<1>2. NoOverdraft'
  BY DEF NoOverdraft
<1>3. RefundedOnce'
  BY DEF TypeOK, RefundedOnce
<1>4. SweepIndexExact'
  BY DEF TypeOK, SweepIndexExact
<1>5. CreditsProvisioned'
  BY DEF TypeOK, CreditsProvisioned
<1>6. NoLiveExpiry' /\ RequestInv'
  BY DEF TypeOK, NoLiveExpiry, RequestInv
<1>7. SweeperInv'
  BY DEF TypeOK, SweeperInv
<1> QED BY <1>1, <1>2, <1>3, <1>4, <1>5, <1>6, <1>7

\* The sweeper's range scan keeps it.
LEMMA SweepScanStep ==
    ASSUME IInv, NEW s \in Sweepers, SweepScan(s)
    PROVE  IInv'
<1> USE DEF IInv, ledgerVars, requestVars
<1>1. PICK ids \in SUBSET Due : page' = [page EXCEPT ![s] = ids]
  BY DEF SweepScan
<1>2. /\ page[s] = {}
      /\ UNCHANGED <<ledgerVars, age, requestVars, cur, call>>
  BY DEF SweepScan
<1> USE <1>1, <1>2
<1>3. \A l \in ids : /\ l \in Leases /\ req[l] \notin {"idle", "refused"}
                     /\ req[l] = "serving" => l \in Unbounded
  <2> TAKE l \in ids
  <2>1. l \in Leases /\ state[l] = "RESERVED" /\ age[l] >= LeaseTTL
    BY DEF Due, SweepIndexExact
  <2> QED BY <2>1, HorizonAssumption DEF HorizonAssumption, RequestInv, TypeOK
<1>4. TypeOK' /\ (used \in [Leases -> Uses \cup {0}])'
  BY <1>3 DEF TypeOK
<1>5. NoOverdraft' /\ RefundedOnce' /\ SweepIndexExact' /\ CreditsProvisioned'
  BY DEF NoOverdraft, RefundedOnce, SweepIndexExact, CreditsProvisioned
<1>6. NoLiveExpiry' /\ RequestInv'
  BY DEF NoLiveExpiry, RequestInv
<1>7. SweeperInv'
  BY <1>3 DEF TypeOK, SweeperInv
<1> QED BY <1>4, <1>5, <1>6, <1>7

\* The sweeper's HGET keeps it.
LEMMA SweepLookupStep ==
    ASSUME IInv, NEW s \in Sweepers, NEW l \in Leases, SweepLookup(s, l)
    PROVE  IInv'
<1> USE DEF SweepLookup, IInv, ledgerVars, requestVars
<1>1. state[l] # "unused"
  BY DEF SweeperInv, RequestInv
<1>2. TypeOK' /\ (used \in [Leases -> Uses \cup {0}])'
  BY DEF TypeOK
<1>3. NoOverdraft' /\ RefundedOnce' /\ SweepIndexExact' /\ CreditsProvisioned'
  BY DEF NoOverdraft, RefundedOnce, SweepIndexExact, CreditsProvisioned
<1>4. NoLiveExpiry' /\ RequestInv'
  BY DEF NoLiveExpiry, RequestInv
<1>5. SweeperInv'
  BY <1>1 DEF TypeOK, SweeperInv, Recorded
<1> QED BY <1>2, <1>3, <1>4, <1>5

\* The sweeper's release script keeps it.
LEMMA SweepReleaseStep ==
    ASSUME IInv, NEW s \in Sweepers, SweepRelease(s) \/ SweepReplyLost(s)
    PROVE  IInv'
<1> DEFINE l == cur[s]
<1> USE DEF IInv, requestVars
<1>1. /\ call[s] = "script"
      /\ ReleaseScript(l, "EXPIRED")
      /\ NextInPage(s) \/ AbortPass(s)
      /\ UNCHANGED <<age, req, used>>
  BY DEF SweepRelease, SweepReplyLost
<1>2. /\ l \in Leases /\ req[l] \notin {"idle", "refused"}
      /\ req[l] = "serving" => l \in Unbounded
  BY <1>1 DEF SweeperInv, TypeOK
<1>3. state[l] # "unused"
  BY <1>2 DEF RequestInv
<1> HIDE DEF l
<1>4. /\ balance' \in [Tenants -> Int] /\ refunded' \in [Tenants -> Nat]
      /\ credit' \in [Leases -> Nat]
      /\ state' \in [Leases -> Recorded \cup {"unused", "purged"}]
      /\ sweep' \subseteq Leases
      /\ UNCHANGED <<provisioned, debited, consumed, epoch, tenant, amount>>
      /\ \A k \in Leases : k # l => state'[k] = state[k]
      /\ state'[l] = IF state[l] = "RESERVED" THEN "EXPIRED" ELSE state[l]
      /\ NoOverdraft' /\ RefundedOnce' /\ SweepIndexExact'
      /\ CreditsProvisioned'
  BY <1>1, <1>2, ReleaseLedger
<1>5. TypeOK' /\ (used \in [Leases -> Uses \cup {0}])'
  BY <1>1, <1>4 DEF TypeOK, NextInPage, AbortPass
<1>6. NoLiveExpiry'
  BY <1>1, <1>2, <1>4 DEF TypeOK, NoLiveExpiry
<1>7. RequestInv'
  BY <1>1, <1>2, <1>3, <1>4 DEF TypeOK, RequestInv
<1>8. SweeperInv'
  BY <1>1, <1>4 DEF TypeOK, SweeperInv, NextInPage, AbortPass
<1> QED BY <1>4, <1>5, <1>6, <1>7, <1>8

\* The sweeper's removal of a ghost entry keeps it.
LEMMA SweepGhostStep ==
    ASSUME IInv, NEW s \in Sweepers, SweepGhost(s)
    PROVE  IInv'
<1> USE DEF SweepGhost, DropGhost, NextInPage, IInv, requestVars
<1>1. sweep' = sweep
  BY DEF SweeperInv, SweepIndexExact
<1>2. TypeOK' /\ (used \in [Leases -> Uses \cup {0}])'
  BY <1>1 DEF TypeOK
<1>3. NoOverdraft' /\ RefundedOnce' /\ SweepIndexExact' /\ CreditsProvisioned'
  BY <1>1 DEF NoOverdraft, RefundedOnce, SweepIndexExact, CreditsProvisioned
<1>4. NoLiveExpiry' /\ RequestInv'
  BY DEF NoLiveExpiry, RequestInv
<1>5. SweeperInv'
  BY DEF TypeOK, SweeperInv
<1> QED BY <1>2, <1>3, <1>4, <1>5

\* A sweep that stops on an error keeps it.
LEMMA SweepFailsStep ==
    ASSUME IInv, NEW s \in Sweepers, SweepFails(s)
    PROVE  IInv'
<1> USE DEF SweepFails, AbortPass, IInv, ledgerVars, requestVars
<1>1. TypeOK' /\ (used \in [Leases -> Uses \cup {0}])'
  BY DEF TypeOK
<1>2. NoOverdraft' /\ RefundedOnce' /\ SweepIndexExact' /\ CreditsProvisioned'
  BY DEF NoOverdraft, RefundedOnce, SweepIndexExact, CreditsProvisioned
<1>3. NoLiveExpiry' /\ RequestInv'
  BY DEF NoLiveExpiry, RequestInv
<1>4. SweeperInv'
  BY DEF TypeOK, SweeperInv
<1> QED BY <1>1, <1>2, <1>3, <1>4

\* Time alone keeps it.
LEMMA TickStep ==
    ASSUME IInv, Tick
    PROVE  IInv'
<1> USE DEF Tick, IInv, ledgerVars, requestVars, sweeperVars
<1>1. TypeOK' /\ (used \in [Leases -> Uses \cup {0}])'
  BY HorizonAssumption DEF HorizonAssumption, TypeOK
<1>2. NoOverdraft' /\ RefundedOnce' /\ SweepIndexExact' /\ CreditsProvisioned'
  BY DEF NoOverdraft, RefundedOnce, SweepIndexExact, CreditsProvisioned
<1>3. NoLiveExpiry' /\ SweeperInv'
  BY DEF NoLiveExpiry, SweeperInv
<1>4. RequestInv'
  BY HorizonAssumption DEF HorizonAssumption, TypeOK, RequestInv
<1> QED BY <1>1, <1>2, <1>3, <1>4

-----------------------------------------------------------------------------
LEMMA Initially == Init => IInv
<1> SUFFICES ASSUME Init PROVE IInv
  OBVIOUS
<1> USE QuotaAssumption, HorizonAssumption
        DEF QuotaAssumption, HorizonAssumption, Init
<1>1. TypeOK
  BY DEF TypeOK, ReqPhase
<1>2. used \in [Leases -> Uses \cup {0}]
  OBVIOUS
<1>3. NoOverdraft /\ RefundedOnce /\ SweepIndexExact /\ CreditsProvisioned /\ NoLiveExpiry
  BY DEF NoOverdraft, RefundedOnce, SweepIndexExact, CreditsProvisioned, NoLiveExpiry
<1>4. RequestInv /\ SweeperInv
  BY DEF RequestInv, SweeperInv
<1> QED BY <1>1, <1>2, <1>3, <1>4 DEF IInv

\* A step of something else keeps it.
LEMMA Stuttering == ASSUME IInv, UNCHANGED vars PROVE IInv'
BY DEF vars, ledgerVars, requestVars, sweeperVars, IInv, TypeOK, NoOverdraft,
       RefundedOnce, SweepIndexExact, CreditsProvisioned, NoLiveExpiry,
       RequestInv, SweeperInv

\* The invariant is inductive.
LEMMA Inductive == IInv /\ [Next]_vars => IInv'
<1> SUFFICES ASSUME IInv, [Next]_vars PROVE IInv'
  OBVIOUS
<1>1. CASE Provisioning
  BY <1>1, ProvisioningStep DEF Provisioning
<1>2. ASSUME NEW l \in Leases, Request(l) PROVE IInv'
  BY <1>2, ReserveStep, ReserveRefusedStep, FinishStep, LookupStep, SettleStep,
     CancelStep, CancelGhostStep, VanishStep DEF Request
<1>3. ASSUME NEW l \in Leases, PurgeRecord(l) PROVE IInv'
  BY <1>3, PurgeStep
<1>4. ASSUME NEW s \in Sweepers, Sweeper(s) PROVE IInv'
  BY <1>4, SweepScanStep, SweepLookupStep, SweepReleaseStep, SweepGhostStep,
     SweepFailsStep DEF Sweeper
<1>5. CASE Tick
  BY <1>5, TickStep
<1>6. CASE UNCHANGED vars
  BY <1>6, Stuttering
<1> QED BY <1>1, <1>2, <1>3, <1>4, <1>5, <1>6 DEF Next

\* The invariant holds throughout.
LEMMA Invariance == Spec => []IInv
BY Initially, Inductive, PTL DEF Spec

-----------------------------------------------------------------------------
(* The invariants, for every instance *)

\* Every variable of the ledger, the quota stage and the sweepers keeps its
\* type; in particular the INCRBY counters never fall.
THEOREM TypeCorrect == Spec => []TypeOK
<1>1. IInv => TypeOK
  BY DEF IInv
<1> QED BY <1>1, Invariance, PTL

\* No interleaving of scripts, corrections and lost replies overdraws a
\* tenant (reserve.lua checks and deducts in one step).
THEOREM NeverOverdrawn == Spec => []NoOverdraft
<1>1. IInv => NoOverdraft
  BY DEF IInv
<1> QED BY <1>1, Invariance, PTL

\* However many sweepers, settles and cancels reach a lease, it is credited
\* once and by the right amount (the state check of settle.lua, release.lua).
THEOREM NeverRefundedTwice == Spec => []RefundedOnce
<1>1. IInv => RefundedOnce
  BY DEF IInv
<1> QED BY <1>1, Invariance, PTL

\* The sweep zset holds exactly the live leases.
THEOREM IndexStaysExact == Spec => []SweepIndexExact
<1>1. IInv => SweepIndexExact
  BY DEF IInv
<1> QED BY <1>1, Invariance, PTL

\* A refund never creates the balance key of an unprovisioned tenant.
THEOREM NeverMintsTenant == Spec => []CreditsProvisioned
<1>1. IInv => CreditsProvisioned
  BY DEF IInv
<1> QED BY <1>1, Invariance, PTL

\* The lease of a request that has a budget and is still being served is never
\* reclaimed: its gateway was only configured with a horizon longer than the
\* budget (env.go:340-347).  Requests without a budget, whose leases do expire
\* under them, run next to it.
THEOREM NeverExpiresLive == Spec => []NoLiveExpiry
<1>1. IInv => NoLiveExpiry
  BY DEF IInv
<1> QED BY <1>1, Invariance, PTL

-----------------------------------------------------------------------------
(* What a step may never do *)

\* The ledger moves in six ways: a provisioning, one of the three scripts, the
\* expiry of a record; every other step leaves it alone.
LEMMA LedgerSteps ==
    ASSUME IInv, [Next]_vars
    PROVE  \/ \E t \in Tenants, b \in Balances : SetBalance(t, b) \/ EnsureBalance(t, b)
           \/ \E l \in Leases, t \in Tenants, a \in Amounts :
                req[l] = "idle" /\ ReserveScript(l, t, a)
           \/ \E l \in Leases : used[l] \in Uses /\ SettleScript(l, used[l])
           \/ \E l \in Leases : ReleaseScript(l, "CANCELLED") \/ ReleaseScript(l, "EXPIRED")
           \/ \E l \in Leases : PurgeRecord(l)
           \/ UNCHANGED <<provisioned, balance, debited, refunded, epoch, state,
                          tenant, amount>>
<1> DEFINE Still == UNCHANGED <<provisioned, balance, debited, refunded, epoch,
                                state, tenant, amount>>
<1>1. ASSUME NEW l \in Leases, Request(l)
      PROVE  \/ \E t \in Tenants, a \in Amounts :
                  req[l] = "idle" /\ ReserveScript(l, t, a)
             \/ used[l] \in Uses /\ SettleScript(l, used[l])
             \/ ReleaseScript(l, "CANCELLED")
             \/ Still
  <2>1. Settle(l) => used[l] \in Uses
    BY DEF IInv, Settle
  <2> QED BY <1>1, <2>1
          DEF Request, Reserve, ReserveReplyLost, ReserveRefused, Finish,
              LookupLease, Settle, Cancel, CancelGhost, DropGhost, Vanish, ledgerVars
<1>2. ASSUME NEW s \in Sweepers, Sweeper(s)
      PROVE  (\E l \in Leases : ReleaseScript(l, "EXPIRED")) \/ Still
  <2>1. SweepRelease(s) \/ SweepReplyLost(s) =>
            cur[s] \in Leases /\ ReleaseScript(cur[s], "EXPIRED")
    BY DEF SweepRelease, SweepReplyLost, IInv, SweeperInv, TypeOK
  <2> QED BY <1>2, <2>1
          DEF Sweeper, SweepScan, SweepLookup, SweepGhost, DropGhost, SweepFails,
              ledgerVars
<1>3. Tick \/ UNCHANGED vars => Still
  BY DEF Tick, vars, ledgerVars
<1> QED BY <1>1, <1>2, <1>3 DEF Next, Provisioning

\* The step that leaves RESERVED is the last one that moves a lease, until
\* its record is dropped.
THEOREM TerminalIsForGood == Spec => TerminalForGood
<1> DEFINE Kept == \A l \in Leases :
                     state[l] \in Terminal \cup {"purged"} =>
                         state'[l] \in {state[l], "purged"}
<1>1. ASSUME IInv, [Next]_vars PROVE Kept
  <2> USE <1>1 DEF IInv, TypeOK, Terminal
  <2>1. ASSUME NEW t \in Tenants, NEW b \in Balances,
               SetBalance(t, b) \/ EnsureBalance(t, b)
        PROVE  Kept
    BY <2>1 DEF SetBalance, EnsureBalance
  <2>2. ASSUME NEW l \in Leases, NEW t \in Tenants, NEW a \in Amounts,
               req[l] = "idle", ReserveScript(l, t, a)
        PROVE  Kept
    BY <2>2 DEF RequestInv, ReserveScript
  <2>3. ASSUME NEW l \in Leases, SettleScript(l, used[l])
        PROVE  Kept
    BY <2>3 DEF SettleScript, ledgerVars
  <2>4. ASSUME NEW l \in Leases, NEW target, ReleaseScript(l, target)
        PROVE  Kept
    BY <2>4 DEF ReleaseScript
  <2>5. ASSUME NEW l \in Leases, PurgeRecord(l) PROVE Kept
    BY <2>5 DEF PurgeRecord
  <2>6. UNCHANGED state => Kept
    OBVIOUS
  <2> HIDE DEF Kept
  <2> QED BY <2>1, <2>2, <2>3, <2>4, <2>5, <2>6, LedgerSteps
<1> QED BY <1>1, Invariance, PTL DEF Spec, TerminalForGood

\* Every balance movement is paired with a counter movement of the same size
\* inside one script, provisioning only adds and a correction counts up.
LEMMA PairedMoves ==
    ASSUME IInv, [Next]_vars
    PROVE  /\ provisioned \subseteq provisioned'
           /\ \A t \in Tenants : epoch[t] <= epoch'[t]
           /\ \A t \in Tenants :
                t \in provisioned /\ epoch'[t] = epoch[t] =>
                    balance'[t] + debited'[t] - refunded'[t]
                      = balance[t] + debited[t] - refunded[t]
<1> DEFINE Kept ==
             /\ provisioned \subseteq provisioned'
             /\ \A t \in Tenants : epoch[t] <= epoch'[t]
             /\ \A t \in Tenants :
                  t \in provisioned /\ epoch'[t] = epoch[t] =>
                      balance'[t] + debited'[t] - refunded'[t]
                        = balance[t] + debited[t] - refunded[t]
<1> USE DEF IInv, TypeOK
<1>1. ASSUME NEW t \in Tenants, NEW b \in Balances,
             SetBalance(t, b) \/ EnsureBalance(t, b)
      PROVE  Kept
  BY <1>1 DEF SetBalance, EnsureBalance
<1>2. ASSUME NEW l \in Leases, NEW t \in Tenants, NEW a \in Amounts,
             ReserveScript(l, t, a)
      PROVE  Kept
  BY <1>2, QuotaAssumption DEF QuotaAssumption, ReserveScript
<1>3. ASSUME NEW l \in Leases, SettleScript(l, used[l])
      PROVE  Kept
  <2>1. Refund(amount[l], used[l]) \in Nat
    BY RefundBounds
  <2> QED BY <1>3, <2>1 DEF SettleScript, Credit, ledgerVars
<1>4. ASSUME NEW l \in Leases, NEW target, ReleaseScript(l, target)
      PROVE  Kept
  BY <1>4 DEF ReleaseScript, Credit
<1>5. UNCHANGED <<provisioned, balance, debited, refunded, epoch>> => Kept
  OBVIOUS
<1>6. ASSUME NEW l \in Leases, PurgeRecord(l) PROVE Kept
  BY <1>5, <1>6 DEF PurgeRecord
<1> HIDE DEF Kept
<1>7. Kept
  BY <1>1, <1>2, <1>3, <1>4, <1>5, <1>6, LedgerSteps
<1> QED BY <1>7 DEF Kept

\* So the reconciler's identity holds of every step that is not a correction
\* or a first provisioning.
THEOREM IdentityHolds == Spec => BalanceIdentity
<1>1. ASSUME IInv, [Next]_vars
      PROVE  \A t \in Tenants :
               t \in provisioned /\ epoch'[t] = epoch[t] =>
                   balance'[t] + debited'[t] - refunded'[t]
                     = balance[t] + debited[t] - refunded[t]
  BY <1>1, PairedMoves
<1> QED BY <1>1, Invariance, PTL DEF Spec, BalanceIdentity

-----------------------------------------------------------------------------
(* The refinement *)

\* The ledger implements the port's contract for every instance: each script
\* is one step of QuotaContract and every round trip, crash, retry, lost reply
\* and tick around them is invisible to it.
THEOREM RefinesContract == Spec => ImplementsContract
<1>1. Init => Contract!Init
  BY DEF Init, Contract!Init
<1>2. ASSUME IInv, [Next]_vars PROVE [Contract!Next]_(Contract!contractVars)
  <2> USE <1>2 DEF IInv, TypeOK
  <2>1. ASSUME NEW t \in Tenants, NEW b \in Balances,
               SetBalance(t, b) \/ EnsureBalance(t, b)
        PROVE  Contract!Next
    BY <2>1 DEF SetBalance, EnsureBalance, Contract!Next, Contract!Provision
  <2>2. ASSUME NEW l \in Leases, NEW t \in Tenants, NEW a \in Amounts,
               req[l] = "idle", ReserveScript(l, t, a)
        PROVE  Contract!Next
    <3>1. Contract!Reserve(l, t, a)
      BY <2>2 DEF ReserveScript, CanReserve, RequestInv, Contract!Reserve
    <3> QED BY <3>1 DEF Contract!Next
  <2>3. ASSUME NEW l \in Leases, used[l] \in Uses, SettleScript(l, used[l])
        PROVE  Contract!Next \/ UNCHANGED Contract!contractVars
    <3>1. Refund(amount[l], used[l]) = Contract!SettleRefund(amount[l], used[l])
      BY DEF Refund, Spent, Contract!SettleRefund
    <3>2. CASE state[l] = "RESERVED"
      <4>1. Contract!Settle(l, used[l])
        BY <2>3, <3>1, <3>2 DEF SettleScript, Credit, Contract!Settle, Contract!Close
      <4> QED BY <2>3, <4>1 DEF Contract!Next
    <3>3. CASE state[l] # "RESERVED"
      BY <2>3, <3>3 DEF SettleScript, ledgerVars, Contract!contractVars
    <3> QED BY <3>2, <3>3
  <2>4. ASSUME NEW l \in Leases,
               ReleaseScript(l, "CANCELLED") \/ ReleaseScript(l, "EXPIRED")
        PROVE  Contract!Next \/ UNCHANGED Contract!contractVars
    <3>1. CASE state[l] = "RESERVED"
      <4>1. Contract!Cancel(l) \/ Contract!Expire(l)
        BY <2>4, <3>1 DEF ReleaseScript, Credit, Contract!Cancel, Contract!Expire,
                          Contract!Close
      <4> QED BY <4>1 DEF Contract!Next
    <3>2. CASE state[l] # "RESERVED"
      BY <2>4, <3>2 DEF ReleaseScript, Contract!contractVars
    <3> QED BY <3>1, <3>2
  <2>5. ASSUME NEW l \in Leases, PurgeRecord(l) PROVE Contract!Next
    <3>1. Contract!Purge(l)
      BY <2>5 DEF PurgeRecord, Terminal, Contract!Purge, Contract!Terminal
    <3> QED BY <3>1 DEF Contract!Next
  <2>6. UNCHANGED <<provisioned, balance, state, tenant, amount>> =>
            UNCHANGED Contract!contractVars
    BY DEF Contract!contractVars
  <2> QED BY <2>1, <2>2, <2>3, <2>4, <2>5, <2>6, LedgerSteps
<1> QED BY <1>1, <1>2, Invariance, PTL DEF Spec, ImplementsContract, Contract!Spec

-----------------------------------------------------------------------------
(* The reconcilers *)

\* What does not change while nobody corrects the tenant.
Total(t) == balance[t] + debited[t] - refunded[t] + lost[t]
Sum(s) == s.balance + s.debited - s.refunded + s.lost

\* The finished snapshots of a tenant: stored, fetched or about to be.
Readers(t) == {r \in Reconcilers : about[r] = t}
Finished(t) == {r \in Readers(t) : step[r] \in {"latest", "append"}}
OnFile(t) ==
    latest[t] \cup {snap[r] : r \in Finished(t)} \cup (UNION {prev[r] : r \in Readers(t)})

\* A snapshot the ledger did not move under is a true one of its epoch.
FilesTrue ==
    \A t \in Tenants : \A s \in OnFile(t) :
        ~s.torn => /\ t \in provisioned
                   /\ s.epoch <= epoch[t]
                   /\ s.epoch = epoch[t] => Sum(s) = Total(t)

\* Two true snapshots of one epoch agree, whatever happened since.
FilesAgree ==
    \A t \in Tenants : \A p, s \in OnFile(t) :
        ~p.torn /\ ~s.torn /\ p.epoch = s.epoch => Sum(p) = Sum(s)

\* What an undisturbed reader has read so far is still what the ledger says.
PartsTrue ==
    \A r \in Reconcilers :
        Reading(r) /\ ~snap[r].torn =>
            /\ about[r] \in provisioned
            /\ snap[r].balance = balance[about[r]]
            /\ snap[r].lost = lost[about[r]]
            /\ step[r] # "refunded" => snap[r].refunded = refunded[about[r]]
            /\ step[r] = "epoch" => snap[r].debited = debited[about[r]]

\* One row is the newest, and only a reader about to append holds one.
OneRow ==
    /\ \A t \in Tenants : \A p, s \in latest[t] : p = s
    /\ \A r \in Reconcilers : \A p, s \in prev[r] : p = s
    /\ \A r \in Reconcilers : step[r] # "append" => prev[r] = {}

ReconcilerTypes ==
    /\ lost \in [Tenants -> Nat]
    /\ step \in [Reconcilers -> {"idle", "refunded", "debited", "epoch", "latest", "append"}]
    /\ about \in [Reconcilers -> Tenants]
    /\ snap \in [Reconcilers -> Snapshot]
    /\ DOMAIN prev = Reconcilers /\ \A r \in Reconcilers : prev[r] \subseteq Snapshot
    /\ DOMAIN latest = Tenants /\ \A t \in Tenants : latest[t] \subseteq Snapshot
    /\ verdict \in [Reconcilers -> [drift : Int, loss : Int, torn : BOOLEAN]]

VerdictsExact == \A r \in Reconcilers : ~verdict[r].torn => verdict[r].drift + verdict[r].loss = 0

RInv ==
    /\ IInv /\ ReconcilerTypes /\ FilesTrue /\ FilesAgree /\ PartsTrue /\ OneRow
    /\ VerdictsExact

\* What a step may do to the ledger as far as the snapshots can tell.
LedgerGoesOn ==
    /\ provisioned \subseteq provisioned'
    /\ \A t \in Tenants : epoch[t] <= epoch'[t]
    /\ \A t \in Tenants : t \in provisioned /\ epoch'[t] = epoch[t] => Total(t)' = Total(t)

\* A finished snapshot is a snapshot.
LEMMA FilesTyped ==
    ASSUME ReconcilerTypes, NEW t \in Tenants, NEW s \in OnFile(t)
    PROVE  s \in Snapshot /\ s.epoch \in Nat /\ Sum(s) \in Int
<1>1. s \in Snapshot
  <2>1. CASE s \in latest[t]
    BY <2>1 DEF ReconcilerTypes
  <2>2. ASSUME NEW r \in Reconcilers, s \in prev[r] PROVE s \in Snapshot
    BY <2>2 DEF ReconcilerTypes
  <2>3. ASSUME NEW r \in Reconcilers, s = snap[r] PROVE s \in Snapshot
    BY <2>3 DEF ReconcilerTypes
  <2> QED BY <2>1, <2>2, <2>3 DEF OnFile, Readers, Finished
<1> QED BY <1>1 DEF Snapshot, Sum

\* Without a new snapshot, the old ones stay true while the ledger goes on.
LEMMA FilesKept ==
    ASSUME IInv, IInv', ReconcilerTypes, FilesTrue, FilesAgree, LedgerGoesOn,
           \A t \in Tenants : OnFile(t)' \subseteq OnFile(t)
    PROVE  FilesTrue' /\ FilesAgree'
<1>1. ASSUME NEW t \in Tenants, NEW s \in OnFile(t)', ~s.torn
      PROVE  /\ t \in provisioned'
             /\ s.epoch <= epoch'[t]
             /\ s.epoch = epoch'[t] => Sum(s) = Total(t)'
  <2>1. s \in OnFile(t) /\ s.epoch \in Nat /\ epoch[t] \in Nat /\ epoch'[t] \in Nat
    BY FilesTyped DEF IInv, TypeOK
  <2>2. /\ t \in provisioned /\ s.epoch <= epoch[t]
        /\ s.epoch = epoch[t] => Sum(s) = Total(t)
    BY <1>1, <2>1 DEF FilesTrue
  <2>3. epoch[t] <= epoch'[t] /\ provisioned \subseteq provisioned'
    BY DEF LedgerGoesOn
  <2>4. epoch'[t] = epoch[t] => Total(t)' = Total(t)
    BY <2>2 DEF LedgerGoesOn
  <2> QED BY <2>1, <2>2, <2>3, <2>4
<1>2. FilesTrue'
  BY <1>1 DEF FilesTrue, Sum
<1>3. FilesAgree'
  BY DEF FilesAgree, Sum
<1> QED BY <1>2, <1>3

\* Tokens that go missing keep the ledger's own invariant.
LEMMA LossKeepsLedger ==
    ASSUME RInv, NEW t \in Tenants, LoseTokens(t)
    PROVE  IInv' /\ LedgerGoesOn /\ lost' \in [Tenants -> Nat]
           /\ \A q \in Tenants : ~Moved(q) => lost'[q] = lost[q]
<1>1. /\ balance[t] > 0 /\ balance' = [balance EXCEPT ![t] = @ - 1]
      /\ lost' = [lost EXCEPT ![t] = @ + 1]
      /\ UNCHANGED <<provisioned, debited, refunded, consumed, epoch, state, tenant,
                     amount, sweep, credit, age, req, used, page, cur, call>>
  BY DEF LoseTokens, requestVars, sweeperVars
<1>2. TypeOK /\ lost \in [Tenants -> Nat] /\ IInv
  BY DEF RInv, IInv, ReconcilerTypes
<1>3. balance' \in [Tenants -> Int] /\ NoOverdraft'
  BY <1>1, <1>2 DEF TypeOK, IInv, NoOverdraft
<1>4. IInv'
  BY <1>1, <1>2, <1>3 DEF IInv, TypeOK, RefundedOnce, SweepIndexExact, CreditsProvisioned,
                          NoLiveExpiry, RequestInv, SweeperInv
<1>5. \A q \in Tenants : Total(q)' = Total(q) /\ epoch[q] <= epoch'[q]
  BY <1>1, <1>2 DEF TypeOK, Total
<1>6. \A q \in Tenants : ~Moved(q) => lost'[q] = lost[q]
  BY <1>1, <1>2 DEF Moved, TypeOK
<1>7. lost' \in [Tenants -> Nat]
  BY <1>1, <1>2
<1> QED BY <1>1, <1>4, <1>5, <1>6, <1>7 DEF LedgerGoesOn

\* And so does a step of the ledger.
LEMMA MoveKeepsLedger ==
    ASSUME RInv, [Next]_vars, UNCHANGED lost
    PROVE  IInv' /\ LedgerGoesOn /\ lost' \in [Tenants -> Nat]
<1>1. IInv /\ lost \in [Tenants -> Nat]
  BY DEF RInv, ReconcilerTypes
<1>2. IInv'
  BY <1>1, Inductive
<1>3. /\ provisioned \subseteq provisioned'
      /\ \A t \in Tenants : epoch[t] <= epoch'[t]
      /\ \A t \in Tenants :
           t \in provisioned /\ epoch'[t] = epoch[t] =>
               balance'[t] + debited'[t] - refunded'[t]
                 = balance[t] + debited[t] - refunded[t]
  BY <1>1, PairedMoves
<1>4. \A t \in Tenants : t \in provisioned /\ epoch'[t] = epoch[t] => Total(t)' = Total(t)
  BY <1>1, <1>2, <1>3 DEF IInv, TypeOK, Total
<1> QED BY <1>1, <1>2, <1>3, <1>4 DEF LedgerGoesOn

\* The ledger moves under the reconcilers: whoever is reading the tenant is torn.
LEMMA MovesKeep ==
    ASSUME RInv, IInv', LedgerGoesOn, lost' \in [Tenants -> Nat],
           \A q \in Tenants : ~Moved(q) => lost'[q] = lost[q],
           MarkTorn, UNCHANGED <<step, about, prev, latest, verdict>>
    PROVE  RInv'
<1> USE DEF RInv
<1>1. \A r \in Reconcilers :
        /\ snap[r] \in Snapshot /\ about[r] \in Tenants
        /\ snap'[r] = IF Reading(r) /\ Moved(about[r])
                      THEN [snap[r] EXCEPT !.torn = TRUE] ELSE snap[r]
  BY DEF ReconcilerTypes, MarkTorn
<1>2. \A r \in Reconcilers : snap'[r] \in Snapshot /\ (Reading(r) /\ Moved(about[r]) => snap'[r].torn)
  BY <1>1 DEF Snapshot
<1>3. snap' \in [Reconcilers -> Snapshot]
  BY <1>2 DEF MarkTorn
<1>4. ReconcilerTypes' /\ OneRow' /\ VerdictsExact'
  BY <1>3 DEF ReconcilerTypes, OneRow, VerdictsExact
<1>5. \A t \in Tenants : OnFile(t)' \subseteq OnFile(t)
  <2>1. \A t \in Tenants : \A r \in Finished(t) : snap'[r] = snap[r]
    BY <1>1 DEF Finished, Readers, Reading
  <2> QED BY <2>1 DEF OnFile, Readers, Finished
<1>6. FilesTrue' /\ FilesAgree'
  BY <1>5, FilesKept
<1>7. PartsTrue'
  <2> SUFFICES ASSUME NEW r \in Reconcilers, Reading(r)', ~snap'[r].torn
               PROVE  /\ about'[r] \in provisioned'
                      /\ snap'[r].balance = balance'[about'[r]]
                      /\ snap'[r].lost = lost'[about'[r]]
                      /\ step'[r] # "refunded" => snap'[r].refunded = refunded'[about'[r]]
                      /\ step'[r] = "epoch" => snap'[r].debited = debited'[about'[r]]
    BY DEF PartsTrue
  <2>1. Reading(r) /\ about'[r] = about[r] /\ step'[r] = step[r] /\ about[r] \in Tenants
    BY <1>1 DEF Reading
  <2>2. ~Moved(about[r]) /\ snap'[r] = snap[r]
    BY <1>1, <1>2, <2>1
  <2>3. /\ balance'[about[r]] = balance[about[r]] /\ refunded'[about[r]] = refunded[about[r]]
        /\ debited'[about[r]] = debited[about[r]] /\ lost'[about[r]] = lost[about[r]]
        /\ provisioned \subseteq provisioned'
    BY <2>1, <2>2 DEF Moved, LedgerGoesOn
  <2> QED BY <2>1, <2>2, <2>3 DEF PartsTrue
<1> QED BY <1>4, <1>6, <1>7

\* A reconciler moves and the ledger stands still.
Quiet == UNCHANGED <<vars, lost>>

\* Then everything the snapshots are about stays.
LEMMA QuietLedger ==
    ASSUME RInv, Quiet
    PROVE  /\ IInv' /\ LedgerGoesOn /\ \A t \in Tenants : Total(t)' = Total(t)
           /\ UNCHANGED <<provisioned, balance, debited, refunded, epoch, lost>>
<1>1. IInv'
  BY Stuttering DEF RInv, Quiet
<1>2. UNCHANGED <<provisioned, balance, debited, refunded, epoch, lost>>
  BY DEF Quiet, vars, ledgerVars
<1>3. \A t \in Tenants : Total(t)' = Total(t) /\ epoch[t] <= epoch'[t]
  BY <1>2 DEF Total, RInv, IInv, TypeOK
<1> QED BY <1>1, <1>2, <1>3 DEF LedgerGoesOn

\* No interval compared, no drift and no loss.
LEMMA NoVerdictExact ==
    NoVerdict \in [drift : Int, loss : Int, torn : BOOLEAN] /\ NoVerdict.drift + NoVerdict.loss = 0
BY DEF NoVerdict

\* The balance comes first.
LEMMA ReadBalanceKeeps ==
    ASSUME RInv, NEW r \in Reconcilers, NEW t \in Tenants, ReadBalance(r, t)
    PROVE  RInv'
<1> USE DEF RInv
<1> DEFINE first == [NoSnapshot EXCEPT !.balance = balance[t], !.lost = lost[t]]
<1>1. /\ step[r] = "idle" /\ t \in provisioned
      /\ about' = [about EXCEPT ![r] = t] /\ snap' = [snap EXCEPT ![r] = first]
      /\ verdict' = [verdict EXCEPT ![r] = NoVerdict] /\ step' = [step EXCEPT ![r] = "refunded"]
      /\ UNCHANGED <<prev, latest>> /\ Quiet
  BY DEF ReadBalance, Goto, Quiet
<1>2. /\ IInv' /\ LedgerGoesOn
      /\ UNCHANGED <<provisioned, balance, debited, refunded, epoch, lost>>
  BY <1>1, QuietLedger
<1>3. /\ first \in Snapshot /\ first.balance = balance[t] /\ first.lost = lost[t]
  BY DEF IInv, TypeOK, ReconcilerTypes, NoSnapshot, Snapshot
<1> HIDE DEF first
<1>4. NoVerdict \in [drift : Int, loss : Int, torn : BOOLEAN] /\ NoVerdict.drift + NoVerdict.loss = 0
  BY NoVerdictExact
<1>5. ReconcilerTypes' /\ OneRow' /\ VerdictsExact'
  BY <1>1, <1>2, <1>3, <1>4 DEF ReconcilerTypes, OneRow, VerdictsExact
<1>6. \A q \in Tenants : OnFile(q)' \subseteq OnFile(q)
  <2>1. prev[r] = {}
    BY <1>1 DEF OneRow
  <2> QED BY <1>1, <2>1 DEF OnFile, Readers, Finished, ReconcilerTypes
<1>7. FilesTrue' /\ FilesAgree'
  BY <1>2, <1>6, FilesKept
<1>8. PartsTrue'
  BY <1>1, <1>2, <1>3 DEF PartsTrue, Reading, ReconcilerTypes
<1> QED BY <1>2, <1>5, <1>7, <1>8

\* Then the counters, one by one.
LEMMA ReadCountersKeep ==
    ASSUME RInv, NEW r \in Reconcilers, ReadRefunded(r) \/ ReadDebited(r)
    PROVE  RInv'
<1> USE DEF RInv
<1> DEFINE refunds == [snap[r] EXCEPT !.refunded = refunded[about[r]]]
           debits == [snap[r] EXCEPT !.debited = debited[about[r]]]
<1>0. snap[r] \in Snapshot /\ about[r] \in Tenants
  BY DEF ReconcilerTypes
<1>1. /\ \/ /\ step[r] = "refunded" /\ step' = [step EXCEPT ![r] = "debited"]
            /\ snap' = [snap EXCEPT ![r] = refunds]
         \/ /\ step[r] = "debited" /\ step' = [step EXCEPT ![r] = "epoch"]
            /\ snap' = [snap EXCEPT ![r] = debits]
      /\ UNCHANGED <<about, prev, latest, verdict>> /\ Quiet
  BY <1>0 DEF ReadRefunded, ReadDebited, Goto, Quiet, ReconcilerTypes
<1>2. /\ IInv' /\ LedgerGoesOn
      /\ UNCHANGED <<provisioned, balance, debited, refunded, epoch, lost>>
  BY <1>1, QuietLedger
<1>3. /\ refunds \in Snapshot /\ refunds.refunded = refunded[about[r]]
      /\ refunds.balance = snap[r].balance /\ refunds.lost = snap[r].lost
      /\ refunds.torn = snap[r].torn
  BY <1>0 DEF IInv, TypeOK, Snapshot
<1>4. /\ debits \in Snapshot /\ debits.debited = debited[about[r]]
      /\ debits.balance = snap[r].balance /\ debits.lost = snap[r].lost
      /\ debits.refunded = snap[r].refunded /\ debits.torn = snap[r].torn
  BY <1>0 DEF IInv, TypeOK, Snapshot
<1> HIDE DEF refunds, debits
<1>5. ReconcilerTypes'
  BY <1>1, <1>2, <1>3, <1>4 DEF ReconcilerTypes
<1>6. OneRow' /\ VerdictsExact'
  <2>1. \A q \in Reconcilers : step'[q] # "append" => step[q] # "append"
    BY <1>1 DEF ReconcilerTypes
  <2> QED BY <1>1, <2>1 DEF OneRow, VerdictsExact
<1>7. \A q \in Tenants : OnFile(q)' \subseteq OnFile(q)
  BY <1>1 DEF OnFile, Readers, Finished, ReconcilerTypes
<1>8. FilesTrue' /\ FilesAgree'
  BY <1>2, <1>7, FilesKept
<1>9. PartsTrue'
  BY <1>1, <1>2, <1>3, <1>4 DEF PartsTrue, Reading, ReconcilerTypes
<1> QED BY <1>2, <1>5, <1>6, <1>8, <1>9

\* The epoch comes last: if nothing moved, the snapshot is true of it.
LEMMA ReadEpochKeeps ==
    ASSUME RInv, NEW r \in Reconcilers, ReadEpoch(r)
    PROVE  RInv'
<1> USE DEF RInv
<1> DEFINE whole == [snap[r] EXCEPT !.epoch = epoch[about[r]]]
<1>0. snap[r] \in Snapshot /\ about[r] \in Tenants
  BY DEF ReconcilerTypes
<1>1. /\ step[r] = "epoch" /\ step' = [step EXCEPT ![r] = "latest"]
      /\ snap' = [snap EXCEPT ![r] = whole]
      /\ UNCHANGED <<about, prev, latest, verdict>> /\ Quiet
  BY <1>0 DEF ReadEpoch, Goto, Quiet, ReconcilerTypes
<1>2. /\ IInv' /\ LedgerGoesOn /\ \A t \in Tenants : Total(t)' = Total(t)
      /\ UNCHANGED <<provisioned, balance, debited, refunded, epoch, lost>>
  BY <1>1, QuietLedger
<1>3. whole \in Snapshot /\ whole.epoch = epoch[about[r]] /\ whole.torn = snap[r].torn
      /\ whole.balance = snap[r].balance /\ whole.lost = snap[r].lost
      /\ whole.refunded = snap[r].refunded /\ whole.debited = snap[r].debited
  BY <1>0 DEF IInv, TypeOK, Snapshot
<1> HIDE DEF whole
<1>4. ~whole.torn => about[r] \in provisioned /\ Sum(whole) = Total(about[r])
  BY <1>1, <1>3 DEF PartsTrue, Reading, Sum, Total
<1>5. ReconcilerTypes' /\ OneRow' /\ VerdictsExact'
  BY <1>1, <1>2, <1>3 DEF ReconcilerTypes, OneRow, VerdictsExact
<1>6. \A t \in Tenants : \A s \in OnFile(t)' : s \in OnFile(t) \/ (t = about[r] /\ s = whole)
  BY <1>1 DEF OnFile, Readers, Finished, ReconcilerTypes
<1>7. ASSUME NEW t \in Tenants, NEW s \in OnFile(t)', ~s.torn
      PROVE  /\ t \in provisioned /\ s.epoch <= epoch[t]
             /\ s.epoch = epoch[t] => Sum(s) = Total(t)
  <2>1. CASE s \in OnFile(t)
    BY <1>7, <2>1 DEF FilesTrue
  <2>2. CASE t = about[r] /\ s = whole
    BY <1>3, <1>4, <1>7, <2>2 DEF IInv, TypeOK
  <2> QED BY <1>6, <2>1, <2>2
<1>8. FilesTrue'
  BY <1>2, <1>7 DEF FilesTrue, Sum
<1>9. FilesAgree'
  <2> SUFFICES ASSUME NEW t \in Tenants, NEW p \in OnFile(t)', NEW s \in OnFile(t)',
                      ~p.torn, ~s.torn, p.epoch = s.epoch
               PROVE  Sum(p) = Sum(s)
    BY DEF FilesAgree, Sum
  <2>1. CASE p \in OnFile(t) /\ s \in OnFile(t)
    BY <2>1 DEF FilesAgree
  <2>2. CASE p = whole \/ s = whole
    <3>1. t = about[r] \/ (p \in OnFile(t) /\ s \in OnFile(t))
      BY <1>6
    <3>2. CASE t = about[r]
      BY <1>3, <1>7, <2>2, <3>2
    <3> QED BY <2>1, <3>1, <3>2
  <2> QED BY <1>6, <2>1, <2>2
<1>10. PartsTrue'
  BY <1>1, <1>2 DEF PartsTrue, Reading, ReconcilerTypes
<1> QED BY <1>2, <1>5, <1>8, <1>9, <1>10

\* The newest row is fetched: it is on file already.
LEMMA FetchKeeps ==
    ASSUME RInv, NEW r \in Reconcilers, FetchLatest(r)
    PROVE  RInv'
<1> USE DEF RInv
<1>1. /\ step[r] = "latest" /\ step' = [step EXCEPT ![r] = "append"]
      /\ prev' = [prev EXCEPT ![r] = latest[about[r]]]
      /\ UNCHANGED <<about, snap, latest, verdict>> /\ Quiet
  BY DEF FetchLatest, Goto, Quiet
<1>2. /\ IInv' /\ LedgerGoesOn
      /\ UNCHANGED <<provisioned, balance, debited, refunded, epoch, lost>>
  BY <1>1, QuietLedger
<1>3. about[r] \in Tenants /\ latest[about[r]] \subseteq Snapshot
  BY DEF ReconcilerTypes
<1>4. ReconcilerTypes' /\ VerdictsExact'
  BY <1>1, <1>2, <1>3 DEF ReconcilerTypes, VerdictsExact
<1>5. OneRow'
  BY <1>1, <1>3 DEF ReconcilerTypes, OneRow
<1>6. \A q \in Tenants : OnFile(q)' \subseteq OnFile(q)
  BY <1>1, <1>3 DEF OnFile, Readers, Finished, ReconcilerTypes
<1>7. FilesTrue' /\ FilesAgree'
  BY <1>2, <1>6, FilesKept
<1>8. PartsTrue'
  BY <1>1, <1>2 DEF PartsTrue, Reading, ReconcilerTypes
<1> QED BY <1>2, <1>4, <1>5, <1>7, <1>8

\* A tenant is skipped: what was read is dropped.
LEMMA SkipKeeps ==
    ASSUME RInv, NEW r \in Reconcilers, SkipTenant(r)
    PROVE  RInv'
<1> USE DEF RInv
<1>1. /\ step' = [step EXCEPT ![r] = "idle"] /\ prev' = [prev EXCEPT ![r] = {}]
      /\ snap' = [snap EXCEPT ![r] = NoSnapshot]
      /\ UNCHANGED <<about, latest, verdict>> /\ Quiet
  BY DEF SkipTenant, Goto, Quiet
<1>2. /\ IInv' /\ LedgerGoesOn
      /\ UNCHANGED <<provisioned, balance, debited, refunded, epoch, lost>>
  BY <1>1, QuietLedger
<1>3. NoSnapshot \in Snapshot
  BY DEF NoSnapshot, Snapshot
<1>4. ReconcilerTypes' /\ OneRow' /\ VerdictsExact'
  BY <1>1, <1>2, <1>3 DEF ReconcilerTypes, OneRow, VerdictsExact
<1>5. \A q \in Tenants : OnFile(q)' \subseteq OnFile(q)
  BY <1>1 DEF OnFile, Readers, Finished, ReconcilerTypes
<1>6. FilesTrue' /\ FilesAgree'
  BY <1>2, <1>5, FilesKept
<1>7. PartsTrue'
  BY <1>1, <1>2 DEF PartsTrue, Reading, ReconcilerTypes
<1> QED BY <1>2, <1>4, <1>6, <1>7

\* The drift between two snapshots is the difference of what they add up to.
LEMMA DriftIsLoss ==
    ASSUME NEW p \in Snapshot, NEW s \in Snapshot
    PROVE  /\ Drift(p, s) \in Int /\ s.lost - p.lost \in Int
           /\ Sum(p) = Sum(s) => Drift(p, s) + (s.lost - p.lost) = 0
BY DEF Snapshot, Drift, Sum

\* The snapshot is stored and compared with the row that was fetched.
LEMMA AppendKeeps ==
    ASSUME RInv, NEW r \in Reconcilers, AppendAndDiff(r)
    PROVE  RInv'
<1> USE DEF RInv
<1> DEFINE t == about[r]
           s == snap[r]
           p == CHOOSE p \in prev[r] : TRUE
           compared == \E q \in prev[r] : Comparable(q, s)
           found == [drift |-> Drift(p, s), loss |-> s.lost - p.lost, torn |-> p.torn \/ s.torn]
           shown == IF compared THEN found ELSE NoVerdict
<1>1. /\ step[r] = "append" /\ step' = [step EXCEPT ![r] = "idle"]
      /\ latest' = [latest EXCEPT ![t] = {s}]
      /\ verdict' = [verdict EXCEPT ![r] = shown]
      /\ prev' = [prev EXCEPT ![r] = {}] /\ snap' = [snap EXCEPT ![r] = NoSnapshot]
      /\ UNCHANGED about /\ Quiet
  BY DEF AppendAndDiff, Goto, Quiet
<1>2. /\ IInv' /\ LedgerGoesOn
      /\ UNCHANGED <<provisioned, balance, debited, refunded, epoch, lost>>
  BY <1>1, QuietLedger
<1>3. t \in Tenants /\ s \in Snapshot /\ NoSnapshot \in Snapshot
  BY DEF ReconcilerTypes, NoSnapshot, Snapshot
<1>4. s \in OnFile(t) /\ \A q \in prev[r] : q \in OnFile(t)
  BY <1>1, <1>3 DEF OnFile, Readers, Finished
<1>5. compared => p \in prev[r] /\ p.epoch = s.epoch
  <2>1. prev[r] # {} => p \in prev[r]
    OBVIOUS
  <2> QED BY <2>1 DEF OneRow, Comparable
<1>6. compared => p \in OnFile(t) /\ p \in Snapshot
  BY <1>4, <1>5 DEF ReconcilerTypes
<1> HIDE DEF p, compared
<1>7. /\ shown \in [drift : Int, loss : Int, torn : BOOLEAN]
      /\ ~shown.torn => shown.drift + shown.loss = 0
  <2>1. CASE ~compared
    BY <2>1, NoVerdictExact
  <2>2. CASE compared
    <3>1. p \in Snapshot /\ p \in OnFile(t) /\ p.epoch = s.epoch
      BY <1>5, <1>6, <2>2
    <3>2. /\ Drift(p, s) \in Int /\ s.lost - p.lost \in Int
          /\ Sum(p) = Sum(s) => Drift(p, s) + (s.lost - p.lost) = 0
      BY <1>3, <3>1, DriftIsLoss
    <3>3. ~p.torn /\ ~s.torn => Sum(p) = Sum(s)
      BY <1>3, <1>4, <3>1 DEF FilesAgree
    <3>4. p.torn \in BOOLEAN /\ s.torn \in BOOLEAN
      BY <1>3, <3>1 DEF Snapshot
    <3>5. found \in [drift : Int, loss : Int, torn : BOOLEAN]
      BY <3>2, <3>4
    <3>6. ~found.torn => found.drift + found.loss = 0
      BY <3>2, <3>3, <3>4
    <3> QED BY <2>2, <3>5, <3>6
  <2> QED BY <2>1, <2>2
<1> HIDE DEF shown, s, t
<1>8. ReconcilerTypes'
  BY <1>1, <1>2, <1>3, <1>7 DEF ReconcilerTypes
<1>9. OneRow' /\ VerdictsExact'
  BY <1>1, <1>3, <1>7 DEF ReconcilerTypes, OneRow, VerdictsExact
<1>10. \A q \in Tenants : OnFile(q)' \subseteq OnFile(q)
  BY <1>1, <1>3, <1>4 DEF OnFile, Readers, Finished, ReconcilerTypes
<1>11. FilesTrue' /\ FilesAgree'
  BY <1>2, <1>10, FilesKept
<1>12. PartsTrue'
  BY <1>1, <1>2 DEF PartsTrue, Reading, ReconcilerTypes
<1> QED BY <1>2, <1>8, <1>9, <1>11, <1>12

\* A row whose reply was lost is on file like any other; no verdict comes of it.
LEMMA AppendUnheardKeeps ==
    ASSUME RInv, NEW r \in Reconcilers, AppendUnheard(r)
    PROVE  RInv'
<1> USE DEF RInv
<1> DEFINE t == about[r]
           s == snap[r]
<1>1. /\ step[r] = "append" /\ step' = [step EXCEPT ![r] = "idle"]
      /\ latest' = [latest EXCEPT ![t] = {s}]
      /\ prev' = [prev EXCEPT ![r] = {}] /\ snap' = [snap EXCEPT ![r] = NoSnapshot]
      /\ UNCHANGED <<about, verdict>> /\ Quiet
  BY DEF AppendUnheard, Goto, Quiet
<1>2. /\ IInv' /\ LedgerGoesOn
      /\ UNCHANGED <<provisioned, balance, debited, refunded, epoch, lost>>
  BY <1>1, QuietLedger
<1>3. t \in Tenants /\ s \in Snapshot /\ NoSnapshot \in Snapshot
  BY DEF ReconcilerTypes, NoSnapshot, Snapshot
<1>4. s \in OnFile(t)
  BY <1>1, <1>3 DEF OnFile, Readers, Finished
<1> HIDE DEF s, t
<1>5. ReconcilerTypes'
  BY <1>1, <1>2, <1>3 DEF ReconcilerTypes
<1>6. OneRow' /\ VerdictsExact'
  BY <1>1, <1>3 DEF ReconcilerTypes, OneRow, VerdictsExact
<1>7. \A q \in Tenants : OnFile(q)' \subseteq OnFile(q)
  BY <1>1, <1>3, <1>4 DEF OnFile, Readers, Finished, ReconcilerTypes
<1>8. FilesTrue' /\ FilesAgree'
  BY <1>2, <1>7, FilesKept
<1>9. PartsTrue'
  BY <1>1, <1>2 DEF PartsTrue, Reading, ReconcilerTypes
<1> QED BY <1>2, <1>5, <1>6, <1>8, <1>9

\* Nothing is on file at first.
LEMMA ReconcileInitially == ReconcileInit => RInv
<1> SUFFICES ASSUME ReconcileInit PROVE RInv
  OBVIOUS
<1> USE DEF ReconcileInit
<1>1. IInv
  BY Initially
<1>2. (CHOOSE t \in Tenants : TRUE) \in Tenants
  BY QuotaAssumption DEF QuotaAssumption
<1>3. NoSnapshot \in Snapshot
  BY DEF NoSnapshot, Snapshot
<1>4. ReconcilerTypes /\ OneRow /\ VerdictsExact
  BY <1>2, <1>3, NoVerdictExact DEF ReconcilerTypes, OneRow, VerdictsExact
<1>5. \A t \in Tenants : OnFile(t) = {}
  BY DEF OnFile, Finished, Readers
<1>6. FilesTrue /\ FilesAgree /\ PartsTrue
  BY <1>5 DEF FilesTrue, FilesAgree, PartsTrue, Reading
<1> QED BY <1>1, <1>4, <1>6 DEF RInv

\* The invariant of the reconcilers is inductive.
LEMMA ReconcileInductive == RInv /\ [ReconcileNext]_allVars => RInv'
<1> SUFFICES ASSUME RInv, [ReconcileNext]_allVars PROVE RInv'
  OBVIOUS
<1>1. CASE LedgerStep
  <2>1. Next /\ UNCHANGED lost /\ MarkTorn /\ UNCHANGED <<step, about, prev, latest, verdict>>
    BY <1>1 DEF LedgerStep
  <2>2. IInv' /\ LedgerGoesOn /\ lost' \in [Tenants -> Nat]
    BY <2>1, MoveKeepsLedger
  <2> QED BY <2>1, <2>2, MovesKeep
<1>2. ASSUME NEW t \in Tenants, LoseTokens(t) PROVE RInv'
  <2>1. MarkTorn /\ UNCHANGED <<step, about, prev, latest, verdict>>
    BY <1>2 DEF LoseTokens
  <2> QED BY <1>2, <2>1, LossKeepsLedger, MovesKeep
<1>3. CASE UNCHANGED allVars
  <2>1. UNCHANGED <<lost, step, about, snap, prev, latest, verdict>> /\ Quiet
    BY <1>3 DEF allVars, reconVars, Quiet
  <2>2. /\ IInv' /\ LedgerGoesOn
        /\ UNCHANGED <<provisioned, balance, debited, refunded, epoch, lost>>
    BY <2>1, QuietLedger
  <2>3. \A q \in Tenants : OnFile(q)' \subseteq OnFile(q)
    BY <2>1 DEF OnFile, Readers, Finished
  <2>4. FilesTrue' /\ FilesAgree'
    BY <2>2, <2>3, FilesKept DEF RInv
  <2>5. ReconcilerTypes' /\ OneRow' /\ VerdictsExact' /\ PartsTrue'
    BY <2>1, <2>2 DEF RInv, ReconcilerTypes, OneRow, VerdictsExact, PartsTrue, Reading
  <2> QED BY <2>2, <2>4, <2>5 DEF RInv
<1> QED BY <1>1, <1>2, <1>3, ReadBalanceKeeps, ReadCountersKeep, ReadEpochKeeps, FetchKeeps,
           AppendKeeps, AppendUnheardKeeps, SkipKeeps DEF ReconcileNext

\* A drift the reconciler reports is exactly what went missing, for every
\* number of gateway processes that read and store (reconcile.go:105).
THEOREM DriftIsExact == ReconcileSpec => []DriftExact
<1>1. RInv => DriftExact
  BY DEF RInv, IInv, ReconcilerTypes, VerdictsExact, DriftExact, ReconcileTypeOK
<1> QED BY <1>1, ReconcileInitially, ReconcileInductive, PTL DEF ReconcileSpec
=============================================================================
