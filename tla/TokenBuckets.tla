--------------------------- MODULE TokenBuckets ----------------------------
(***************************************************************************)
(* What a Limiter promises, without retention, laziness or backends: every *)
(* tenant owns two buckets that refill continuously, a request is admitted *)
(* only out of what they hold, and only what was reserved can ever return. *)
(*                                                                         *)
(* One tick of the model is one second; a minute is Minute ticks long, and *)
(* a token is cut into Minute units, so that a bucket of capacity c gains  *)
(* exactly c units per tick and holds at most c * Minute of them.          *)
(***************************************************************************)
EXTENDS Naturals

CONSTANTS Tenants,   \* the identities the buckets are keyed by
          Callers,   \* who may hold a reservation, one at a time
          Sizes,     \* the token counts a request may reserve
          Minute,    \* ticks a bucket needs to refill from empty to full
          Capacity   \* [Tenants -> [{"rpm", "tpm"} -> Nat]], zero: no ceiling

VARIABLES level,  \* units in each bucket, at this instant
          owed    \* reservations <<caller, tenant, tokens>> not settled yet

Dims == {"rpm", "tpm"}
Full(t) == [d \in Dims |-> Capacity[t][d] * Minute]
Least(a, b) == IF a < b THEN a ELSE b

(* The units a request for n tokens takes: one request, n tokens.          *)
Price(n) == [rpm |-> Minute, tpm |-> n * Minute]

Init ==
    /\ level = [t \in Tenants |-> Full(t)]
    /\ owed = {}

(* A second passes: every bucket gains its share, up to its capacity.      *)
Refill ==
    /\ level' = [t \in Tenants |-> [d \in Dims |->
                    Least(Full(t)[d], level[t][d] + Capacity[t][d])]]
    /\ UNCHANGED owed

(* A request for n tokens is paid out of both buckets or out of neither.   *)
Pay(t, n) ==
    /\ \A d \in Dims : Capacity[t][d] > 0 => level[t][d] >= Price(n)[d]
    /\ level' = [level EXCEPT ![t] = [d \in Dims |->
                    IF Capacity[t][d] > 0 THEN @[d] - Price(n)[d] ELSE @[d]]]

(* The caller owes the reservation a settlement.                           *)
Admit(c, t, n) ==
    /\ \A o \in owed : o[1] # c
    /\ Pay(t, n)
    /\ owed' = owed \cup {<<c, t, n>>}

(* The answer that would have told the caller was lost: it owes nothing.   *)
AdmitUnheard(t, n) == Pay(t, n) /\ UNCHANGED owed

(* A reservation of n tokens ends and at most n of them return, once, to   *)
(* the tenant they were taken from.                                        *)
Settle(c, t, n, back) ==
    /\ <<c, t, n>> \in owed
    /\ level' = [level EXCEPT ![t].tpm = Least(Full(t).tpm, @ + back * Minute)]
    /\ owed' = owed \ {<<c, t, n>>}

Next ==
    \/ Refill
    \/ \E t \in Tenants, n \in Sizes :
        \/ AdmitUnheard(t, n)
        \/ \E c \in Callers :
            \/ Admit(c, t, n)
            \/ \E back \in 0 .. n : Settle(c, t, n, back)

Spec == Init /\ [][Next]_<<level, owed>>

============================================================================
