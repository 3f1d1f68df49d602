--------------------------- MODULE RollingWindow ---------------------------
(***************************************************************************)
(* The bucketed rolling window of the slow-call and the ratio strategies   *)
(* (record and share of internal/circuit/slow.go; roll, add and history of *)
(* internal/circuit/ratio.go, the same ring): a write first rolls the ring *)
(* forward, a read skips expired buckets and touches nothing.              *)
(*                                                                         *)
(* Time is lag, the ticks between lastWrite and now.  Since lastWrite only *)
(* moves by whole buckets, lag % Span is also how far now is into its      *)
(* bucket.  recent is a reference: the completions of the last Buckets     *)
(* buckets of wall-clock time, newest first, kept without a ring.          *)
(***************************************************************************)
EXTENDS Integers, FiniteSets

CONSTANTS
    Kinds,      \* what a completion may be counted as
    Buckets,    \* buckets of the window
    Span,       \* ticks of a bucket
    MaxLag,     \* bound: longest idle time, in ticks
    MaxCount    \* bound: completions of one kind in a bucket

ASSUME WindowAssumption ==
    /\ Buckets \in Nat \ {0} /\ Span \in Nat \ {0}
    /\ MaxLag \in Nat /\ MaxCount \in Nat

VARIABLES
    ring,       \* the buckets
    offset,     \* the current (newest) bucket
    lag,        \* now - lastWrite, in ticks
    recent,     \* reference: recent[0] is the bucket of now
    overrun     \* history: a write found more than Buckets buckets to roll

windowVars == <<ring, offset, lag, recent, overrun>>

Slots == 0..(Buckets - 1)
Empty == [k \in Kinds |-> 0]
Cleared == [i \in Slots |-> Empty]

WindowInit ==
    /\ ring = Cleared
    /\ offset = 0
    /\ lag = 0
    /\ recent = Cleared
    /\ overrun = FALSE

-----------------------------------------------------------------------------
(* record, add *)

\* Whole buckets since lastWrite.
Elapsed == lag \div Span

\* The buckets the cursor passes: capped at the size of the ring.
Passed == IF Elapsed > Buckets THEN Buckets ELSE Elapsed

\* Every bucket the cursor passes is reset.
Rolled == [i \in Slots |-> IF \E j \in 1..Passed : i = (offset + j) % Buckets
                           THEN Empty ELSE ring[i]]

Cursor == (offset + Passed) % Buckets

Record(k) ==
    /\ Rolled[Cursor][k] < MaxCount /\ recent[0][k] < MaxCount
    /\ ring' = [Rolled EXCEPT ![Cursor][k] = @ + 1]
    /\ offset' = Cursor
    /\ lag' = lag - Passed * Span
    /\ recent' = [recent EXCEPT ![0][k] = @ + 1]
    /\ overrun' = (overrun \/ Elapsed > Buckets)

\* clearWindow: the buckets only, the cursor and its clock stay.
ClearWindow ==
    /\ ring' = Cleared
    /\ recent' = Cleared
    /\ overrun' = FALSE
    /\ UNCHANGED <<offset, lag>>

\* The window part of a reset: lastWrite is now.
RestartWindow ==
    /\ ring' = Cleared
    /\ lag' = 0
    /\ recent' = Cleared
    /\ overrun' = FALSE
    /\ UNCHANGED offset

\* Time passes; every Span ticks the reference drops its oldest bucket.
WindowTick ==
    /\ lag < MaxLag
    /\ lag' = lag + 1
    /\ recent' = IF (lag + 1) % Span # 0 THEN recent
                 ELSE [i \in Slots |-> IF i = 0 THEN Empty ELSE recent[i - 1]]
    /\ UNCHANGED <<ring, offset, overrun>>

-----------------------------------------------------------------------------
(* share, history *)

\* Mutant: the oldest bucket is read although the current one took its place.
LiveStale == {(offset + Elapsed + i) % Buckets : i \in 0..(Buckets - Elapsed)}

\* The buckets younger than the window, oldest first; none once the ring is
\* older than the window.
Live == {(offset + Elapsed + 1 + i) % Buckets : i \in 0..(Buckets - Elapsed - 1)}

\* The completions of kind k that some of the buckets hold, numbered.
Tally(buckets, slots, k) ==
    {e \in slots \X (1..MaxCount) : e[2] <= buckets[e[1]][k]}

\* A read of the window.
Count(k) == Cardinality(Tally(ring, Live, k))

\* What it should be.
TrueCount(k) == Cardinality(Tally(recent, Slots, k))

WindowNext ==
    \/ \E k \in Kinds : Record(k)
    \/ ClearWindow \/ RestartWindow
    \/ WindowTick

WindowSpec == WindowInit /\ [][WindowNext]_windowVars

-----------------------------------------------------------------------------
\* Every variable keeps its type; the clock of the ring is never ahead.
WindowTypeOK ==
    /\ ring \in [Slots -> [Kinds -> 0..MaxCount]]
    /\ offset \in Slots
    /\ lag \in 0..MaxLag
    /\ recent \in [Slots -> [Kinds -> 0..MaxCount]]
    /\ overrun \in BOOLEAN

\* A read never counts a completion older than the window, nor one twice,
\* however writes, clears and idle times alternate.
NeverStale == \A k \in Kinds : Count(k) <= TrueCount(k)
=============================================================================
