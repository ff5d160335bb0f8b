----------------------------- MODULE Statistics -----------------------------
(***************************************************************************)
(* S3OperationStats (internal/models/s3_stats.go): a counter for each      *)
(* method and outcome, and a total for each outcome, which requests add to *)
(* one after the other without a lock, while GetStats loads them all.      *)
(* Module Server says who counts what.                                     *)
(*                                                                         *)
(* GetStats and Reset have no caller but the tests.  Reset, which would    *)
(* set the counters apart from their totals for good, is left out.         *)
(***************************************************************************)
EXTENDS Integers, Sequences

Seqs == INSTANCE SequencesExt

CONSTANTS
    MethodOrder,    \* the methods that are counted, in the order of GetStats
    MaxCounted      \* bound: requests that are counted

ASSUME StatisticsAssumption ==
    /\ MethodOrder \in Seq(Seqs!ToSet(MethodOrder)) /\ Seqs!IsInjective(MethodOrder)
    /\ MaxCounted \in Nat

VARIABLES
    counts,     \* successes and failures of each method
    totals,     \* totalSuccesses and totalFailures
    snap        \* the call of GetStats: the loads it has done, their sums, the totals

statsVars == <<counts, totals, snap>>

-----------------------------------------------------------------------------
Methods == Seqs!ToSet(MethodOrder)
Zero == [ok \in BOOLEAN |-> 0]
NoSnap == [done |-> 0, sums |-> Zero, totals |-> Zero]

StatsInit ==
    /\ counts = [m \in Methods |-> Zero]
    /\ totals = Zero
    /\ snap = NoSnap

\* The sum of the counters of one outcome.
Counted(ok) == Seqs!FoldSeq(LAMBDA m, n : counts[m][ok] + n, 0, MethodOrder)

\* RecordSuccess or RecordFailure of the method ...
CountMethod(m, ok) ==
    /\ Counted(TRUE) + Counted(FALSE) < MaxCounted
    /\ counts' = [counts EXCEPT ![m][ok] = @ + 1]
    /\ UNCHANGED <<totals, snap>>

\* Mutated form: a failure is added to the successes.
CountTotalAsSuccess(ok) ==
    /\ totals' = [totals EXCEPT ![TRUE] = @ + 1]
    /\ UNCHANGED <<counts, snap>>

\* ... and then the total.
CountTotal(ok) ==
    /\ totals' = [totals EXCEPT ![ok] = @ + 1]
    /\ UNCHANGED <<counts, snap>>

-----------------------------------------------------------------------------
\* What GetStats loads, in order.  The counters of the two outcomes are loaded one
\* after the other; no property relates them, so they are one step here.
TotalLoad == <<"total">>

\* Mutated form: the totals are loaded first.
LoadsTotalsFirst == TotalLoad \o MethodOrder

Loads == MethodOrder \o TotalLoad

\* The snapshot with one more load.
Loaded ==
    LET what == Loads[snap.done + 1] IN
    IF what = "total" THEN [snap EXCEPT !.done = @ + 1, !.totals = totals]
    ELSE [snap EXCEPT !.done = @ + 1,
                      !.sums = [ok \in BOOLEAN |-> @[ok] + counts[what][ok]]]

\* After the last load the snapshot is returned.
GetStats ==
    /\ snap' = IF Loaded.done = Len(Loads) THEN NoSnap ELSE Loaded
    /\ UNCHANGED <<counts, totals>>

=============================================================================
