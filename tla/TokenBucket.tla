---------------------------- MODULE TokenBucket -----------------------------
(***************************************************************************)
(* tokenBucket (internal/backend/common/ratelimit.go) and the throttled    *)
(* readers that take from it.  The clock ticks a fixed number of times a   *)
(* second, a rate is in bytes per tick, and capacity is what one second    *)
(* lets through.  "last" is kept as the ticks since then; as a second      *)
(* fills the bucket, more of them make no difference.  What the streams    *)
(* read is module ThrottledUpload.                                         *)
(***************************************************************************)
EXTENDS Integers

CONSTANTS
    Takers,     \* streams that share the bucket
    Chunks,     \* what a Read may return, at most throttleChunk
    Rates, Second, Off

ASSUME BucketAssumption ==
    /\ Second \in Nat \ {0}
    /\ Rates \subseteq Nat \ {0}
    /\ Chunks \subseteq Nat \ {0}
    /\ Off \notin Rates

VARIABLES
    fillRate,   \* in bytes per tick, or Off for a disabled bucket (+Inf)
    tokens,
    age,        \* ticks since "last", up to a second
    taker,      \* the streams: whether they take, how much, and how long they sleep
    beat        \* flips with every tick

bucketVars == <<fillRate, tokens, age>>
takeVars == <<bucketVars, taker, beat>>

-----------------------------------------------------------------------------
Idle == [at |-> "idle", n |-> 0, wait |-> 0]
Capacity == fillRate * Second
Least(a, b) == IF a < b THEN a ELSE b

\* newTokenBucket: full.
BucketInit ==
    /\ fillRate \in Rates
    /\ tokens = Capacity
    /\ age = 0
    /\ taker = [t \in Takers |-> Idle]
    /\ beat = FALSE

\* Mutated form: the bucket fills without limit.
RefilledUncapped == tokens + fillRate * age

\* refillLocked: what the ticks since "last" have brought.
Refilled == Least(Capacity, tokens + fillRate * age)

\* A Read of the source has returned n bytes: take(n), if there are any.
StartTake(t, n) ==
    /\ taker[t].at = "idle"
    /\ taker' = [taker EXCEPT ![t] = IF n = 0 THEN @ ELSE [at |-> "try", n |-> n, wait |-> 0]]
    /\ UNCHANGED <<bucketVars, beat>>

\* A disabled bucket has no end of tokens.
Enough(t) == fillRate = Off \/ Refilled >= taker[t].n

\* Mutated form: "last" stays, and the same ticks are counted again.
ConsumeKeepsLast(n) ==
    IF fillRate = Off THEN UNCHANGED bucketVars
    ELSE tokens' = Refilled - n /\ UNCHANGED <<age, fillRate>>

Consume(n) ==
    IF fillRate = Off THEN UNCHANGED bucketVars
    ELSE tokens' = Refilled - n /\ age' = 0 /\ UNCHANGED fillRate

\* Refill, and there is enough: consume and return.
TakeNow(t) ==
    /\ taker[t].at = "try"
    /\ Enough(t)
    /\ Consume(taker[t].n)
    /\ taker' = [taker EXCEPT ![t] = Idle]
    /\ UNCHANGED beat

SleepFor(t) == (taker[t].n - Refilled + fillRate - 1) \div fillRate

\* Refill, and there is not: sleep until the deficit should be there.
SleepOn(t) ==
    /\ taker[t].at = "try"
    /\ ~Enough(t)
    /\ tokens' = Refilled
    /\ age' = 0
    /\ taker' = [taker EXCEPT ![t].at = "sleep", ![t].wait = SleepFor(t)]
    /\ UNCHANGED <<fillRate, beat>>

Wake(t) ==
    /\ taker[t].at = "sleep"
    /\ taker[t].wait = 0
    /\ taker' = [taker EXCEPT ![t].at = "try"]
    /\ UNCHANGED <<bucketVars, beat>>

\* A tick passes for the bucket and for those who sleep.
Tick ==
    /\ age' = IF fillRate = Off THEN 0 ELSE Least(Second, age + 1)
    /\ taker' = [t \in Takers |-> [taker[t] EXCEPT !.wait = IF @ = 0 THEN 0 ELSE @ - 1]]
    /\ beat' = ~beat
    /\ UNCHANGED <<fillRate, tokens>>

\* updateRate: refill at the old rate, and cut what the new one cannot hold.
updateRate(r) ==
    /\ fillRate' = r
    /\ tokens' = IF fillRate = Off THEN r * Second ELSE Least(r * Second, Refilled)
    /\ age' = 0
    /\ UNCHANGED <<taker, beat>>

disable ==
    /\ fillRate' = Off
    /\ tokens' = 0
    /\ age' = 0
    /\ UNCHANGED <<taker, beat>>

\* What goes on while the streams read.
BucketStep ==
    \/ \E t \in Takers : TakeNow(t) \/ SleepOn(t) \/ Wake(t)
    \/ Tick
    \/ \E r \in Rates : updateRate(r)
    \/ disable

\* Time passes, and a goroutine that can run does.
BucketFairness ==
    /\ WF_takeVars(Tick)
    /\ \A t \in Takers : WF_takeVars(Wake(t)) /\ WF_takeVars(TakeNow(t) \/ SleepOn(t))

-----------------------------------------------------------------------------
\* Every variable keeps its type: the bucket is never overdrawn nor overfull.
BucketTypeOK ==
    /\ fillRate \in Rates \cup {Off}
    /\ tokens \in Nat
    /\ fillRate # Off => tokens <= Capacity
    /\ age \in 0..Second
    /\ beat \in BOOLEAN
    /\ taker \in [Takers -> [at : {"idle", "try", "sleep"}, n : Chunks \cup {0}, wait : Nat]]

\* The bucket, refilled only when somebody looks, is a meter that is refilled by
\* the clock: no tick is lost or counted twice over takes, failed takes, changes
\* of the rate and pauses longer than a second.
Meter == INSTANCE TokenMeter
            WITH Clients <- Takers,
                 level <- IF fillRate = Off THEN 0 ELSE Refilled,
                 rate <- fillRate,
                 want <- [t \in Takers |-> taker[t].n]
ImplementsMeter == Meter!Spec

=============================================================================
