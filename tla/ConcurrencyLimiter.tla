------------------------- MODULE ConcurrencyLimiter -------------------------
(***************************************************************************)
(* adaptiveConcurrencyLimiter (internal/server/concurrency.go) under       *)
(* concurrencyMiddleware (internal/server/server.go).                      *)
(*                                                                         *)
(* A request checks the limit, sleeps 10 ms and checks again until it is   *)
(* admitted or its context ends, which the acquire timeout and a client    *)
(* that hangs up both do.  Acquire always has a deadline here, so its      *)
(* cond.Wait branch is unreachable and left out.                           *)
(*                                                                         *)
(* emaNanos is abstracted to its band relative to the target, and so is a  *)
(* duration.  The average of two latencies lies between them, so the band  *)
(* of the new average is any band between those of the sample and of the   *)
(* old average.                                                            *)
(***************************************************************************)
EXTENDS Integers, FiniteSets

CONSTANTS
    Requests,   \* requests the server may have at one time
    Control,    \* those for /health, /ping and /admin/caps
    CfgMin,     \* ADAPTIVE_CONCURRENCY_MIN
    CfgMax      \* ADAPTIVE_CONCURRENCY_MAX

ASSUME RequestsAssumption == IsFiniteSet(Requests) /\ Control \subseteq Requests
ASSUME ConfigAssumption == CfgMin \in Int /\ CfgMax \in Int

VARIABLES
    limit,      \* l.limit
    inFlight,   \* l.inFlight
    ema,        \* the band of l.emaNanos
    pc,         \* where each request is
    expired     \* the requests whose acquire context has ended

vars == <<limit, inFlight, ema, pc, expired>>

-----------------------------------------------------------------------------
\* newAdaptiveConcurrencyLimiter: at least one request, and max not below min.
Min == IF CfgMin < 1 THEN 1 ELSE CfgMin
Max == IF CfgMax < Min THEN Min ELSE CfgMax

\* Bands: no sample yet, below 0.7 of the target, around it, above 1.5 of it.
None == 0
Fast == 1
OnTarget == 2
Slow == 3
Bands == None..Slow

\* The bands the average may be in after a sample; Release ignores a sample
\* that is not positive.
Averages(old, sample) ==
    IF sample = None THEN {old}
    ELSE IF old = None THEN {sample}
    ELSE {b \in Bands : (old <= b /\ b <= sample) \/ (sample <= b /\ b <= old)}

Lowered == IF limit > Min THEN limit - 1 ELSE limit

Raised == IF limit < Max THEN limit + 1 ELSE limit

\* The limit after a Release: failures and slow averages lower it, a fast
\* average raises it.
Adjusted(success, average) ==
    IF ~success \/ average = Slow THEN Lowered
    ELSE IF average = Fast THEN Raised
    ELSE limit

-----------------------------------------------------------------------------
Init ==
    /\ limit = Min
    /\ inFlight = 0
    /\ ema = None
    /\ pc = [r \in Requests |-> "idle"]
    /\ expired = {}

Goes(r, from, to) == pc[r] = from /\ pc' = [pc EXCEPT ![r] = to]

\* Control-plane requests go straight to their handler.
Arrive(r) ==
    /\ Goes(r, "idle", IF r \in Control THEN "bypassing" ELSE "checking")
    /\ UNCHANGED <<limit, inFlight, ema, expired>>

\* Mutated form: the slot is taken when the limit is just reached.
HasRoomAtLimit == inFlight <= limit

HasRoom == inFlight < limit

\* Mutated form: a waiter is admitted without being counted.
TakesSlotUncounted == UNCHANGED inFlight

TakesSlot == inFlight' = inFlight + 1

\* The loop condition is false: the request gets a slot, even if its context
\* has just ended.
Admit(r) ==
    /\ HasRoom
    /\ Goes(r, "checking", "serving")
    /\ TakesSlot
    /\ expired' = expired \ {r}
    /\ UNCHANGED <<limit, ema>>

\* No room and the context is alive: wait on the timer and on the context.
Sleep(r) ==
    /\ ~HasRoom
    /\ r \notin expired
    /\ Goes(r, "checking", "sleeping")
    /\ UNCHANGED <<limit, inFlight, ema, expired>>

\* The 10 ms timer fires, or both are ready and select picks the timer.
Wake(r) ==
    /\ Goes(r, "sleeping", "checking")
    /\ UNCHANGED <<limit, inFlight, ema, expired>>

\* Mutated form: a request whose context has ended goes back to sleep.
GivesUpNever(r) == FALSE

\* Acquire returns the context's error.
GivesUp(r) == r \in expired /\ (pc[r] = "sleeping" \/ (pc[r] = "checking" /\ ~HasRoom))

\* 503 "server busy".
Reject(r) ==
    /\ GivesUp(r)
    /\ pc' = [pc EXCEPT ![r] = "idle"]
    /\ expired' = expired \ {r}
    /\ UNCHANGED <<limit, inFlight, ema>>

\* The acquire timeout passes, or the client goes away.
Expire(r) ==
    /\ pc[r] \in {"checking", "sleeping"}
    /\ r \notin expired
    /\ expired' = expired \cup {r}
    /\ UNCHANGED <<limit, inFlight, ema, pc>>

Freed == IF inFlight > 0 THEN inFlight - 1 ELSE inFlight

\* Release, for one observed duration and one outcome.  A status of 500 or
\* more, a panic that Recoverer turned into 500, and a handler that never
\* wrote a status are failures.
Release(sample, success) ==
    /\ inFlight' = Freed
    /\ ema' \in Averages(ema, sample)
    /\ limit' = Adjusted(success, ema')

\* The handler returns.
Finish(r) ==
    /\ Goes(r, "serving", "idle")
    /\ \E sample \in Bands, success \in BOOLEAN : Release(sample, success)
    /\ UNCHANGED expired

FinishBypass(r) ==
    /\ Goes(r, "bypassing", "idle")
    /\ UNCHANGED <<limit, inFlight, ema, expired>>

Next ==
    \E r \in Requests :
        \/ Arrive(r) \/ Admit(r) \/ Sleep(r) \/ Wake(r) \/ Reject(r)
        \/ Expire(r) \/ Finish(r) \/ FinishBypass(r)

Spec == Init /\ [][Next]_vars

\* Deadlines pass, timers fire and goroutines run.  Nothing is assumed about
\* the handlers: the backend may keep a request for ever.
Fairness ==
    \A r \in Requests : /\ WF_vars(Expire(r))
                        /\ WF_vars(Admit(r) \/ Sleep(r) \/ Wake(r) \/ Reject(r))

FairSpec == Spec /\ Fairness

-----------------------------------------------------------------------------
Holders == {r \in Requests : pc[r] = "serving"}

\* Every variable keeps its type.
TypeOK ==
    /\ limit \in Nat
    /\ inFlight \in Nat
    /\ ema \in Bands
    /\ pc \in [Requests -> {"idle", "checking", "sleeping", "serving", "bypassing"}]
    /\ expired \subseteq Requests

\* No slot leaks and none is given back twice, whatever mix of admissions,
\* timeouts, failures and bypassed requests went before.
SlotsAccounted == inFlight = Cardinality(Holders)

\* The limit stays between the configured bounds, so that it can neither
\* wedge the server at zero nor grow past its maximum.
LimitInRange == Min <= limit /\ limit <= Max

\* The limit, itself in its range, is respected even by requests admitted before it
\* was lowered: a Release lowers it by at most the slot that it gives back.
WithinLimit == LimitInRange /\ inFlight <= limit

\* What the server may rely on: Admission with the configured maximum.
Phase == [r \in Requests \ Control |->
            IF pc[r] \in {"checking", "sleeping"} THEN "waiting" ELSE pc[r]]

Promise == INSTANCE Admission WITH Callers <- Requests \ Control, Capacity <- Max, phase <- Phase

\* The limiter implements the promise: admissions within the maximum, and every
\* waiting request is eventually admitted or answered 503.
ImplementsAdmission == Promise!Spec

=============================================================================
