----------------------------- MODULE TokenMeter -----------------------------
(***************************************************************************)
(* What a bandwidth cap means: a level that every beat of the clock raises *)
(* by the rate, up to what a full second lets through, and that each       *)
(* client lowers by what it has read, once, before it gets it.             *)
(***************************************************************************)
EXTENDS Integers

CONSTANTS
    Clients,
    Chunks,     \* what a client may want
    Rates,      \* the rates that may be set, in bytes per beat
    Second,     \* beats in a second
    Off         \* no cap

VARIABLES
    level, rate,
    beat,       \* flips whenever the clock beats
    want        \* what each client waits for, or 0

Capped(r, n) == IF n > r * Second THEN r * Second ELSE n

Init ==
    /\ rate \in Rates
    /\ level = rate * Second
    /\ beat = FALSE
    /\ want = [c \in Clients |-> 0]

Tick ==
    /\ beat' = ~beat
    /\ level' = IF rate = Off THEN 0 ELSE Capped(rate, level + rate)
    /\ UNCHANGED <<rate, want>>

Ask(c) ==
    /\ want[c] = 0
    /\ \E n \in Chunks : want' = [want EXCEPT ![c] = n]
    /\ UNCHANGED <<level, rate, beat>>

Take(c) ==
    /\ want[c] # 0
    /\ rate = Off \/ want[c] <= level
    /\ level' = IF rate = Off THEN 0 ELSE level - want[c]
    /\ want' = [want EXCEPT ![c] = 0]
    /\ UNCHANGED <<rate, beat>>

SetRate(r) ==
    /\ rate' = r
    /\ level' = IF rate = Off THEN r * Second ELSE Capped(r, level)
    /\ UNCHANGED <<beat, want>>

Disable == rate' = Off /\ level' = 0 /\ UNCHANGED <<beat, want>>

Next ==
    \/ Tick \/ Disable
    \/ \E c \in Clients : Ask(c) \/ Take(c)
    \/ \E r \in Rates : SetRate(r)

Spec == Init /\ [][Next]_<<level, rate, beat, want>>

=============================================================================
