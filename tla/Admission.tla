----------------------------- MODULE Admission ------------------------------
(***************************************************************************)
(* What the adaptive concurrency limiter promises to the server around it, *)
(* whatever it does with its limit: requests are admitted or refused, at   *)
(* most Capacity are served at a time, and none waits for ever.            *)
(***************************************************************************)
EXTENDS Naturals, FiniteSets

CONSTANTS Callers, Capacity

VARIABLE phase

Serving == {r \in Callers : phase[r] = "serving"}

Init == phase = [r \in Callers |-> "idle"]

Goes(r, from, to) == phase[r] = from /\ phase' = [phase EXCEPT ![r] = to]

Enter(r) == Goes(r, "idle", "waiting")
Admit(r) == Cardinality(Serving) < Capacity /\ Goes(r, "waiting", "serving")
Refuse(r) == Goes(r, "waiting", "idle")
Leave(r) == Goes(r, "serving", "idle")

Decide(r) == Admit(r) \/ Refuse(r)

Next == \E r \in Callers : Enter(r) \/ Decide(r) \/ Leave(r)

Safety == Init /\ [][Next]_phase

Spec == Safety /\ \A r \in Callers : WF_phase(Decide(r))

=============================================================================
