----------------------------- MODULE ServerProofs -----------------------------
(***************************************************************************)
(* Proofs about the limiter and about the server around it, for every      *)
(* finite set of requests, all bounds, and all URLs.                       *)
(*                                                                         *)
(* First ConcurrencyLimiter alone.  WithinLimit is not inductive by        *)
(* itself: that a Release which lowers the limit also frees a slot needs   *)
(* that inFlight counts the holders, so that it is positive when a holder  *)
(* releases.                                                               *)
(*                                                                         *)
(* Then Server implements the limiter: with the recoverer, the signature,  *)
(* the handlers and their counting between Acquire and Release, each step  *)
(* is one of the limiter or leaves it alone, so that what is proved of the *)
(* limiter holds of the server.                                            *)
(*                                                                         *)
(* The sections that follow are about the server alone: its totals, which  *)
(* lag behind the counters by the requests that stand between the two; a   *)
(* snapshot, which reads one counter after the other; the routes; and the  *)
(* bandwidth caps: those in force settle if admin requests come one at a   *)
(* time, and the directions stay apart even if they overlap.               *)
(***************************************************************************)
EXTENDS Server, BandwidthLimiter, Counting, SequenceTheorems

-----------------------------------------------------------------------------
(* The limiter.                                                            *)

\* Only control-plane requests bypass the limiter.
BypassIsControl == \A r \in Requests : pc[r] = "bypassing" => r \in Control

LimiterInv == TypeOK /\ SlotsAccounted /\ LimitInRange /\ WithinLimit /\ BypassIsControl

\* The normalised bounds.
LEMMA Bounds == Min \in Nat /\ Max \in Nat /\ 1 <= Min /\ Min <= Max
  BY ConfigAssumption DEF Min, Max

\* The holders are finitely many.
LEMMA HoldersFinite == IsFiniteSet(Holders) /\ Cardinality(Holders) \in Nat
<1>1. Holders \subseteq Requests
  BY DEF Holders
<1> QED BY <1>1, RequestsAssumption, FS_Subset, FS_CardinalityType

\* Release moves the limit inside its bounds, by at most one and downwards
\* only as far as the freed slot.
LEMMA AdjustedFacts ==
    ASSUME LimiterInv, NEW success \in BOOLEAN, NEW average \in Bands
    PROVE  /\ Adjusted(success, average) \in Nat
           /\ Min <= Adjusted(success, average) /\ Adjusted(success, average) <= Max
           /\ limit - 1 <= Adjusted(success, average)
  BY Bounds DEF LimiterInv, TypeOK, LimitInRange, Adjusted, Lowered, Raised

\* Holders after a step that moves only request r.
LEMMA HoldersMove ==
    ASSUME TypeOK, NEW r \in Requests, NEW to, pc' = [pc EXCEPT ![r] = to]
    PROVE  /\ to = "serving" => Holders' = Holders \cup {r}
           /\ to # "serving" => Holders' = Holders \ {r}
  BY DEF TypeOK, Holders

\* The initial state.
LEMMA LimiterInit == Init => LimiterInv
<1> SUFFICES ASSUME Init PROVE LimiterInv
  OBVIOUS
<1>1. Holders = {}
  BY DEF Init, Holders
<1> QED BY <1>1, Bounds, FS_EmptySet
        DEF Init, LimiterInv, BypassIsControl, TypeOK, SlotsAccounted, LimitInRange, WithinLimit, Bands, None, Slow

\* Every step keeps the invariant.
LEMMA LimiterStep == LimiterInv /\ [Next]_vars => LimiterInv'
<1> SUFFICES ASSUME LimiterInv, [Next]_vars PROVE LimiterInv'
  OBVIOUS
<1> USE DEF LimiterInv
<1>1. ASSUME NEW r \in Requests, Arrive(r) \/ Sleep(r) \/ Wake(r) \/ FinishBypass(r) \/ Reject(r)
      PROVE  LimiterInv'
  <2>1. PICK to \in {"idle", "checking", "sleeping", "bypassing"} :
           pc[r] # "serving" /\ pc' = [pc EXCEPT ![r] = to]
    BY <1>1 DEF Arrive, Sleep, Wake, FinishBypass, Reject, GivesUp, Goes
  <2>2. Holders' = Holders
    BY <2>1, HoldersMove DEF Holders
  <2>3. TypeOK'
    BY <1>1, <2>1 DEF TypeOK, Arrive, Sleep, Wake, FinishBypass, Reject
  <2>4. BypassIsControl'
    BY <1>1 DEF TypeOK, BypassIsControl, Arrive, Sleep, Wake, FinishBypass, Reject, Goes
  <2> QED BY <1>1, <2>2, <2>3, <2>4
          DEF Arrive, Sleep, Wake, FinishBypass, Reject, SlotsAccounted, LimitInRange, WithinLimit
<1>2. ASSUME NEW r \in Requests, Admit(r) PROVE LimiterInv'
  <2>1. pc[r] = "checking" /\ pc' = [pc EXCEPT ![r] = "serving"] /\ inFlight' = inFlight + 1
        /\ inFlight < limit /\ UNCHANGED <<limit, ema>> /\ expired' = expired \ {r}
    BY <1>2 DEF Admit, Goes, TakesSlot, HasRoom
  <2>2. Holders' = Holders \cup {r} /\ r \notin Holders
    BY <2>1, HoldersMove DEF Holders
  <2>3. Cardinality(Holders') = Cardinality(Holders) + 1
    BY <2>2, HoldersFinite, FS_AddElement
  <2>4. TypeOK' /\ BypassIsControl'
    <3>1. inFlight' \in Nat /\ limit' \in Nat /\ ema' \in Bands /\ expired' \subseteq Requests
      BY <2>1 DEF TypeOK
    <3> QED BY <2>1, <3>1 DEF TypeOK, BypassIsControl
  <2>5. SlotsAccounted' /\ LimitInRange' /\ WithinLimit'
    BY <2>1, <2>3 DEF SlotsAccounted, LimitInRange, WithinLimit, TypeOK
  <2> QED BY <2>4, <2>5
<1>3. ASSUME NEW r \in Requests, Expire(r) PROVE LimiterInv'
  BY <1>3 DEF Expire, BypassIsControl, TypeOK, SlotsAccounted, LimitInRange, WithinLimit, Holders
<1>4. ASSUME NEW r \in Requests, Finish(r) PROVE LimiterInv'
  <2>1. PICK sample \in Bands, success \in BOOLEAN : Release(sample, success)
    BY <1>4 DEF Finish
  <2>2. pc[r] = "serving" /\ pc' = [pc EXCEPT ![r] = "idle"] /\ UNCHANGED expired
    BY <1>4 DEF Finish, Goes
  <2>3. Holders' = Holders \ {r} /\ r \in Holders
    <3>1. Holders' = Holders \ {r}
      BY <2>2 DEF Holders, TypeOK
    <3> QED BY <2>2, <3>1 DEF Holders
  <2>4. Cardinality(Holders') = Cardinality(Holders) - 1
    BY <2>3, HoldersFinite, FS_RemoveElement
  <2>5. Cardinality(Holders) > 0
    BY <2>3, HoldersFinite, FS_EmptySet
  <2>6. inFlight' = inFlight - 1 /\ inFlight' \in Nat
    BY <2>1, <2>5 DEF Release, Freed, SlotsAccounted, TypeOK
  <2>7. ema' \in Bands
    BY <2>1 DEF Release, Averages, Bands, None, Slow, TypeOK
  <2>8. limit' \in Nat /\ Min <= limit' /\ limit' <= Max /\ limit - 1 <= limit'
    BY <2>1, <2>7, AdjustedFacts DEF Release
  <2>9. TypeOK' /\ BypassIsControl'
    BY <2>2, <2>6, <2>7, <2>8 DEF TypeOK, BypassIsControl
  <2>10. SlotsAccounted'
    BY <2>4, <2>6 DEF SlotsAccounted
  <2>11. LimitInRange' /\ WithinLimit'
    BY <2>6, <2>8 DEF LimitInRange, WithinLimit, TypeOK
  <2> QED BY <2>9, <2>10, <2>11
<1>5. CASE UNCHANGED vars
  BY <1>5 DEF vars, BypassIsControl, TypeOK, SlotsAccounted, LimitInRange, WithinLimit, Holders
<1> QED BY <1>1, <1>2, <1>3, <1>4, <1>5 DEF Next

\* Type correctness.
THEOREM LimiterTypeCorrect == Spec => []TypeOK
  BY LimiterInit, LimiterStep, PTL DEF Spec, LimiterInv

\* inFlight always counts exactly the requests being served.
THEOREM LimiterSlotsAccounted == Spec => []SlotsAccounted
  BY LimiterInit, LimiterStep, PTL DEF Spec, LimiterInv

\* The limit stays within the configured bounds.
THEOREM LimiterLimitInRange == Spec => []LimitInRange
  BY LimiterInit, LimiterStep, PTL DEF Spec, LimiterInv

\* No more requests are served than the current limit, even after it was lowered.
THEOREM LimiterWithinLimit == Spec => []WithinLimit
  BY LimiterInit, LimiterStep, PTL DEF Spec, LimiterInv

-----------------------------------------------------------------------------
(* Every step of the limiter is a step of the promise, or none.            *)

\* Fewer requests are served than the maximum when one is admitted.
LEMMA RoomBelowCapacity ==
    ASSUME LimiterInv, HasRoom
    PROVE  Cardinality(Promise!Serving) < Max
<1>1. Promise!Serving \subseteq Holders
  BY DEF Promise!Serving, Holders, Phase
<1>2. Cardinality(Promise!Serving) \in Nat /\ Cardinality(Promise!Serving) <= Cardinality(Holders)
  BY <1>1, HoldersFinite, FS_Subset, FS_CardinalityType
<1> QED BY <1>2, Bounds, HoldersFinite
        DEF LimiterInv, HasRoom, SlotsAccounted, LimitInRange, TypeOK

\* The phase of the promise follows the control point of request r.
LEMMA PhaseMove ==
    ASSUME TypeOK, NEW r \in Requests, NEW to, pc' = [pc EXCEPT ![r] = to]
    PROVE  LET p == IF to \in {"checking", "sleeping"} THEN "waiting" ELSE to
           IN  /\ r \notin Control => Phase' = [Phase EXCEPT ![r] = p]
               /\ r \in Control \/ p = Phase[r] => Phase' = Phase
  BY DEF TypeOK, Phase

\* The refinement, for the safety part of the promise.
THEOREM LimiterImplementsAdmission == Spec => Promise!Safety
<1>1. Init => Promise!Init
  BY DEF Init, Promise!Init, Phase
<1>2. LimiterInv /\ [Next]_vars => [Promise!Next]_Phase
  <2> SUFFICES ASSUME LimiterInv, [Next]_vars PROVE Promise!Next \/ Phase' = Phase
    OBVIOUS
  <2>a. TypeOK
    BY DEF LimiterInv
  <2>1. ASSUME NEW r \in Requests, Sleep(r) \/ Wake(r) PROVE Phase' = Phase
    BY <2>1, <2>a DEF Sleep, Wake, Goes, Phase, TypeOK
  <2>2. ASSUME NEW r \in Requests, Expire(r) PROVE Phase' = Phase
    BY <2>2 DEF Expire, Phase
  <2>3. ASSUME NEW r \in Requests, Arrive(r) PROVE Promise!Next \/ Phase' = Phase
    <3>1. CASE r \in Control
      BY <2>a, <2>3, <3>1, PhaseMove DEF Arrive, Goes
    <3>2. CASE r \notin Control
      <4>1. Phase[r] = "idle" /\ Phase' = [Phase EXCEPT ![r] = "waiting"]
        BY <2>a, <2>3, <3>2 DEF Arrive, Goes, Phase, TypeOK
      <4> QED BY <3>2, <4>1 DEF Promise!Next, Promise!Enter, Promise!Goes
    <3> QED BY <3>1, <3>2
  <2>4. ASSUME NEW r \in Requests, Admit(r) PROVE Promise!Next \/ Phase' = Phase
    <3>1. CASE r \in Control
      BY <2>a, <2>4, <3>1, PhaseMove DEF Admit, Goes
    <3>2. CASE r \notin Control
      <4>1. Phase[r] = "waiting" /\ Phase' = [Phase EXCEPT ![r] = "serving"]
        BY <2>a, <2>4, <3>2 DEF Admit, Goes, Phase, TypeOK
      <4>2. Cardinality(Promise!Serving) < Max
        BY <2>4, RoomBelowCapacity DEF Admit
      <4>3. Promise!Admit(r)
        BY <4>1, <4>2 DEF Promise!Admit, Promise!Goes, Promise!Cardinality, Cardinality
      <4> QED BY <3>2, <4>3 DEF Promise!Next, Promise!Decide
    <3> QED BY <3>1, <3>2
  <2>5. ASSUME NEW r \in Requests, Reject(r) PROVE Promise!Next \/ Phase' = Phase
    <3>1. CASE r \in Control
      BY <2>a, <2>5, <3>1, PhaseMove DEF Reject
    <3>2. CASE r \notin Control
      <4>1. Phase[r] = "waiting" /\ Phase' = [Phase EXCEPT ![r] = "idle"]
        BY <2>a, <2>5, <3>2 DEF Reject, GivesUp, Phase, TypeOK
      <4> QED BY <3>2, <4>1 DEF Promise!Next, Promise!Decide, Promise!Refuse, Promise!Goes
    <3> QED BY <3>1, <3>2
  <2>6. ASSUME NEW r \in Requests, Finish(r) \/ FinishBypass(r) PROVE Promise!Next \/ Phase' = Phase
    <3>1. CASE r \in Control
      BY <2>a, <2>6, <3>1, PhaseMove DEF Finish, FinishBypass, Goes
    <3>2. CASE r \notin Control /\ Finish(r)
      <4>1. Phase[r] = "serving" /\ Phase' = [Phase EXCEPT ![r] = "idle"]
        BY <2>a, <3>2 DEF Finish, Goes, Phase, TypeOK
      <4> QED BY <3>2, <4>1 DEF Promise!Next, Promise!Leave, Promise!Goes
    <3>3. CASE FinishBypass(r)
      <4>1. r \in Control
        BY <3>3 DEF FinishBypass, Goes, LimiterInv, BypassIsControl
      <4> QED BY <3>1, <4>1
    <3> QED BY <2>6, <3>1, <3>2, <3>3
  <2>7. CASE UNCHANGED vars
    BY <2>7 DEF vars, Phase
  <2> QED BY <2>1, <2>2, <2>3, <2>4, <2>5, <2>6, <2>7 DEF Next
<1> QED BY <1>1, <1>2, LimiterInit, LimiterStep, PTL DEF Spec, Promise!Safety

-----------------------------------------------------------------------------
(* The server.                                                             *)

\* What is kept of a request in its handler.
Jobs == [at : {"none", "counted", "answered"}, ok : BOOLEAN, success : BOOLEAN]
JobsOK == job \in [Requests -> Jobs]

\* Every step of the server keeps the outcomes well-formed.
LEMMA JobsStep == JobsOK /\ [ServerNext]_serverVars => JobsOK'
<1> SUFFICES ASSUME JobsOK, [ServerNext]_serverVars PROVE JobsOK'
  OBVIOUS
<1> USE DEF JobsOK, Jobs
<1>1. ASSUME NEW r \in Requests, Acquiring(r) PROVE JobsOK'
  BY <1>1 DEF Acquiring
<1>2. ASSUME NEW r \in Requests, Forbid(r) PROVE JobsOK'
  BY <1>2 DEF Forbid, Ends, Answered
<1>3. ASSUME NEW r \in Requests, HandleUncounted(r) PROVE JobsOK'
  BY <1>3 DEF HandleUncounted, Ends, Answered
<1>4. ASSUME NEW r \in Requests, Handle(r) PROVE JobsOK'
  BY <1>4 DEF Handle
<1>5. ASSUME NEW r \in Requests, HandleTotal(r) PROVE JobsOK'
  BY <1>5 DEF HandleTotal, Ends, Answered
<1>6. ASSUME NEW r \in Requests, Leave(r) PROVE JobsOK'
  BY <1>6 DEF Leave, NoJob
<1>7. CASE GetStats /\ UNCHANGED <<vars, job>>
  BY <1>7
<1>8. CASE UNCHANGED serverVars
  BY <1>8 DEF serverVars
<1> QED BY <1>1, <1>2, <1>3, <1>4, <1>5, <1>6, <1>7, <1>8 DEF ServerNext

\* Every step of the server is a step of the limiter, or leaves it alone.
LEMMA LimiterSimulated == JobsOK /\ [ServerNext]_serverVars => [Next]_vars
<1> SUFFICES ASSUME JobsOK, [ServerNext]_serverVars PROVE [Next]_vars
  OBVIOUS
<1>1. ASSUME NEW r \in Requests, Acquiring(r) PROVE Next
  BY <1>1 DEF Acquiring, Waiting, Next
<1>2. ASSUME NEW r \in Requests, Forbid(r) \/ HandleUncounted(r) \/ Handle(r) \/ HandleTotal(r)
      PROVE  UNCHANGED vars
  BY <1>2 DEF Forbid, HandleUncounted, Handle, HandleTotal
<1>3. ASSUME NEW r \in Requests, Leave(r) PROVE Next
  <2>1. job[r].success \in BOOLEAN
    BY DEF JobsOK, Jobs
  <2>2. CASE pc[r] = "serving"
    <3>1. Finish(r)
      BY <1>3, <2>1, <2>2 DEF Leave, Finish
    <3> QED BY <3>1 DEF Next
  <2>3. CASE pc[r] # "serving"
    BY <1>3, <2>3 DEF Leave, Next
  <2> QED BY <2>2, <2>3
<1>4. CASE GetStats /\ UNCHANGED <<vars, job>>
  BY <1>4
<1>5. CASE UNCHANGED serverVars
  BY <1>5 DEF serverVars
<1> QED BY <1>1, <1>2, <1>3, <1>4, <1>5 DEF ServerNext

\* The server, whatever its handlers do, implements the limiter.
THEOREM ServerImplementsLimiter == ServerSpec => Spec
<1>1. ServerInit => Init /\ JobsOK
  BY DEF ServerInit, JobsOK, Jobs, NoJob
<1> QED BY <1>1, JobsStep, LimiterSimulated, PTL DEF ServerSpec, Spec

\* A slot is taken by exactly the requests that are with a handler.
THEOREM ServerSlotsAccounted == ServerSpec => []SlotsAccounted
  BY ServerImplementsLimiter, LimiterSlotsAccounted, PTL

\* Never more requests are with the handlers than the limit allows, and the limit stays
\* between its bounds, whatever outcomes the handlers report.
THEOREM ServerWithinLimit == ServerSpec => []WithinLimit
  BY ServerImplementsLimiter, LimiterWithinLimit, PTL

\* So a client of the whole server sees the promise of the limiter: no more than the
\* upper bound of data requests are handled at a time, one that waits is admitted or
\* refused, and none is served that was not admitted.
THEOREM ServerAdmits == ServerSpec => Promise!Safety
  BY ServerImplementsLimiter, LimiterImplementsAdmission, PTL

-----------------------------------------------------------------------------
(* The statistics.                                                         *)

Indices == DOMAIN MethodOrder

\* The counters of one outcome, in the order of the methods.
Column(ok) == [i \in Indices |-> counts[MethodOrder[i]][ok]]

StatsTyped ==
    /\ counts \in [Methods -> [BOOLEAN -> Nat]]
    /\ totals \in [BOOLEAN -> Nat]

LEMMA MethodFacts ==
    /\ Len(MethodOrder) \in Nat /\ Indices = 1..Len(MethodOrder)
    /\ IsFiniteSet(Indices)
    /\ \A i \in Indices : MethodOrder[i] \in Methods
    /\ \A m \in Methods : \E i \in Indices : MethodOrder[i] = m
    /\ \A i, j \in Indices : MethodOrder[i] = MethodOrder[j] => i = j
<1>1. MethodOrder \in Seq(Methods) /\ Seqs!IsInjective(MethodOrder)
  BY StatisticsAssumption DEF Methods
<1>2. Len(MethodOrder) \in Nat /\ Indices = 1..Len(MethodOrder)
  BY <1>1 DEF Indices
<1>3. IsFiniteSet(1..Len(MethodOrder))
  BY <1>2, FS_Interval
<1> QED BY <1>1, <1>2, <1>3 DEF Indices, Methods, Seqs!ToSet, Seqs!IsInjective

LEMMA ColumnNat ==
    ASSUME StatsTyped, NEW ok \in BOOLEAN
    PROVE  \A i \in Indices : Column(ok)[i] = counts[MethodOrder[i]][ok] /\ Column(ok)[i] \in Nat
  BY MethodFacts DEF StatsTyped, Column

\* Counted adds up a column.
CountedAdds == \A q \in BOOLEAN : Counted(q) = Tally(Column(q), Indices) /\ Counted(q) \in Nat

LEMMA CountedIsTally == StatsTyped => CountedAdds
<1> SUFFICES ASSUME StatsTyped, NEW ok \in BOOLEAN
             PROVE  Counted(ok) = Tally(Column(ok), Indices) /\ Counted(ok) \in Nat
  BY DEF CountedAdds
<1> DEFINE S == Indices
           f == Column(ok)
           Iterates(it) ==
               it = [s \in SUBSET S |-> IF s = {} THEN 0
                                        ELSE counts[MethodOrder[Chosen(s)]][ok] + it[s \ {Chosen(s)}]]
           it0 == CHOOSE it : Iterates(it)
<1>1. IsFiniteSet(S) /\ \A i \in S : f[i] = counts[MethodOrder[i]][ok] /\ f[i] \in Nat
  BY MethodFacts, ColumnNat
<1>2. Counted(ok) = it0[S]
  BY DEF Counted, Seqs!FoldSeq, Seqs!FoldFunction, Seqs!FoldFunctionOnSet, Seqs!MapThenFoldSet,
         Chosen, Indices
<1> HIDE DEF f, S
<1>3. \A it : Iterates(it) <=> SumsUp(it, f, S)
  <2>1. \A s \in SUBSET S : s # {} => f[Chosen(s)] = counts[MethodOrder[Chosen(s)]][ok]
    BY <1>1 DEF Chosen
  <2>2. ASSUME NEW it
        PROVE  [s \in SUBSET S |-> IF s = {} THEN 0
                                   ELSE counts[MethodOrder[Chosen(s)]][ok] + it[s \ {Chosen(s)}]]
             = [s \in SUBSET S |-> IF s = {} THEN 0 ELSE f[Chosen(s)] + it[s \ {Chosen(s)}]]
    BY <2>1
  <2> QED BY Zenon, <2>2 DEF SumsUp
<1>4. \E it : SumsUp(it, f, S)
  BY <1>1, SumsUpExists
<1>5. SumsUp(it0, f, S)
  <2> HIDE DEF Iterates
  <2> QED BY Zenon, <1>3, <1>4
<1> HIDE DEF it0
<1>6. it0[S] = Tally(f, S) /\ Tally(f, S) \in Nat
  BY <1>1, <1>5, SumsUpIsTally, TallyFinite
<1> QED BY <1>2, <1>6 DEF S, f

\* A method that counts adds one to the column of its outcome.
LEMMA CountMethodAdds ==
    ASSUME StatsTyped, NEW m \in Methods, NEW ok \in BOOLEAN, CountMethod(m, ok)
    PROVE  /\ StatsTyped'
           /\ \A o \in BOOLEAN : Counted(o)' = Counted(o) + (IF o = ok THEN 1 ELSE 0)
           /\ \A o \in BOOLEAN : \A i \in Indices : Column(o)[i] <= Column(o)'[i]
<1>1. counts' = [counts EXCEPT ![m][ok] = @ + 1] /\ totals' = totals
  BY DEF CountMethod
<1>2. StatsTyped'
  BY <1>1 DEF StatsTyped
<1>3. PICK x \in Indices : MethodOrder[x] = m
  BY MethodFacts
<1>4. ASSUME NEW o \in BOOLEAN, NEW i \in Indices
      PROVE  /\ Column(o)[i] \in Nat /\ Column(o)'[i] \in Nat
             /\ Column(o)'[i] = Column(o)[i] + (IF i = x /\ o = ok THEN 1 ELSE 0)
  <2>1. MethodOrder[i] \in Methods /\ (MethodOrder[i] = m <=> i = x)
    BY <1>3, MethodFacts
  <2>2. /\ Column(o)[i] = counts[MethodOrder[i]][o]
        /\ Column(o)'[i] = counts'[MethodOrder[i]][o]
    BY DEF Column
  <2>3. counts[MethodOrder[i]][o] \in Nat
    BY <2>1 DEF StatsTyped
  <2>4. CASE i = x /\ o = ok
    <3>1. counts'[m][ok] = counts[m][ok] + 1
      BY <1>1 DEF StatsTyped
    <3> QED BY <2>1, <2>2, <2>3, <2>4, <3>1
  <2>5. CASE ~(i = x /\ o = ok)
    <3>1. counts'[MethodOrder[i]][o] = counts[MethodOrder[i]][o]
      BY <1>1, <2>1, <2>5 DEF StatsTyped
    <3> QED BY <2>2, <2>3, <2>5, <3>1
  <2> QED BY <2>4, <2>5
<1>5. ASSUME NEW o \in BOOLEAN
      PROVE  Counted(o)' = Counted(o) + (IF o = ok THEN 1 ELSE 0)
  <2> DEFINE f == Column(o)
             g == Column(o)'
  <2>1. Counted(o) = Tally(f, Indices) /\ Counted(o) \in Nat
    BY CountedIsTally DEF CountedAdds
  <2>2. Counted(o)' = Tally(g, Indices)
    <3>1. (StatsTyped => CountedAdds)'
      BY CountedIsTally, PTL
    <3> QED BY <1>2, <3>1 DEF CountedAdds
  <2>3. IsFiniteSet(Indices)
    BY MethodFacts
  <2>4. CASE o = ok
    <3>1. /\ \A y \in Indices : f[y] \in Nat
          /\ g[x] = f[x] + 1 /\ \A y \in Indices \ {x} : g[y] = f[y]
      BY <1>4, <2>4
    <3> HIDE DEF f, g
    <3>2. Tally(g, Indices) = Tally(f, Indices) + 1
      BY <2>3, <3>1, TallyBump
    <3> QED BY <2>1, <2>2, <2>4, <3>2
  <2>5. CASE o # ok
    <3>1. \A y \in Indices : f[y] = g[y]
      BY <1>4, <2>5
    <3> HIDE DEF f, g
    <3>2. Tally(f, Indices) = Tally(g, Indices)
      BY <3>1, TallySame
    <3> QED BY <2>1, <2>2, <2>5, <3>2
  <2> QED BY <2>4, <2>5
<1>6. ASSUME NEW o \in BOOLEAN, NEW i \in Indices PROVE Column(o)[i] <= Column(o)'[i]
  BY <1>4
<1> QED BY <1>2, <1>5, <1>6

\* Who is between its two counts after a step that moves only the job of r.
LEMMA BetweenMove ==
    ASSUME JobsOK, NEW r \in Requests, NEW j, job' = [job EXCEPT ![r] = j], NEW o \in BOOLEAN
    PROVE  BetweenCounts(o)' = IF j.at = "counted" /\ j.ok = o THEN BetweenCounts(o) \cup {r}
                               ELSE BetweenCounts(o) \ {r}
<1>1. job'[r] = j /\ \A q \in Requests : q # r => job'[q] = job[q]
  BY DEF JobsOK
<1> QED BY <1>1 DEF BetweenCounts

LEMMA BetweenFinite ==
    ASSUME NEW o
    PROVE  IsFiniteSet(BetweenCounts(o)) /\ Cardinality(BetweenCounts(o)) \in Nat
<1>1. BetweenCounts(o) \in SUBSET Requests
  BY DEF BetweenCounts
<1> QED BY <1>1, RequestsAssumption, FS_Subset, FS_CardinalityType

\* A job that moves without being counted, before or after.
LEMMA BetweenSame ==
    ASSUME JobsOK, NEW r \in Requests, NEW j, job' = [job EXCEPT ![r] = j],
           job[r].at # "counted", j.at # "counted"
    PROVE  \A o \in BOOLEAN : BetweenCounts(o)' = BetweenCounts(o)
<1> SUFFICES ASSUME NEW o \in BOOLEAN PROVE BetweenCounts(o)' = BetweenCounts(o)
  OBVIOUS
<1>1. BetweenCounts(o)' = BetweenCounts(o) \ {r}
  BY BetweenMove
<1>2. r \notin BetweenCounts(o)
  BY DEF BetweenCounts
<1> QED BY <1>1, <1>2

LEMMA CountedSame ==
    ASSUME StatsTyped, StatsTyped', counts' = counts
    PROVE  \A o \in BOOLEAN : Counted(o)' = Counted(o)
<1>1. (StatsTyped => CountedAdds)'
  BY CountedIsTally, PTL
<1>2. \A o \in BOOLEAN : Column(o)' = Column(o)
  BY DEF Column
<1> QED BY <1>1, <1>2, CountedIsTally DEF CountedAdds

TotalsInv == JobsOK /\ StatsTyped /\ TotalsAgree

\* Counters, totals and the requests between the two stay.
LEMMA TotalsSame ==
    ASSUME TotalsInv, UNCHANGED <<counts, totals>>,
           \A o \in BOOLEAN : BetweenCounts(o)' = BetweenCounts(o)
    PROVE  StatsTyped' /\ TotalsAgree'
<1>1. StatsTyped'
  BY DEF TotalsInv, StatsTyped
<1>2. \A o \in BOOLEAN : Counted(o)' = Counted(o)
  BY <1>1, CountedSame DEF TotalsInv
<1> QED BY <1>1, <1>2 DEF TotalsInv, TotalsAgree

LEMMA HandleTotals ==
    ASSUME TotalsInv, NEW r \in Requests, Handle(r)
    PROVE  StatsTyped' /\ TotalsAgree'
<1>1. PICK m \in Methods, ok \in BOOLEAN, success \in BOOLEAN :
          /\ CountMethod(m, ok)
          /\ job' = [job EXCEPT ![r] = [at |-> "counted", ok |-> ok, success |-> success]]
  BY DEF Handle
<1>2. /\ StatsTyped'
      /\ \A o \in BOOLEAN : Counted(o)' = Counted(o) + (IF o = ok THEN 1 ELSE 0)
  BY <1>1, CountMethodAdds DEF TotalsInv
<1>3. totals' = totals
  BY <1>1 DEF CountMethod
<1>4. ASSUME NEW o \in BOOLEAN
      PROVE  Counted(o)' = totals[o] + Cardinality(BetweenCounts(o)')
  <2>1. BetweenCounts(o)' = IF ok = o THEN BetweenCounts(o) \cup {r} ELSE BetweenCounts(o) \ {r}
    <3> DEFINE j == [at |-> "counted", ok |-> ok, success |-> success]
    <3>1. j.at = "counted" /\ j.ok = ok /\ job' = [job EXCEPT ![r] = j]
      BY <1>1
    <3> HIDE DEF j
    <3> QED BY <3>1, BetweenMove DEF TotalsInv
  <2>2. r \notin BetweenCounts(o)
    BY DEF Handle, Unhandled, BetweenCounts
  <2>3. Counted(o) = totals[o] + Cardinality(BetweenCounts(o)) /\ totals[o] \in Nat
    BY DEF TotalsInv, TotalsAgree, StatsTyped
  <2>4. IsFiniteSet(BetweenCounts(o)) /\ Cardinality(BetweenCounts(o)) \in Nat
    BY BetweenFinite
  <2>5. Counted(o)' = Counted(o) + (IF o = ok THEN 1 ELSE 0)
    BY <1>2
  <2>6. CASE o = ok
    <3>1. Cardinality(BetweenCounts(o)') = Cardinality(BetweenCounts(o)) + 1
      BY <2>1, <2>2, <2>4, <2>6, FS_AddElement
    <3> QED BY <2>3, <2>4, <2>5, <2>6, <3>1
  <2>7. CASE o # ok
    <3>1. BetweenCounts(o)' = BetweenCounts(o)
      BY <2>1, <2>2, <2>7
    <3> QED BY <2>3, <2>4, <2>5, <2>7, <3>1
  <2> QED BY <2>6, <2>7
<1> QED BY <1>2, <1>3, <1>4 DEF TotalsAgree

LEMMA HandleTotalTotals ==
    ASSUME TotalsInv, NEW r \in Requests, HandleTotal(r)
    PROVE  StatsTyped' /\ TotalsAgree'
<1> DEFINE ok == job[r].ok
<1>1. /\ job[r].at = "counted" /\ ok \in BOOLEAN /\ counts' = counts
      /\ totals' = [totals EXCEPT ![ok] = @ + 1]
      /\ job' = [job EXCEPT ![r] = Answered(job[r].success)]
  BY DEF HandleTotal, CountTotal, Ends, TotalsInv, JobsOK, Jobs
<1>2. StatsTyped'
  BY <1>1 DEF TotalsInv, StatsTyped
<1>3. ASSUME NEW o \in BOOLEAN
      PROVE  Counted(o)' = totals'[o] + Cardinality(BetweenCounts(o)')
  <2>1. BetweenCounts(o)' = BetweenCounts(o) \ {r}
    <3>1. Answered(job[r].success).at = "answered"
      BY DEF Answered
    <3> QED BY <1>1, <3>1, BetweenMove DEF TotalsInv
  <2>2. r \in BetweenCounts(o) <=> o = ok
    BY <1>1 DEF BetweenCounts
  <2>3. Counted(o) = totals[o] + Cardinality(BetweenCounts(o)) /\ totals[o] \in Nat
    BY DEF TotalsInv, TotalsAgree, StatsTyped
  <2>4. IsFiniteSet(BetweenCounts(o)) /\ Cardinality(BetweenCounts(o)) \in Nat
    BY BetweenFinite
  <2>5. Counted(o)' = Counted(o)
    BY <1>1, <1>2, CountedSame DEF TotalsInv
  <2>6. CASE o = ok
    <3>1. Cardinality(BetweenCounts(o)') = Cardinality(BetweenCounts(o)) - 1
      BY <2>1, <2>2, <2>4, <2>6, FS_RemoveElement
    <3>2. totals'[o] = totals[o] + 1
      BY <1>1, <2>6 DEF TotalsInv, StatsTyped
    <3> QED BY <2>3, <2>4, <2>5, <3>1, <3>2
  <2>7. CASE o # ok
    <3>1. BetweenCounts(o)' = BetweenCounts(o)
      BY <2>1, <2>2, <2>7
    <3>2. totals'[o] = totals[o]
      BY <1>1, <2>7 DEF TotalsInv, StatsTyped
    <3> QED BY <2>3, <2>4, <2>5, <3>1, <3>2
  <2> QED BY <2>6, <2>7
<1> QED BY <1>2, <1>3 DEF TotalsAgree

LEMMA TotalsInit == ServerInit => TotalsInv
<1> SUFFICES ASSUME ServerInit PROVE TotalsInv
  OBVIOUS
<1>1. JobsOK
  BY DEF ServerInit, JobsOK, Jobs, NoJob
<1>2. StatsTyped
  BY DEF ServerInit, StatsInit, StatsTyped, Zero
<1>3. ASSUME NEW o \in BOOLEAN
      PROVE  Counted(o) = 0 /\ totals[o] = 0 /\ Cardinality(BetweenCounts(o)) = 0
  <2>1. BetweenCounts(o) = {}
    BY DEF ServerInit, BetweenCounts, NoJob
  <2>2. totals[o] = 0
    BY DEF ServerInit, StatsInit, Zero
  <2>3. \A i \in Indices : Column(o)[i] = 0
    BY MethodFacts DEF ServerInit, StatsInit, Zero, Column
  <2>4. Units(Column(o), Indices) = {}
    BY <2>3 DEF Units
  <2>5. Counted(o) = 0
    BY <1>2, <2>4, CountedIsTally, FS_EmptySet DEF Tally, CountedAdds
  <2> QED BY <2>1, <2>2, <2>5, FS_EmptySet
<1>4. TotalsAgree
  BY <1>3 DEF TotalsAgree
<1> QED BY <1>1, <1>2, <1>4 DEF TotalsInv

LEMMA TotalsStep == TotalsInv /\ [ServerNext]_serverVars => TotalsInv'
<1> SUFFICES ASSUME TotalsInv, [ServerNext]_serverVars PROVE TotalsInv'
  OBVIOUS
<1>1. JobsOK /\ JobsOK'
  BY JobsStep DEF TotalsInv
<1>2. ASSUME NEW r \in Requests, Acquiring(r) PROVE UNCHANGED <<counts, totals, job>>
  BY <1>2 DEF Acquiring, statsVars
<1>3. ASSUME NEW r \in Requests, Forbid(r) \/ HandleUncounted(r) \/ Leave(r)
      PROVE  StatsTyped' /\ TotalsAgree'
  <2>1. PICK j : job' = [job EXCEPT ![r] = j] /\ j.at # "counted" /\ job[r].at # "counted"
    BY <1>3 DEF Forbid, HandleUncounted, Leave, Unhandled, Ends, Answered, NoJob
  <2>2. \A o \in BOOLEAN : BetweenCounts(o)' = BetweenCounts(o)
    BY <1>1, <2>1, BetweenSame
  <2>3. UNCHANGED <<counts, totals>>
    BY <1>3 DEF Forbid, HandleUncounted, Leave, statsVars
  <2> QED BY <2>2, <2>3, TotalsSame
<1>4. ASSUME NEW r \in Requests, Handle(r) PROVE StatsTyped' /\ TotalsAgree'
  BY <1>4, HandleTotals
<1>5. ASSUME NEW r \in Requests, HandleTotal(r) PROVE StatsTyped' /\ TotalsAgree'
  BY <1>5, HandleTotalTotals
<1>6. ASSUME UNCHANGED <<counts, totals, job>> PROVE StatsTyped' /\ TotalsAgree'
  <2>1. \A o \in BOOLEAN : BetweenCounts(o)' = BetweenCounts(o)
    BY <1>6 DEF BetweenCounts
  <2> QED BY <1>6, <2>1, TotalsSame
<1>7. (GetStats /\ UNCHANGED <<vars, job>>) \/ UNCHANGED serverVars
      => UNCHANGED <<counts, totals, job>>
  BY DEF GetStats, serverVars, statsVars
<1>8. StatsTyped' /\ TotalsAgree'
  BY <1>2, <1>3, <1>4, <1>5, <1>6, <1>7 DEF ServerNext
<1> QED BY <1>1, <1>8 DEF TotalsInv

\* The totals lag behind the methods' counters by the requests that are between the
\* two, whatever the handlers count and in whatever order the counters are added up.
THEOREM StatisticsAgree == ServerSpec => []TotalsAgree
  BY TotalsInit, TotalsStep, PTL DEF ServerSpec, TotalsInv

-----------------------------------------------------------------------------
(* The snapshot.                                                           *)

\* A request that counts holds a slot or bypasses the limiter, and then the routes of
\* those that bypass it let some request count.
JobsPlaced ==
    \A r \in Requests :
        /\ job[r].at # "none" => pc[r] \in {"serving", "bypassing"}
        /\ job[r].at = "counted" /\ pc[r] = "bypassing" => CountingControl = Control

\* What was loaded is no more than the counters are by now.
SnapInv ==
    /\ snap \in [done : 0..Len(MethodOrder), sums : [BOOLEAN -> Nat], totals : [BOOLEAN -> Nat]]
    /\ \A ok \in BOOLEAN : snap.sums[ok] <= Tally(Column(ok), 1..snap.done)

LEMMA FirstIndices ==
    ASSUME NEW k \in 0..Len(MethodOrder)
    PROVE  IsFiniteSet(1..k) /\ 1..k \subseteq Indices
<1>1. Len(MethodOrder) \in Nat /\ Indices = 1..Len(MethodOrder)
  BY MethodFacts
<1>2. IsFiniteSet(1..k)
  BY <1>1, FS_Interval
<1> QED BY <1>1, <1>2

LEMMA PlacedStep ==
    ASSUME LimiterInv, JobsOK, JobsPlaced, [ServerNext]_serverVars
    PROVE  JobsPlaced'
<1>0. pc \in [Requests -> {"idle", "checking", "sleeping", "serving", "bypassing"}]
  BY DEF LimiterInv, TypeOK
<1>1. ASSUME NEW r \in Requests, Acquiring(r) PROVE JobsPlaced'
  <2>1. job' = job /\ pc[r] \in {"idle", "checking", "sleeping"}
        /\ \A q \in Requests : q # r => pc'[q] = pc[q]
    BY <1>0, <1>1 DEF Acquiring, Waiting, Arrive, Admit, Sleep, Wake, Reject, Expire, GivesUp, Goes
  <2>2. job[r].at = "none"
    BY <2>1 DEF JobsPlaced
  <2> QED BY <2>1, <2>2 DEF JobsPlaced, CountingControl
<1>2. ASSUME NEW r \in Requests, Forbid(r) \/ HandleUncounted(r) PROVE JobsPlaced'
  <2>1. PICK success \in BOOLEAN : job' = [job EXCEPT ![r] = Answered(success)]
    BY <1>2 DEF Forbid, HandleUncounted, Ends
  <2>2. pc' = pc /\ pc[r] \in {"serving", "bypassing"}
    BY <1>2 DEF Forbid, HandleUncounted, Unhandled, vars
  <2>3. Answered(success).at = "answered"
    BY DEF Answered
  <2> QED BY <2>1, <2>2, <2>3 DEF JobsPlaced, JobsOK, CountingControl
<1>3. ASSUME NEW r \in Requests, Handle(r) PROVE JobsPlaced'
  <2>1. PICK u \in Asked, m \in Methods, ok \in BOOLEAN, success \in BOOLEAN :
            /\ Bypasses(u) = (r \in Control) /\ MayCount(Route(u), m, ok)
            /\ job' = [job EXCEPT ![r] = [at |-> "counted", ok |-> ok, success |-> success]]
    BY <1>3 DEF Handle
  <2>2. pc' = pc /\ pc[r] \in {"serving", "bypassing"}
    BY <1>3 DEF Handle, Unhandled, vars
  <2>3. pc[r] = "bypassing" => CountingControl = Control
    <3>1. MayCount(Route(u), m, TRUE)
      BY <2>1 DEF MayCount
    <3>2. pc[r] = "bypassing" => r \in Control
      BY DEF LimiterInv, BypassIsControl
    <3> QED BY <2>1, <3>1, <3>2 DEF CountingControl
  <2>4. /\ job'[r].at = "counted"
        /\ \A q \in Requests : q # r => job'[q] = job[q]
    BY <2>1 DEF JobsOK
  <2> QED BY <2>2, <2>3, <2>4 DEF JobsPlaced, CountingControl
<1>4. ASSUME NEW r \in Requests, HandleTotal(r) PROVE JobsPlaced'
  <2>1. /\ job' = [job EXCEPT ![r] = Answered(job[r].success)] /\ pc' = pc
        /\ job[r].at = "counted" /\ Answered(job[r].success).at = "answered"
    BY <1>4 DEF HandleTotal, Ends, Answered, vars
  <2> QED BY <2>1 DEF JobsPlaced, JobsOK, CountingControl
<1>5. ASSUME NEW r \in Requests, Leave(r) PROVE JobsPlaced'
  <2>1. job' = [job EXCEPT ![r] = NoJob] /\ NoJob.at = "none"
    BY <1>5 DEF Leave, NoJob
  <2>2. \A q \in Requests : q # r => pc'[q] = pc[q]
    BY <1>0, <1>5 DEF Leave, Goes, FinishBypass
  <2> QED BY <2>1, <2>2 DEF JobsPlaced, JobsOK, CountingControl
<1>6. ASSUME UNCHANGED <<pc, job>> PROVE JobsPlaced'
  BY <1>6 DEF JobsPlaced, CountingControl
<1> QED BY <1>1, <1>2, <1>3, <1>4, <1>5, <1>6 DEF ServerNext, serverVars, vars

\* The last load is that of the totals.
LEMMA LoadFacts ==
    ASSUME SnapInv
    PROVE  /\ Len(Loads) = Len(MethodOrder) + 1 /\ Loads[Len(MethodOrder) + 1] = "total"
           /\ \A i \in Indices : Loads[i] = MethodOrder[i]
           /\ Loaded.done = snap.done + 1
<1>1. Len(MethodOrder) \in Nat /\ MethodOrder \in Seq(Methods) /\ Indices = 1..Len(MethodOrder)
  BY MethodFacts, StatisticsAssumption DEF Methods
<1>2. /\ Len(Loads) = Len(MethodOrder) + 1 /\ Loads[Len(MethodOrder) + 1] = "total"
      /\ \A i \in Indices : Loads[i] = MethodOrder[i]
  BY <1>1 DEF Loads, TotalLoad
<1>3. Loaded.done = snap.done + 1
  BY DEF Loaded, SnapInv
<1> QED BY <1>2, <1>3

\* One more load keeps to the counters.
LEMMA LoadedKeeps ==
    ASSUME StatsTyped, SnapInv, Loaded.done # Len(Loads)
    PROVE  /\ Loaded \in [done : 0..Len(MethodOrder), sums : [BOOLEAN -> Nat],
                          totals : [BOOLEAN -> Nat]]
           /\ \A ok \in BOOLEAN : Loaded.sums[ok] <= Tally(Column(ok), 1..Loaded.done)
<1> DEFINE k == snap.done + 1
<1>1. /\ Len(MethodOrder) \in Nat /\ snap.done \in 0..Len(MethodOrder)
      /\ snap.sums \in [BOOLEAN -> Nat]
      /\ k \in 1..Len(MethodOrder) /\ k \in Indices /\ Loaded.done = k
  BY MethodFacts, LoadFacts DEF SnapInv
<1>2. Loads[k] = MethodOrder[k] /\ MethodOrder[k] \in Methods
  BY <1>1, LoadFacts, MethodFacts
<1>3. ASSUME NEW ok \in BOOLEAN
      PROVE  /\ Tally(Column(ok), 1..snap.done) \in Nat
             /\ Tally(Column(ok), 1..k) = Tally(Column(ok), 1..snap.done) + counts[MethodOrder[k]][ok]
             /\ counts[MethodOrder[k]][ok] \in Nat
  <2> DEFINE S == 1..snap.done
             f == Column(ok)
  <2>1. IsFiniteSet(S) /\ S \subseteq Indices
    BY <1>1, FirstIndices
  <2>2. \A i \in S : f[i] \in Nat
    BY <2>1, ColumnNat
  <2>3. f[k] = counts[MethodOrder[k]][ok] /\ f[k] \in Nat
    BY <1>1, ColumnNat
  <2>4. k \notin S /\ S \cup {k} = 1..k
    BY <1>1
  <2> HIDE DEF S, f, k
  <2>5. IsFiniteSet(Units(f, S)) /\ Tally(f, S) \in Nat
    BY <2>1, <2>2, TallyFinite
  <2>6. Tally(f, S \cup {k}) = Tally(f, S) + f[k]
    BY <2>3, <2>4, <2>5, TallyAdd
  <2> QED BY <2>3, <2>4, <2>5, <2>6 DEF S, f
<1>4. CASE Loads[k] = "total"
  <2>1. /\ Loaded.sums = snap.sums /\ Loaded.totals = totals
        /\ Loaded \in [done : {k}, sums : [BOOLEAN -> Nat], totals : [BOOLEAN -> Nat]]
    BY <1>4 DEF Loaded, SnapInv, StatsTyped
  <2>2. ASSUME NEW ok \in BOOLEAN PROVE Loaded.sums[ok] <= Tally(Column(ok), 1..k)
    <3>1. snap.sums[ok] <= Tally(Column(ok), 1..snap.done) /\ snap.sums[ok] \in Nat
      BY <1>1 DEF SnapInv
    <3> HIDE DEF k
    <3> QED BY <1>3, <2>1, <3>1
  <2>3. Loaded \in [done : 0..Len(MethodOrder), sums : [BOOLEAN -> Nat], totals : [BOOLEAN -> Nat]]
    BY <1>1, <2>1
  <2> QED BY <1>1, <2>2, <2>3
<1>5. CASE Loads[k] # "total"
  <2>1. \A ok \in BOOLEAN : Loaded.sums[ok] = snap.sums[ok] + counts[MethodOrder[k]][ok]
    BY <1>2, <1>5 DEF Loaded, SnapInv
  <2>2. ASSUME NEW ok \in BOOLEAN PROVE Loaded.sums[ok] <= Tally(Column(ok), 1..k)
    <3>1. snap.sums[ok] <= Tally(Column(ok), 1..snap.done) /\ snap.sums[ok] \in Nat
      BY <1>1 DEF SnapInv
    <3> HIDE DEF k
    <3> QED BY <1>3, <2>1, <3>1
  <2>3. Loaded \in [done : 0..Len(MethodOrder), sums : [BOOLEAN -> Nat], totals : [BOOLEAN -> Nat]]
    <3> DEFINE sums == [ok \in BOOLEAN |-> snap.sums[ok] + counts[MethodOrder[k]][ok]]
               R == [done : 0..Len(MethodOrder), sums : [BOOLEAN -> Nat], totals : [BOOLEAN -> Nat]]
    <3>1. sums \in [BOOLEAN -> Nat]
      BY <1>1, <1>3
    <3>2. snap \in R /\ k \in 0..Len(MethodOrder)
      BY <1>1 DEF SnapInv
    <3>3. Loaded = [snap EXCEPT !.done = k, !.sums = sums]
      BY <1>2, <1>5, <3>2 DEF Loaded
    <3> HIDE DEF sums, k
    <3> QED BY <3>1, <3>2, <3>3
  <2> QED BY <1>1, <2>2, <2>3
<1> QED BY <1>4, <1>5

LEMMA SnapStep ==
    ASSUME TotalsInv, SnapInv, [ServerNext]_serverVars
    PROVE  SnapInv'
<1>0. StatsTyped
  BY DEF TotalsInv
<1>1. ASSUME UNCHANGED <<counts, snap>> PROVE SnapInv'
  <2>1. \A ok \in BOOLEAN : Column(ok)' = Column(ok)
    BY <1>1 DEF Column
  <2> QED BY <1>1, <2>1 DEF SnapInv
<1>2. ASSUME NEW r \in Requests, Handle(r) PROVE SnapInv'
  <2>1. PICK m \in Methods, ok \in BOOLEAN : CountMethod(m, ok)
    BY <1>2 DEF Handle
  <2>2. snap' = snap /\ StatsTyped' /\ \A o \in BOOLEAN : \A i \in Indices : Column(o)[i] <= Column(o)'[i]
    BY <1>0, <2>1, CountMethodAdds DEF CountMethod
  <2>3. ASSUME NEW o \in BOOLEAN PROVE snap.sums[o] <= Tally(Column(o)', 1..snap.done)
    <3> DEFINE S == 1..snap.done
               f == Column(o)
               g == Column(o)'
    <3>1. IsFiniteSet(S) /\ S \subseteq Indices
      BY FirstIndices DEF SnapInv
    <3>2. \A i \in Indices : f[i] \in Nat
      BY <1>0, ColumnNat
    <3>3. \A i \in Indices : g[i] \in Nat
      BY <2>2, MethodFacts DEF StatsTyped, Column
    <3>4. \A i \in S : f[i] \in Nat /\ g[i] \in Nat /\ f[i] <= g[i]
      BY <2>2, <3>1, <3>2, <3>3
    <3> HIDE DEF S, f, g
    <3>5. Tally(f, S) <= Tally(g, S) /\ Tally(f, S) \in Nat /\ Tally(g, S) \in Nat
      BY <3>1, <3>4, TallyMono, TallyFinite
    <3>6. snap.sums[o] <= Tally(f, S) /\ snap.sums[o] \in Nat
      BY DEF SnapInv, S, f
    <3> QED BY <3>5, <3>6 DEF S, g
  <2> QED BY <2>2, <2>3 DEF SnapInv
<1>3. CASE GetStats
  <2>1. \A ok \in BOOLEAN : Column(ok)' = Column(ok)
    BY <1>3 DEF GetStats, Column
  <2>2. CASE Loaded.done = Len(Loads)
    <3>1. snap' = NoSnap
      BY <1>3, <2>2 DEF GetStats
    <3>2. /\ NoSnap \in [done : 0..Len(MethodOrder), sums : [BOOLEAN -> Nat], totals : [BOOLEAN -> Nat]]
          /\ NoSnap.done = 0 /\ \A ok \in BOOLEAN : NoSnap.sums[ok] = 0
      BY MethodFacts DEF NoSnap, Zero
    <3>3. \A ok \in BOOLEAN : Tally(Column(ok)', 1..0) = 0
      BY TallyEmpty
    <3> QED BY <3>1, <3>2, <3>3 DEF SnapInv
  <2>3. CASE Loaded.done # Len(Loads)
    <3>1. snap' = Loaded
      BY <1>3, <2>3 DEF GetStats
    <3> QED BY <1>0, <2>1, <2>3, <3>1, LoadedKeeps DEF SnapInv
  <2> QED BY <2>2, <2>3
<1> QED BY <1>1, <1>2, <1>3
        DEF ServerNext, Acquiring, Forbid, HandleUncounted, HandleTotal, CountTotal, Leave,
            serverVars, statsVars

SnapshotInv == LimiterInv /\ TotalsInv /\ JobsPlaced /\ SnapInv

LEMMA SnapshotInit == ServerInit => SnapshotInv
<1> SUFFICES ASSUME ServerInit PROVE SnapshotInv
  OBVIOUS
<1>1. LimiterInv /\ TotalsInv
  BY LimiterInit, TotalsInit DEF ServerInit
<1>2. JobsPlaced
  BY DEF ServerInit, JobsPlaced, NoJob
<1>3. SnapInv
  <2>1. snap = NoSnap
    BY DEF ServerInit, StatsInit
  <2>2. /\ NoSnap \in [done : 0..Len(MethodOrder), sums : [BOOLEAN -> Nat], totals : [BOOLEAN -> Nat]]
        /\ NoSnap.done = 0 /\ \A ok \in BOOLEAN : NoSnap.sums[ok] = 0
    BY MethodFacts DEF NoSnap, Zero
  <2>3. \A ok \in BOOLEAN : Tally(Column(ok), 1..0) = 0
    BY TallyEmpty
  <2> QED BY <2>1, <2>2, <2>3 DEF SnapInv
<1> QED BY <1>1, <1>2, <1>3 DEF SnapshotInv

LEMMA SnapshotStep == SnapshotInv /\ [ServerNext]_serverVars => SnapshotInv'
<1> SUFFICES ASSUME SnapshotInv, [ServerNext]_serverVars PROVE SnapshotInv'
  OBVIOUS
<1>1. JobsOK
  BY DEF SnapshotInv, TotalsInv
<1>2. LimiterInv'
  BY <1>1, LimiterSimulated, LimiterStep DEF SnapshotInv
<1>3. TotalsInv'
  BY TotalsStep DEF SnapshotInv
<1>4. JobsPlaced'
  BY <1>1, PlacedStep DEF SnapshotInv
<1>5. SnapInv'
  BY SnapStep DEF SnapshotInv
<1> QED BY <1>2, <1>3, <1>4, <1>5 DEF SnapshotInv

\* Those that are between their counts hold slots, or bypass the limiter and count.
LEMMA BetweenBounded ==
    ASSUME SnapshotInv, NEW ok \in BOOLEAN
    PROVE  /\ Cardinality(BetweenCounts(ok)) \in Nat
           /\ Max + Cardinality(CountingControl) \in Nat
           /\ Cardinality(BetweenCounts(ok)) <= Max + Cardinality(CountingControl)
<1> DEFINE B == BetweenCounts(ok)
           C == CountingControl
<1>1. IsFiniteSet(C) /\ Cardinality(C) \in Nat
  <2>1. C \in SUBSET Requests /\ IsFiniteSet(Requests)
    BY RequestsAssumption DEF CountingControl
  <2> QED BY <2>1, FS_Subset, FS_CardinalityType
<1>2. IsFiniteSet(Holders) /\ Cardinality(Holders) \in Nat
  BY HoldersFinite
<1>3. B \in SUBSET (Holders \cup C)
  BY DEF BetweenCounts, SnapshotInv, JobsPlaced, LimiterInv, BypassIsControl, Holders
<1>4. Cardinality(Holders) <= Max /\ Max \in Nat
  BY Bounds DEF SnapshotInv, LimiterInv, SlotsAccounted, WithinLimit, LimitInRange, TypeOK
<1> HIDE DEF B, C
<1>5. IsFiniteSet(Holders \cup C) /\ Cardinality(Holders \cup C) <= Cardinality(Holders) + Cardinality(C)
  <2>1. /\ IsFiniteSet(Holders \cup C)
        /\ Cardinality(Holders \cup C) = Cardinality(Holders) + Cardinality(C) - Cardinality(Holders \cap C)
    BY <1>1, <1>2, FS_Union
  <2>2. Cardinality(Holders \cap C) \in Nat
    BY <1>1, <1>2, FS_Intersection, FS_CardinalityType
  <2> QED BY <1>1, <1>2, <2>1, <2>2
<1>6. Cardinality(B) \in Nat /\ Cardinality(B) <= Cardinality(Holders \cup C)
  BY <1>3, <1>5, FS_Subset, FS_CardinalityType
<1>7. Cardinality(Holders \cup C) \in Nat
  BY <1>5, FS_CardinalityType
<1> QED BY <1>1, <1>2, <1>4, <1>5, <1>6, <1>7 DEF B, C

\* A snapshot takes the methods first and the totals last, so that what it misses of the
\* totals are requests that are between their two counts when it ends.
THEOREM SnapshotsBounded == ServerSpec => SnapshotOvershoot
<1>1. SnapshotInv /\ Loaded.done = Len(Loads) =>
        \A ok \in BOOLEAN :
            Loaded.sums[ok] <= Loaded.totals[ok] + Max + Cardinality(CountingControl)
  <2> SUFFICES ASSUME SnapshotInv, Loaded.done = Len(Loads), NEW ok \in BOOLEAN
               PROVE  Loaded.sums[ok] <= Loaded.totals[ok] + Max + Cardinality(CountingControl)
    OBVIOUS
  <2>1. StatsTyped /\ SnapInv /\ TotalsAgree
    BY DEF SnapshotInv, TotalsInv
  <2>2. Len(MethodOrder) \in Nat /\ snap.done = Len(MethodOrder)
    BY <2>1, MethodFacts, LoadFacts DEF SnapInv
  <2>3. Loaded.sums = snap.sums /\ Loaded.totals = totals
    BY <2>1, <2>2, LoadFacts DEF Loaded, SnapInv
  <2>4. snap.sums[ok] \in Nat /\ snap.sums[ok] <= Counted(ok) /\ Counted(ok) \in Nat
    BY <2>1, <2>2, CountedIsTally, MethodFacts DEF SnapInv, CountedAdds
  <2>5. Counted(ok) = totals[ok] + Cardinality(BetweenCounts(ok)) /\ totals[ok] \in Nat
    BY <2>1 DEF TotalsAgree, StatsTyped
  <2>6. Max \in Nat /\ Cardinality(CountingControl) \in Nat
    <3>1. CountingControl \in SUBSET Requests /\ IsFiniteSet(Requests)
      BY RequestsAssumption DEF CountingControl
    <3> QED BY <3>1, Bounds, FS_Subset, FS_CardinalityType
  <2> QED BY <2>3, <2>4, <2>5, <2>6, BetweenBounded
<1>2. SnapshotInv /\ [ServerNext]_serverVars =>
        [Loaded.done = Len(Loads) /\ snap' # snap =>
            \A ok \in BOOLEAN :
                Loaded.sums[ok] <= Loaded.totals[ok] + Max + Cardinality(CountingControl)]_serverVars
  BY <1>1
<1> QED BY <1>2, SnapshotInit, SnapshotStep, PTL DEF ServerSpec, SnapshotOvershoot

-----------------------------------------------------------------------------
(* The routes.                                                             *)

\* The choice that is taken is the first of which the parameter is given.
LEMMA FirstOfGiven ==
    ASSUME NEW u, NEW c, NEW z, DOMAIN c \subseteq Nat,
           NEW k \in DOMAIN c, Get(u, c[k][1]), \A j \in DOMAIN c : j < k => ~Get(u, c[j][1])
    PROVE  FirstOf(u, c, z) = c[k][2]
<1> DEFINE given == {i \in DOMAIN c : Get(u, c[i][1])}
           first == CHOOSE i \in given : \A j \in given : i <= j
<1>1. k \in given /\ k \in Nat /\ \A j \in given : j \in Nat /\ ~(j < k)
  OBVIOUS
<1>2. FirstOf(u, c, z) = c[first][2]
  BY <1>1 DEF FirstOf
<1> HIDE DEF given
<1>3. \A j \in given : k <= j
  BY <1>1
<1>4. first \in given /\ \A j \in given : first <= j
  BY <1>1, <1>3, Zenon
<1> HIDE DEF first
<1>5. first = k
  BY <1>1, <1>3, <1>4
<1> QED BY <1>2, <1>5

LEMMA FirstOfNone ==
    ASSUME NEW u, NEW c, NEW z, \A j \in DOMAIN c : ~Get(u, c[j][1])
    PROVE  FirstOf(u, c, z) = z
  BY DEF FirstOf

LEMMA FirstOfTwo ==
    ASSUME NEW u, NEW a, NEW x, NEW b, NEW y, NEW z
    PROVE  FirstOf(u, << <<a, x>>, <<b, y>> >>, z)
               = IF Get(u, a) THEN x ELSE IF Get(u, b) THEN y ELSE z
<1> DEFINE c == << <<a, x>>, <<b, y>> >>
<1>1. /\ DOMAIN c = {1, 2} /\ c[1][1] = a /\ c[1][2] = x /\ c[2][1] = b /\ c[2][2] = y
  OBVIOUS
<1> HIDE DEF c
<1>2. CASE Get(u, a)
  BY <1>1, <1>2, FirstOfGiven DEF c
<1>3. CASE ~Get(u, a) /\ Get(u, b)
  BY <1>1, <1>3, FirstOfGiven DEF c
<1>4. CASE ~Get(u, a) /\ ~Get(u, b)
  BY <1>1, <1>4, FirstOfNone DEF c
<1> QED BY <1>2, <1>3, <1>4

LEMMA FirstOfThree ==
    ASSUME NEW u, NEW a, NEW x, NEW b, NEW y, NEW d, NEW w, NEW z
    PROVE  FirstOf(u, << <<a, x>>, <<b, y>>, <<d, w>> >>, z)
               = IF Get(u, a) THEN x ELSE IF Get(u, b) THEN y ELSE IF Get(u, d) THEN w ELSE z
<1> DEFINE c == << <<a, x>>, <<b, y>>, <<d, w>> >>
<1>1. /\ DOMAIN c = {1, 2, 3} /\ c[1][1] = a /\ c[1][2] = x /\ c[2][1] = b /\ c[2][2] = y
      /\ c[3][1] = d /\ c[3][2] = w
  OBVIOUS
<1> HIDE DEF c
<1>2. CASE Get(u, a)
  BY <1>1, <1>2, FirstOfGiven DEF c
<1>3. CASE ~Get(u, a) /\ Get(u, b)
  BY <1>1, <1>3, FirstOfGiven DEF c
<1>4. CASE ~Get(u, a) /\ ~Get(u, b) /\ Get(u, d)
  BY <1>1, <1>4, FirstOfGiven DEF c
<1>5. CASE ~Get(u, a) /\ ~Get(u, b) /\ ~Get(u, d)
  BY <1>1, <1>5, FirstOfNone DEF c
<1> QED BY <1>2, <1>3, <1>4, <1>5

\* What the routes of a URL are, without the order of the choices.
LEMMA RouteOfObject ==
    ASSUME NEW u \in Urls
    PROVE  /\ u.verb = "GET" => ObjectRoute(u) =
                  IF Get(u, "uploadId") THEN "ListParts"
                  ELSE IF Get(u, "versionId") THEN "GetObjectVersion"
                  ELSE IF HasKey(u) THEN "GetObject" ELSE "ListObjectsV2"
           /\ u.verb = "DELETE" => ObjectRoute(u) =
                  IF Get(u, "uploadId") THEN "AbortMultipartUpload"
                  ELSE IF Get(u, "versionId") THEN "DeleteObjectVersion"
                  ELSE IF HasKey(u) THEN "DeleteObject" ELSE "DeleteBucket"
           /\ u.verb = "HEAD" => ObjectRoute(u) = IF HasKey(u) THEN "HeadObject" ELSE "HeadBucket"
           /\ u.verb = "PUT" /\ HasKey(u) => ObjectRoute(u) \in {"UploadPart", "PutObject"}
           /\ u.verb = "POST" => ObjectRoute(u) \in {"CompleteMultipartUpload", "DeleteObjects",
                                       "ListMultipartUploads", "InitiateMultipartUpload"}
<1> DEFINE gets == IF HasKey(u) THEN "GetObject" ELSE "ListObjectsV2"
           deletes == IF HasKey(u) THEN "DeleteObject" ELSE "DeleteBucket"
<1>1. CASE u.verb = "GET"
  <2>1. ObjectRoute(u) = FirstOf(u, ReadsById, gets)
    BY <1>1 DEF ObjectRoute
  <2> HIDE DEF gets
  <2>2. ObjectRoute(u) = IF Get(u, "uploadId") THEN "ListParts"
                         ELSE IF Get(u, "versionId") THEN "GetObjectVersion" ELSE gets
    BY <2>1, FirstOfTwo DEF ReadsById
  <2> QED BY <1>1, <2>2 DEF gets
<1>2. CASE u.verb = "DELETE"
  <2>1. ObjectRoute(u) = FirstOf(u, DeletesById, deletes)
    BY <1>2 DEF ObjectRoute
  <2> HIDE DEF deletes
  <2>2. ObjectRoute(u) = IF Get(u, "uploadId") THEN "AbortMultipartUpload"
                         ELSE IF Get(u, "versionId") THEN "DeleteObjectVersion" ELSE deletes
    BY <2>1, FirstOfTwo DEF DeletesById
  <2> QED BY <1>2, <2>2 DEF deletes
<1>3. CASE u.verb = "HEAD"
  BY <1>3 DEF ObjectRoute
<1>4. CASE u.verb = "PUT"
  BY <1>4 DEF ObjectRoute
<1>5. CASE u.verb = "POST"
  BY <1>5 DEF ObjectRoute, PostObject
<1>6. u.verb \in Verbs
  BY DEF Urls, Url
<1> QED BY <1>1, <1>2, <1>3, <1>4, <1>5, <1>6 DEF Verbs

LEMMA RouteOfBucket ==
    ASSUME NEW u \in Urls
    PROVE  /\ u.verb = "GET" => BucketRoute(u) \in {"ListMultipartUploads", "GetVersioning",
                                                    "ListObjectVersions", "ListObjectsV2"}
           /\ u.verb = "HEAD" => BucketRoute(u) = "HeadBucket"
<1>1. CASE u.verb = "GET"
  <2>1. BucketRoute(u) = FirstOf(u, << <<"uploads", "ListMultipartUploads">>,
                                       <<"versioning", "GetVersioning">>,
                                       <<"versions", "ListObjectVersions">> >>, "ListObjectsV2")
    BY <1>1 DEF BucketRoute
  <2> QED BY <1>1, <2>1, FirstOfThree
<1>2. CASE u.verb = "HEAD"
  BY <1>2 DEF BucketRoute
<1> QED BY <1>1, <1>2

\* The same as RoutesKeepKind, of any URL.
LEMMA RouteKeepsKind ==
    ASSUME NEW u \in Urls
    PROVE  LET op == Route(u) IN
           /\ u.verb \in {"GET", "HEAD"} =>
                 op \in {"Health", "ListBuckets", "ListObjectsV2", "ListMultipartUploads",
                         "GetVersioning", "ListObjectVersions", "ListParts", "GetObject",
                         "GetObjectVersion", "HeadObject", "HeadBucket", "MethodNotAllowed"}
           /\ u.path = "key" => op \notin {"CreateBucket", "DeleteBucket", "HeadBucket",
                                           "ListObjectsV2", "EnableVersioning", "ListBuckets"}
           /\ u.path = "key" /\ u.verb \in {"GET", "DELETE"} =>
                 /\ Get(u, "uploadId") <=> op \in {"ListParts", "AbortMultipartUpload"}
                 /\ Get(u, "versionId") => op \notin {"GetObject", "DeleteObject"}
<1>1. u.verb \in Verbs /\ u.path \in Paths
  BY DEF Urls, Url
<1>2. CASE u.path = "key"
  <2>1. Pattern(u) = "object" /\ HasKey(u)
    BY <1>2 DEF Pattern, HasKey
  <2>2. Route(u) = ObjectRoute(u)
    BY <2>1 DEF Route
  <2>3. CASE u.verb = "GET"
    BY <2>1, <2>2, <2>3, RouteOfObject
  <2>4. CASE u.verb = "DELETE"
    BY <2>1, <2>2, <2>4, RouteOfObject
  <2>5. CASE u.verb = "HEAD"
    BY <2>1, <2>2, <2>5, RouteOfObject
  <2>6. CASE u.verb = "PUT"
    BY <2>1, <2>2, <2>6, RouteOfObject
  <2>7. CASE u.verb = "POST"
    BY <2>1, <2>2, <2>7, RouteOfObject
  <2> QED BY <1>1, <2>3, <2>4, <2>5, <2>6, <2>7 DEF Verbs
<1>3. CASE u.path # "key" /\ u.verb \in {"GET", "HEAD"}
  <2>1. Pattern(u) \in {"/health", "/", "bucket", "object"}
    BY <1>1, <1>3 DEF Pattern, Paths
  <2>2. CASE Pattern(u) = "/health"
    BY <1>3, <2>2 DEF Route
  <2>3. CASE Pattern(u) = "/"
    BY <1>3, <2>3 DEF Route
  <2>4. CASE Pattern(u) = "bucket"
    <3>1. Route(u) = BucketRoute(u)
      BY <2>4 DEF Route
    <3> QED BY <1>3, <3>1, RouteOfBucket
  <2>5. CASE Pattern(u) = "object"
    <3>1. Route(u) = ObjectRoute(u)
      BY <2>5 DEF Route
    <3> QED BY <1>3, <3>1, RouteOfObject
  <2> QED BY <2>1, <2>2, <2>3, <2>4, <2>5
<1> QED BY <1>2, <1>3

\* What reads changes nothing, the path of an object never leads to an operation on the
\* bucket, and an upload or version id never to the object itself where it is read or
\* deleted: for every URL, whatever requests there are.
THEOREM RoutesKeepTheirKind == ServerSpec => []RoutesKeepKind
<1>1. RoutesKeepKind
  BY RouteKeepsKind DEF RoutesKeepKind
<1> QED BY <1>1, PTL

-----------------------------------------------------------------------------
(* The caps of a backend, when requests to /admin/caps come one at a time: *)
(* nothing in the code serialises them, and two at once can leave a        *)
(* mixture of their caps in force.                                         *)

OneAdmin == \A a, b \in Admins : a = b

\* The slots of the one limiter, where there is one.
Buckets == limiter[1]

OneLimiter ==
    /\ Len(limiter) <= 1
    /\ current = Len(limiter)
    /\ current = Nil => \A a \in Admins : admin[a].at \in {"idle", "make"}
    /\ \A a \in Admins : admin[a].at = "make" => current = Nil

\* No bucket is in two slots.
DistinctBuckets ==
    current # Nil =>
        \A m, n \in SlotNames : Buckets[m] = Buckets[n] /\ Buckets[m] # Nil => m = n

\* A request that is at a slot knows what is in it, and one that is about to clear
\* it has no cap for it and has disabled its bucket.
KnowsItsSlot ==
    \A a \in Admins :
        LET n == Slots[admin[a].slot]
            b == admin[a].found
        IN  /\ admin[a].at \in {"apply", "clear"} => b = Buckets[n]
            /\ admin[a].at = "clear" =>
                  admin[a].caps[n] = Off /\ (b # Nil => rate[b] = Off)

\* The caps in force, as a function.
CapsInForce == [n \in SlotNames |-> InForce(n)]

\* The slots it has passed have its caps.
PassedSlots ==
    \A a \in Admins : admin[a].at \in {"look", "apply", "clear"} =>
        \A i \in 1..(admin[a].slot - 1) : CapsInForce[Slots[i]] = admin[a].caps[Slots[i]]

IdleSlots == ~Busy => \A n \in SlotNames : CapsInForce[n] = asked[n]

\* A bucket that a stream holds is in the slot the stream took it from, or it is
\* in no slot and throttles nobody.
HeldBuckets ==
    \A s \in Streams : \A n \in SlotNames :
        LET b == stream[s].held[n] IN
            b # Nil =>
                /\ current # Nil
                /\ \A m \in SlotNames : Buckets[m] = b => m = n
                /\ Buckets[n] # b => rate[b] = Off

CapsInv ==
    /\ CapsTypeOK
    /\ OneLimiter
    /\ DistinctBuckets
    /\ KnowsItsSlot
    /\ PassedSlots
    /\ IdleSlots
    /\ HeldBuckets

AdminType == [at : {"idle", "make", "look", "apply", "clear"}, caps : Caps,
              lim : 0..Len(limiter), slot : 1..Len(Slots), found : 0..Len(rate)]

StreamType == [at : {"idle", "direction", "combined", "open"},
               way : {"download", "upload"}, lim : 0..Len(limiter),
               held : [SlotNames -> 0..Len(rate)]]

-----------------------------------------------------------------------------
LEMMA SlotFacts ==
    /\ Len(Slots) = 3
    /\ \A i \in 1..3 : Slots[i] \in SlotNames
    /\ \A i, j \in 1..3 : Slots[i] = Slots[j] => i = j
    /\ \A n \in SlotNames : \E i \in 1..3 : Slots[i] = n
<1>1. Len(Slots) = 3 /\ Slots[1] = "download" /\ Slots[2] = "upload" /\ Slots[3] = "combined"
  BY DEF Slots
<1>2. \A i \in 1..3 : i = 1 \/ i = 2 \/ i = 3
  OBVIOUS
<1> QED BY <1>1, <1>2 DEF SlotNames

\* A sequence of one element, and what is put in its place.
LEMMA SingleElement ==
    ASSUME NEW S, NEW s \in Seq(S), Len(s) = 1
    PROVE  s[1] \in S
  OBVIOUS

LEMMA ReplaceSingle ==
    ASSUME NEW S, NEW s \in Seq(S), Len(s) = 1, NEW x
    PROVE  [s EXCEPT ![1] = x] = <<x>>
<1> DEFINE t == [s EXCEPT ![1] = x]
<1>1. s \in Seq(S \cup {x})
  OBVIOUS
<1>2. t \in Seq(S \cup {x}) /\ Len(t) = 1 /\ t[1] = x
  BY <1>1, ExceptSeq
<1>3. <<x>> \in Seq(S \cup {x}) /\ Len(<<x>>) = 1 /\ <<x>>[1] = x
  OBVIOUS
<1> HIDE DEF t
<1>4. \A i \in 1..Len(t) : t[i] = <<x>>[i]
  BY <1>2, <1>3
<1>5. t = <<x>>
  BY <1>2, <1>3, <1>4, SeqEqual
<1> QED BY <1>5 DEF t

\* The buckets that are made for caps: they have the rates of the caps, each slot
\* with a cap has its own, and there are none without a cap.
LEMMA NewBucketsFacts ==
    ASSUME NEW made \in Nat, NEW caps \in Caps
    PROVE  LET new == NewBuckets(made, caps) IN
           /\ new.rates \in Seq(Rates \cup {Off})
           /\ new.slots \in [SlotNames -> 0..(made + Len(new.rates))]
           /\ \A n \in SlotNames :
                 \/ caps[n] = Off /\ new.slots[n] = Nil
                 \/ /\ new.slots[n] - made \in 1..Len(new.rates)
                    /\ new.rates[new.slots[n] - made] = caps[n]
           /\ \A m, n \in SlotNames :
                 new.slots[m] = new.slots[n] /\ new.slots[m] # Nil => m = n
           /\ caps = NoCaps => new.rates = <<>>
<1> DEFINE x == caps["download"]
           y == caps["upload"]
           z == caps["combined"]
           down == OneBucket(x)
           up == OneBucket(y)
           comb == OneBucket(z)
           rates == (down \o up) \o comb
           before == [download |-> 0, upload |-> Len(down), combined |-> Len(down) + Len(up)]
           slots == [s \in SlotNames |-> IF caps[s] = Off THEN Nil ELSE made + before[s] + 1]
<1>1. NewBuckets(made, caps).rates = rates /\ NewBuckets(made, caps).slots = slots
  BY DEF NewBuckets
<1>2. x \in Rates \cup {Off} /\ y \in Rates \cup {Off} /\ z \in Rates \cup {Off}
  BY DEF Caps, SlotNames
<1>3. \A cap \in Rates \cup {Off} :
         /\ OneBucket(cap) \in Seq(Rates \cup {Off})
         /\ IF cap = Off THEN OneBucket(cap) = <<>> /\ Len(OneBucket(cap)) = 0
            ELSE Len(OneBucket(cap)) = 1 /\ OneBucket(cap)[1] = cap
  <2> SUFFICES ASSUME NEW cap \in Rates \cup {Off}
               PROVE  /\ OneBucket(cap) \in Seq(Rates \cup {Off})
                      /\ IF cap = Off THEN OneBucket(cap) = <<>> /\ Len(OneBucket(cap)) = 0
                         ELSE Len(OneBucket(cap)) = 1 /\ OneBucket(cap)[1] = cap
    OBVIOUS
  <2>1. CASE cap = Off
    <3>1. OneBucket(cap) = <<>>
      BY <2>1 DEF OneBucket
    <3> QED BY <2>1, <3>1
  <2>2. CASE cap # Off
    <3>1. OneBucket(cap) = <<cap>>
      BY <2>2 DEF OneBucket
    <3> QED BY <2>2, <3>1
  <2> QED BY <2>1, <2>2
<1> HIDE DEF x, y, z
<1> HIDE DEF down, up, comb
<1>4. /\ down \in Seq(Rates \cup {Off}) /\ up \in Seq(Rates \cup {Off}) /\ comb \in Seq(Rates \cup {Off})
      /\ IF x = Off THEN down = <<>> /\ Len(down) = 0 ELSE Len(down) = 1 /\ down[1] = x
      /\ IF y = Off THEN up = <<>> /\ Len(up) = 0 ELSE Len(up) = 1 /\ up[1] = y
      /\ IF z = Off THEN comb = <<>> /\ Len(comb) = 0 ELSE Len(comb) = 1 /\ comb[1] = z
  BY <1>2, <1>3 DEF down, up, comb
<1>5. /\ rates \in Seq(Rates \cup {Off}) /\ Len(rates) = Len(down) + Len(up) + Len(comb)
      /\ x # Off => rates[1] = x
      /\ y # Off => rates[Len(down) + 1] = y
      /\ z # Off => rates[Len(down) + Len(up) + 1] = z
  BY <1>4
<1> HIDE DEF rates
<1>6. /\ slots["download"] = IF x = Off THEN Nil ELSE made + 1
      /\ slots["upload"] = IF y = Off THEN Nil ELSE made + Len(down) + 1
      /\ slots["combined"] = IF z = Off THEN Nil ELSE made + (Len(down) + Len(up)) + 1
  BY <1>4 DEF SlotNames, x, y, z
<1>7. \A n \in SlotNames :
         \/ caps[n] = Off /\ slots[n] = Nil
         \/ slots[n] - made \in 1..Len(rates) /\ rates[slots[n] - made] = caps[n]
  <2> HIDE DEF slots
  <2>1. \/ x = Off /\ slots["download"] = Nil
        \/ slots["download"] - made \in 1..Len(rates) /\ rates[slots["download"] - made] = x
    BY <1>4, <1>5, <1>6 DEF Nil
  <2>2. \/ y = Off /\ slots["upload"] = Nil
        \/ slots["upload"] - made \in 1..Len(rates) /\ rates[slots["upload"] - made] = y
    BY <1>4, <1>5, <1>6 DEF Nil
  <2>3. \/ z = Off /\ slots["combined"] = Nil
        \/ slots["combined"] - made \in 1..Len(rates) /\ rates[slots["combined"] - made] = z
    BY <1>4, <1>5, <1>6 DEF Nil
  <2> QED BY <2>1, <2>2, <2>3 DEF SlotNames, x, y, z
<1>8. slots \in [SlotNames -> 0..(made + Len(rates))]
  <2>1. \A n \in SlotNames : slots[n] \in 0..(made + Len(rates))
    BY <1>4, <1>5, <1>6 DEF SlotNames, Nil
  <2> QED BY <2>1
<1>9. \A m, n \in SlotNames : slots[m] = slots[n] /\ slots[m] # Nil => m = n
  <2> HIDE DEF slots
  <2> QED BY <1>4, <1>6 DEF SlotNames, Nil
<1>10. caps = NoCaps => rates = <<>>
  <2>1. caps = NoCaps => x = Off /\ y = Off /\ z = Off
    BY DEF NoCaps, SlotNames, x, y, z
  <2> QED BY <1>4, <2>1 DEF rates
<1> QED BY <1>1, <1>5, <1>7, <1>8, <1>9, <1>10

-----------------------------------------------------------------------------
\* What holds while a request is at a slot.
LEMMA AtSlot ==
    ASSUME CapsInv, NEW a \in Admins, admin[a].at \in {"look", "apply", "clear"}
    PROVE  /\ current = 1 /\ Len(limiter) = 1 /\ admin[a].lim = 1
           /\ limiter \in Seq([SlotNames -> 0..Len(rate)])
           /\ Buckets \in [SlotNames -> 0..Len(rate)]
           /\ admin[a].slot \in 1..3 /\ Slots[admin[a].slot] \in SlotNames
           /\ admin[a].caps \in Caps /\ admin[a].found \in 0..Len(rate)
           /\ admin \in [Admins -> AdminType]
<1>1. /\ CapsTypeOK /\ admin \in [Admins -> AdminType]
  BY DEF CapsInv, CapsTypeOK, AdminType
<1>2. Len(limiter) <= 1 /\ current = Len(limiter) /\ current # Nil
  BY DEF CapsInv, OneLimiter
<1>3. current = 1 /\ Len(limiter) = 1
  <2>1. Len(limiter) \in Nat
    BY <1>1 DEF CapsTypeOK
  <2> QED BY <1>2, <2>1 DEF Nil
<1>4. admin[a].lim \in 0..1 /\ admin[a].lim # Nil
  <2>1. admin[a] \in AdminType
    BY <1>1
  <2>2. admin[a].lim # Nil
    BY <1>1 DEF CapsTypeOK
  <2> QED BY <1>3, <2>1, <2>2 DEF AdminType
<1>5. Buckets \in [SlotNames -> 0..Len(rate)] /\ limiter \in Seq([SlotNames -> 0..Len(rate)])
  <2>1. limiter \in Seq([SlotNames -> 0..Len(rate)])
    BY <1>1 DEF CapsTypeOK
  <2> QED BY <1>3, <2>1, SingleElement DEF Buckets
<1> QED BY <1>1, <1>3, <1>4, <1>5, SlotFacts DEF Nil, AdminType

\* The cap in force in a slot, when there is a limiter.
LEMMA ForceOfBucket ==
    ASSUME current = 1, NEW n \in SlotNames
    PROVE  CapsInForce[n] = IF Buckets[n] = Nil THEN Off ELSE rate[Buckets[n]]
  BY DEF CapsInForce, InForce, Buckets, Nil

\* A request that has dealt with its slot, and left the earlier ones alone, goes to
\* the next one, or it is done and its caps are in force.
LEMMA AdvanceKeeps ==
    ASSUME CapsInv, OneAdmin, NEW a \in Admins, admin[a].at \in {"apply", "clear"},
           Advance(a), UNCHANGED <<current, stream>>,
           rate' \in Seq(Rates \cup {Off}), Len(rate') >= Len(rate),
           Len(limiter') = 1, limiter' \in Seq([SlotNames -> 0..Len(rate')]),
           \A i \in 1..(admin[a].slot - 1) : CapsInForce'[Slots[i]] = CapsInForce[Slots[i]],
           CapsInForce'[Slots[admin[a].slot]] = admin[a].caps[Slots[admin[a].slot]]
    PROVE  CapsTypeOK' /\ OneLimiter' /\ KnowsItsSlot' /\ PassedSlots' /\ IdleSlots'
<1> USE DEF CapsInv
<1> DEFINE k == admin[a].slot
           caps == admin[a].caps
<1>1. /\ current = 1 /\ Len(limiter) = 1 /\ k \in 1..3 /\ caps \in Caps
      /\ admin \in [Admins -> AdminType] /\ CapsTypeOK
  BY AtSlot
<1>2. \A b \in Admins : b = a
  BY DEF OneAdmin
<1>3. \A i \in 1..k : CapsInForce'[Slots[i]] = caps[Slots[i]]
  <2>1. \A i \in 1..(k - 1) : CapsInForce[Slots[i]] = caps[Slots[i]]
    BY <1>1 DEF PassedSlots
  <2>2. \A i \in 1..k : i = k \/ i \in 1..(k - 1)
    BY <1>1
  <2> QED BY <2>1, <2>2
<1>4. Len(rate) \in Nat /\ Len(rate') \in Nat
  BY <1>1 DEF CapsTypeOK
<1>5. stream' \in [Streams -> StreamType'] /\ \A s \in Streams : stream'[s] = stream[s]
  BY <1>1, <1>4 DEF CapsTypeOK, StreamType
<1>6. CASE k = 3
  <2>1. admin' = [admin EXCEPT ![a] = IdleAdmin] /\ asked' = caps
    BY <1>6, SlotFacts DEF Advance
  <2>2. IdleAdmin \in AdminType'
    BY <1>4, SlotFacts DEF IdleAdmin, AdminType, NoCaps, Caps, Nil
  <2>3. admin' \in [Admins -> AdminType'] /\ \A b \in Admins : admin'[b] = IdleAdmin
    BY <1>1, <1>2, <2>1, <2>2
  <2>4. IdleAdmin.at = "idle"
    BY DEF IdleAdmin
  <2>5. CapsTypeOK'
    BY <1>1, <1>5, <2>1, <2>3, <2>4 DEF CapsTypeOK, AdminType, StreamType
  <2>6. IdleSlots'
    <3>1. \A n \in SlotNames : CapsInForce'[n] = caps[n]
      BY <1>3, <1>6, SlotFacts
    <3> QED BY <2>1, <3>1 DEF IdleSlots
  <2> QED BY <1>1, <2>3, <2>4, <2>5, <2>6 DEF OneLimiter, KnowsItsSlot, PassedSlots
<1>7. CASE k # 3
  <2> DEFINE next == [admin[a] EXCEPT !.slot = @ + 1, !.at = "look"]
  <2>1. admin' = [admin EXCEPT ![a] = next] /\ asked' = asked
    BY <1>1, <1>7, SlotFacts DEF Advance
  <2>2. admin[a] \in AdminType
    BY <1>1
  <2>3. next \in AdminType' /\ next.at = "look" /\ next.slot = k + 1 /\ next.caps = caps
        /\ next.lim = admin[a].lim
    <3>1. admin[a].found \in 0..Len(rate') /\ admin[a].lim \in 0..Len(limiter')
      BY <1>1, <1>4, <2>2 DEF AdminType
    <3>2. k + 1 \in 1..Len(Slots)
      BY <1>1, <1>7, SlotFacts
    <3> QED BY <2>2, <3>1, <3>2 DEF AdminType
  <2> HIDE DEF next
  <2>4. admin' \in [Admins -> AdminType'] /\ \A b \in Admins : admin'[b] = next
    BY <1>1, <1>2, <2>1, <2>3
  <2>5. CapsTypeOK'
    <3>1. admin[a].lim # Nil
      BY <1>1 DEF CapsTypeOK
    <3> QED BY <1>1, <1>5, <2>1, <2>3, <2>4, <3>1 DEF CapsTypeOK, AdminType, StreamType
  <2>6. OneLimiter'
    BY <1>1, <2>3, <2>4 DEF OneLimiter, Nil
  <2>7. PassedSlots'
    <3>1. next.slot - 1 = k
      BY <1>1, <2>3
    <3> QED BY <1>3, <2>3, <2>4, <3>1 DEF PassedSlots
  <2>8. KnowsItsSlot'
    BY <2>3, <2>4 DEF KnowsItsSlot
  <2>9. Busy'
    BY <2>3, <2>4 DEF Busy
  <2> QED BY <2>5, <2>6, <2>7, <2>8, <2>9 DEF IdleSlots
<1> QED BY <1>6, <1>7

LEMMA RequestStep ==
    ASSUME CapsInv, OneAdmin, NEW a \in Admins, Request(a)
    PROVE  CapsInv'
<1> USE DEF CapsInv
<1>1. CapsTypeOK /\ UNCHANGED <<rate, limiter, current, stream, asked>> /\ \A b \in Admins : b = a
  BY DEF Request, OneAdmin
<1>2. PICK caps \in Caps :
         admin' = [admin EXCEPT ![a] = [at |-> IF current = Nil THEN "make" ELSE "look",
                                        caps |-> caps, lim |-> current, slot |-> 1, found |-> Nil]]
  BY DEF Request, Valid
<1> DEFINE new == [at |-> IF current = Nil THEN "make" ELSE "look",
                   caps |-> caps, lim |-> current, slot |-> 1, found |-> Nil]
<1>3. new \in AdminType
  <2>1. current \in 0..Len(limiter) /\ Nil \in 0..Len(rate) /\ 1 \in 1..Len(Slots)
    BY <1>1, SlotFacts DEF CapsTypeOK, Nil
  <2> QED BY <2>1 DEF AdminType
<1>4. admin' \in [Admins -> AdminType] /\ \A b \in Admins : admin'[b] = new
  BY <1>1, <1>2, <1>3 DEF CapsTypeOK, AdminType
<1>5. CapsTypeOK'
  BY <1>1, <1>4 DEF CapsTypeOK, AdminType
<1>6. OneLimiter' /\ DistinctBuckets' /\ HeldBuckets'
  BY <1>1, <1>4 DEF OneLimiter, DistinctBuckets, HeldBuckets, Buckets
<1>7. KnowsItsSlot' /\ PassedSlots'
  BY <1>4 DEF KnowsItsSlot, PassedSlots
<1>8. Busy'
  BY <1>4 DEF Busy
<1> QED BY <1>5, <1>6, <1>7, <1>8 DEF IdleSlots

LEMMA MakeStep ==
    ASSUME CapsInv, OneAdmin, NEW a \in Admins, Make(a)
    PROVE  CapsInv'
<1> USE DEF CapsInv
<1> DEFINE caps == admin[a].caps
           new == NewBuckets(Len(rate), caps)
<1>1. /\ CapsTypeOK /\ \A b \in Admins : b = a
      /\ current = 0 /\ Len(limiter) = 0 /\ limiter = <<>>
      /\ caps \in Caps /\ Len(rate) \in Nat /\ rate \in Seq(Rates \cup {Off})
  BY DEF Make, OneAdmin, OneLimiter, CapsTypeOK, Nil
<1>2. /\ new.rates \in Seq(Rates \cup {Off})
      /\ new.slots \in [SlotNames -> 0..(Len(rate) + Len(new.rates))]
      /\ \A n \in SlotNames :
            \/ caps[n] = Off /\ new.slots[n] = Nil
            \/ /\ new.slots[n] - Len(rate) \in 1..Len(new.rates)
               /\ new.rates[new.slots[n] - Len(rate)] = caps[n]
      /\ \A m, n \in SlotNames : new.slots[m] = new.slots[n] /\ new.slots[m] # Nil => m = n
  BY <1>1, NewBucketsFacts
<1> HIDE DEF new
<1>3. /\ rate' = rate \o new.rates /\ asked' = caps
      /\ admin' = [admin EXCEPT ![a] = IdleAdmin]
      /\ UNCHANGED stream
  BY DEF Make, new
<1>4. /\ rate' \in Seq(Rates \cup {Off}) /\ Len(rate') = Len(rate) + Len(new.rates)
      /\ \A i \in 1..Len(new.rates) : rate'[Len(rate) + i] = new.rates[i]
  BY <1>1, <1>2, <1>3
<1>5. \/ caps = NoCaps /\ current' = 0 /\ limiter' = <<>>
      \/ caps # NoCaps /\ current' = 1 /\ limiter' = <<new.slots>>
  BY <1>1 DEF Make, new, Nil
<1>6. limiter' \in Seq([SlotNames -> 0..Len(rate')]) /\ Len(limiter') = current' /\ current' \in 0..1
  <2>1. new.slots \in [SlotNames -> 0..Len(rate')]
    BY <1>2, <1>4
  <2>2. CASE limiter' = <<>> /\ current' = 0
    BY <2>2
  <2>3. CASE limiter' = <<new.slots>> /\ current' = 1
    BY <2>1, <2>3
  <2> QED BY <1>5, <2>2, <2>3
<1>7. IdleAdmin \in AdminType' /\ IdleAdmin.at = "idle"
  BY <1>4, <1>6, SlotFacts DEF IdleAdmin, AdminType, NoCaps, Caps, Nil
<1>8. admin' \in [Admins -> AdminType'] /\ \A b \in Admins : admin'[b] = IdleAdmin
  BY <1>1, <1>3, <1>7 DEF CapsTypeOK
<1>9. /\ stream' \in [Streams -> StreamType']
      /\ \A s \in Streams : stream[s].at \in {"direction", "combined"} => stream[s].lim # Nil
      /\ \A s \in Streams : \A n \in SlotNames : stream[s].held[n] = Nil
  <2>1. \A s \in Streams : \A n \in SlotNames : stream[s].held[n] = Nil
    BY <1>1 DEF HeldBuckets, Nil
  <2>2. stream \in [Streams -> StreamType]
    BY <1>1 DEF CapsTypeOK, StreamType
  <2> QED BY <1>1, <1>3, <1>4, <1>6, <2>1, <2>2 DEF CapsTypeOK, StreamType
<1>10. CapsTypeOK'
  BY <1>1, <1>3, <1>4, <1>6, <1>7, <1>8, <1>9 DEF CapsTypeOK, AdminType, StreamType
<1>11. OneLimiter' /\ KnowsItsSlot' /\ PassedSlots'
  BY <1>6, <1>7, <1>8 DEF OneLimiter, KnowsItsSlot, PassedSlots
<1>12. DistinctBuckets'
  BY <1>2, <1>5 DEF DistinctBuckets, Buckets, Nil
<1>13. HeldBuckets'
  BY <1>3, <1>9 DEF HeldBuckets
<1>14. IdleSlots'
  <2>1. CASE caps = NoCaps
    BY <1>3, <1>5, <2>1 DEF IdleSlots, CapsInForce, InForce, NoCaps, Nil
  <2>2. CASE caps # NoCaps
    <3>1. \A n \in SlotNames : CapsInForce'[n] = IF new.slots[n] = Nil THEN Off ELSE rate'[new.slots[n]]
      BY <1>5, <2>2 DEF CapsInForce, InForce, Nil
    <3>2. ASSUME NEW n \in SlotNames PROVE CapsInForce'[n] = caps[n]
      <4>1. CASE caps[n] = Off /\ new.slots[n] = Nil
        BY <3>1, <4>1
      <4>2. CASE /\ new.slots[n] - Len(rate) \in 1..Len(new.rates)
                 /\ new.rates[new.slots[n] - Len(rate)] = caps[n]
        <5> DEFINE i == new.slots[n] - Len(rate)
        <5>1. new.slots[n] \in Nat
          BY <1>2, <1>4
        <5>2. i \in 1..Len(new.rates) /\ Len(rate) + i = new.slots[n] /\ new.slots[n] # Nil
          BY <1>1, <4>2, <5>1 DEF Nil
        <5> QED BY <1>4, <3>1, <4>2, <5>2
      <4> QED BY <1>2, <4>1, <4>2
    <3> QED BY <1>3, <3>2 DEF IdleSlots
  <2> QED BY <2>1, <2>2
<1> QED BY <1>10, <1>11, <1>12, <1>13, <1>14

LEMMA LookStep ==
    ASSUME CapsInv, OneAdmin, NEW a \in Admins, Look(a)
    PROVE  CapsInv'
<1> USE DEF CapsInv
<1> DEFINE n == Slots[admin[a].slot]
           new == [admin[a] EXCEPT !.at = "apply", !.found = Buckets[n]]
<1>1. /\ CapsTypeOK /\ UNCHANGED <<rate, limiter, current, stream, asked>>
      /\ \A b \in Admins : b = a
      /\ admin[a].at = "look"
  BY DEF Look, OneAdmin
<1>2. /\ current = 1 /\ admin[a].lim = 1
      /\ Buckets \in [SlotNames -> 0..Len(rate)] /\ n \in SlotNames
      /\ admin \in [Admins -> AdminType]
  BY <1>1, AtSlot
<1>3. admin' = [admin EXCEPT ![a] = new]
  BY <1>2 DEF Look, Buckets
<1>4. /\ new \in AdminType /\ new.at = "apply" /\ new.found = Buckets[n]
      /\ new.slot = admin[a].slot /\ new.caps = admin[a].caps /\ new.lim = 1
  <2>1. admin[a] \in AdminType
    BY <1>2
  <2> QED BY <1>2, <2>1 DEF AdminType
<1> HIDE DEF new
<1>5. admin' \in [Admins -> AdminType] /\ \A b \in Admins : admin'[b] = new
  BY <1>1, <1>2, <1>3, <1>4
<1>6. CapsTypeOK'
  BY <1>1, <1>4, <1>5 DEF CapsTypeOK, AdminType, Nil
<1>7. OneLimiter' /\ DistinctBuckets' /\ HeldBuckets'
  BY <1>1, <1>2, <1>4, <1>5 DEF OneLimiter, DistinctBuckets, HeldBuckets, Buckets, Nil
<1>8. KnowsItsSlot'
  BY <1>1, <1>4, <1>5 DEF KnowsItsSlot, Buckets
<1>9. PassedSlots'
  <2>1. CapsInForce' = CapsInForce
    BY <1>1 DEF CapsInForce, InForce
  <2>2. \A i \in 1..(admin[a].slot - 1) : CapsInForce[Slots[i]] = admin[a].caps[Slots[i]]
    BY <1>1 DEF PassedSlots
  <2> QED BY <1>4, <1>5, <2>1, <2>2 DEF PassedSlots
<1>10. Busy'
  BY <1>4, <1>5 DEF Busy
<1> QED BY <1>6, <1>7, <1>8, <1>9, <1>10 DEF IdleSlots

LEMMA DisableStep ==
    ASSUME CapsInv, OneAdmin, NEW a \in Admins, Disable(a)
    PROVE  CapsInv'
<1> USE DEF CapsInv
<1> DEFINE n == Slots[admin[a].slot]
           f == admin[a].found
           new == [admin[a] EXCEPT !.at = "clear"]
<1>1. /\ CapsTypeOK /\ UNCHANGED <<limiter, current, stream, asked>>
      /\ \A b \in Admins : b = a
      /\ admin[a].at = "apply" /\ admin[a].caps[n] = Off
  BY DEF Disable, OneAdmin
<1>2. /\ current = 1 /\ admin[a].lim = 1 /\ admin[a].slot \in 1..3
      /\ Buckets \in [SlotNames -> 0..Len(rate)] /\ n \in SlotNames
      /\ admin \in [Admins -> AdminType] /\ f \in 0..Len(rate)
      /\ f = Buckets[n]
  BY <1>1, AtSlot DEF KnowsItsSlot
<1>3. /\ rate' \in Seq(Rates \cup {Off}) /\ Len(rate') = Len(rate)
      /\ \A i \in 1..Len(rate) : rate'[i] = IF i = f THEN Off ELSE rate[i]
  <2>1. rate \in Seq(Rates \cup {Off}) /\ Off \in Rates \cup {Off}
    BY <1>1 DEF CapsTypeOK
  <2>2. CASE f = Nil
    BY <1>1, <2>1, <2>2 DEF Disable, Nil
  <2>3. CASE f # Nil
    <3>1. f \in 1..Len(rate) /\ rate' = [rate EXCEPT ![f] = Off]
      BY <1>2, <2>1, <2>3 DEF Disable, Nil
    <3> QED BY <2>1, <3>1
  <2> QED BY <2>2, <2>3
<1>4. /\ new \in AdminType /\ new.at = "clear" /\ new.found = f
      /\ new.slot = admin[a].slot /\ new.caps = admin[a].caps /\ new.lim = 1
  <2>1. admin[a] \in AdminType
    BY <1>2
  <2> QED BY <1>2, <2>1 DEF AdminType
<1>5. admin' \in [Admins -> AdminType] /\ \A b \in Admins : admin'[b] = new
  <2>1. admin' = [admin EXCEPT ![a] = new]
    BY <1>2 DEF Disable
  <2> HIDE DEF new
  <2> QED BY <1>1, <1>2, <1>4, <2>1
<1> HIDE DEF new
<1>6. CapsTypeOK'
  BY <1>1, <1>3, <1>4, <1>5 DEF CapsTypeOK, AdminType, Nil
<1>7. OneLimiter' /\ DistinctBuckets'
  BY <1>1, <1>2, <1>4, <1>5 DEF OneLimiter, DistinctBuckets, Buckets, Nil
<1>8. HeldBuckets'
  <2>1. \A s \in Streams : \A m \in SlotNames : stream[s].held[m] \in 0..Len(rate)
    BY <1>1 DEF CapsTypeOK
  <2>2. /\ Buckets' = Buckets /\ stream' = stream /\ current' = current
        /\ HeldBuckets
    BY <1>1 DEF Buckets
  <2>3. \A i \in 1..Len(rate) : rate[i] = Off => rate'[i] = Off
    BY <1>3
  <2> HIDE DEF f, n, new, SlotNames
  <2> QED BY <2>1, <2>2, <2>3 DEF HeldBuckets, Nil
<1>9. KnowsItsSlot'
  <2>1. Buckets' = Buckets
    BY <1>1 DEF Buckets
  <2>2. f # Nil => rate'[f] = Off
    BY <1>2, <1>3 DEF Nil
  <2> QED BY <1>1, <1>2, <1>4, <1>5, <2>1, <2>2 DEF KnowsItsSlot
<1>10. PassedSlots'
  <2>1. ASSUME NEW m \in SlotNames, m # n PROVE CapsInForce'[m] = CapsInForce[m]
    <3>1. Buckets' = Buckets /\ current' = 1
      BY <1>1, <1>2 DEF Buckets
    <3>2. CapsInForce'[m] = IF Buckets'[m] = Nil THEN Off ELSE rate'[Buckets'[m]]
      BY <3>1 DEF CapsInForce, InForce, Buckets, Nil
    <3>3. Buckets[m] # Nil => Buckets[m] # f /\ Buckets[m] \in 1..Len(rate)
      BY <1>2, <2>1 DEF DistinctBuckets, Nil
    <3> QED BY <1>2, <1>3, <3>1, <3>2, <3>3, ForceOfBucket
  <2>2. \A i \in 1..(admin[a].slot - 1) : Slots[i] \in SlotNames /\ Slots[i] # n
    BY <1>2, SlotFacts
  <2>3. \A i \in 1..(admin[a].slot - 1) : CapsInForce[Slots[i]] = admin[a].caps[Slots[i]]
    BY <1>1 DEF PassedSlots
  <2> QED BY <1>4, <1>5, <2>1, <2>2, <2>3 DEF PassedSlots
<1>11. Busy'
  BY <1>4, <1>5 DEF Busy
<1> QED BY <1>6, <1>7, <1>8, <1>9, <1>10, <1>11 DEF IdleSlots

LEMMA ClearSlotStep ==
    ASSUME CapsInv, OneAdmin, NEW a \in Admins, ClearSlot(a)
    PROVE  CapsInv'
<1> USE DEF CapsInv
<1> DEFINE n == Slots[admin[a].slot]
<1>1. /\ CapsTypeOK /\ UNCHANGED <<rate, current, stream>>
      /\ admin[a].at = "clear" /\ Advance(a)
  BY DEF ClearSlot
<1>2. /\ current = 1 /\ admin[a].lim = 1 /\ admin[a].slot \in 1..3 /\ Len(limiter) = 1
      /\ Buckets \in [SlotNames -> 0..Len(rate)] /\ n \in SlotNames
      /\ limiter \in Seq([SlotNames -> 0..Len(rate)])
  BY <1>1, AtSlot
<1>3. /\ admin[a].found = Buckets[n]
      /\ admin[a].caps[n] = Off /\ (Buckets[n] # Nil => rate[Buckets[n]] = Off)
  BY <1>1 DEF KnowsItsSlot
<1>4. /\ limiter' \in Seq([SlotNames -> 0..Len(rate')]) /\ Len(limiter') = 1
      /\ Buckets' = [Buckets EXCEPT ![n] = Nil]
  <2>1. limiter' = [limiter EXCEPT ![1] = [Buckets EXCEPT ![n] = Nil]]
    BY <1>2 DEF ClearSlot, Buckets
  <2>2. [Buckets EXCEPT ![n] = Nil] \in [SlotNames -> 0..Len(rate)]
    BY <1>1, <1>2 DEF CapsTypeOK, Nil
  <2>3. limiter' = <<[Buckets EXCEPT ![n] = Nil]>>
    BY <1>2, <2>1, ReplaceSingle
  <2> QED BY <1>1, <2>2, <2>3 DEF Buckets
<1>5. \A m \in SlotNames : CapsInForce'[m] = IF m = n THEN Off ELSE CapsInForce[m]
  <2>1. \A m \in SlotNames : CapsInForce'[m] = IF Buckets'[m] = Nil THEN Off ELSE rate'[Buckets'[m]]
    <3>1. current' = 1
      BY <1>1, <1>2
    <3> QED BY <3>1 DEF CapsInForce, InForce, Buckets, Nil
  <2>2. \A m \in SlotNames : Buckets'[m] = IF m = n THEN Nil ELSE Buckets[m]
    BY <1>2, <1>4
  <2>3. current = 1 /\ rate' = rate
    BY <1>1, <1>2
  <2> QED BY <2>1, <2>2, <2>3, ForceOfBucket
<1>6. CapsTypeOK' /\ OneLimiter' /\ KnowsItsSlot' /\ PassedSlots' /\ IdleSlots'
  <2>1. \A i \in 1..(admin[a].slot - 1) : CapsInForce'[Slots[i]] = CapsInForce[Slots[i]]
    <3>1. \A i \in 1..(admin[a].slot - 1) : Slots[i] \in SlotNames /\ Slots[i] # n
      BY <1>2, SlotFacts
    <3> QED BY <1>5, <3>1
  <2>2. CapsInForce'[n] = admin[a].caps[n]
    BY <1>2, <1>3, <1>5
  <2>3. rate' \in Seq(Rates \cup {Off}) /\ Len(rate') >= Len(rate)
    BY <1>1 DEF CapsTypeOK
  <2> QED BY <1>1, <1>4, <2>1, <2>2, <2>3, AdvanceKeeps
<1>7. DistinctBuckets'
  BY <1>1, <1>2, <1>4 DEF DistinctBuckets, Nil
<1>8. HeldBuckets'
  BY <1>1, <1>2, <1>3, <1>4 DEF HeldBuckets, Nil
<1> QED BY <1>6, <1>7, <1>8

LEMMA FillSlotStep ==
    ASSUME CapsInv, OneAdmin, NEW a \in Admins, FillSlot(a)
    PROVE  CapsInv'
<1> USE DEF CapsInv
<1> DEFINE n == Slots[admin[a].slot]
           cap == admin[a].caps[n]
           new == Len(rate) + 1
<1>1. /\ CapsTypeOK /\ UNCHANGED <<current, stream>>
      /\ admin[a].at = "apply" /\ Advance(a) /\ admin[a].found = Nil
  BY DEF FillSlot
<1>2. /\ current = 1 /\ admin[a].lim = 1 /\ admin[a].slot \in 1..3 /\ Len(limiter) = 1
      /\ Buckets \in [SlotNames -> 0..Len(rate)] /\ n \in SlotNames
      /\ limiter \in Seq([SlotNames -> 0..Len(rate)])
      /\ admin[a].caps \in Caps
  BY <1>1, AtSlot
<1>3. Buckets[n] = Nil
  BY <1>1 DEF KnowsItsSlot
<1>4. /\ rate' = Append(rate, cap) /\ cap \in Rates \cup {Off}
      /\ rate' \in Seq(Rates \cup {Off}) /\ Len(rate) \in Nat /\ Len(rate') = new
      /\ rate'[new] = cap /\ \A i \in 1..Len(rate) : rate'[i] = rate[i]
  BY <1>1, <1>2 DEF FillSlot, CapsTypeOK, Caps
<1>5. /\ limiter' \in Seq([SlotNames -> 0..Len(rate')]) /\ Len(limiter') = 1
      /\ Buckets' = [Buckets EXCEPT ![n] = new]
  <2>1. limiter' = [limiter EXCEPT ![1] = [Buckets EXCEPT ![n] = new]]
    BY <1>2 DEF FillSlot, Buckets
  <2>2. [Buckets EXCEPT ![n] = new] \in [SlotNames -> 0..Len(rate')]
    BY <1>2, <1>4
  <2>3. limiter' = <<[Buckets EXCEPT ![n] = new]>>
    BY <1>2, <2>1, ReplaceSingle
  <2> QED BY <2>2, <2>3 DEF Buckets
<1>6. \A m \in SlotNames : CapsInForce'[m] = IF m = n THEN cap ELSE CapsInForce[m]
  <2>1. \A m \in SlotNames : CapsInForce'[m] = IF Buckets'[m] = Nil THEN Off ELSE rate'[Buckets'[m]]
    <3>1. current' = 1
      BY <1>1, <1>2
    <3> QED BY <3>1 DEF CapsInForce, InForce, Buckets, Nil
  <2>2. CapsInForce'[n] = cap
    <3>1. Buckets'[n] = new
      BY <1>2, <1>5
    <3>2. new # Nil /\ rate'[new] = cap
      BY <1>4 DEF Nil
    <3>3. n \in SlotNames
      BY <1>2
    <3> HIDE DEF new, cap, n
    <3> QED BY <2>1, <3>1, <3>2, <3>3
  <2>3. ASSUME NEW m \in SlotNames, m # n PROVE CapsInForce'[m] = CapsInForce[m]
    <3>1. Buckets'[m] = Buckets[m] /\ (Buckets[m] # Nil => Buckets[m] \in 1..Len(rate))
      BY <1>2, <1>5, <2>3 DEF Nil
    <3> QED BY <1>2, <1>4, <2>1, <3>1, ForceOfBucket
  <2> QED BY <2>2, <2>3
<1>7. CapsTypeOK' /\ OneLimiter' /\ KnowsItsSlot' /\ PassedSlots' /\ IdleSlots'
  <2>1. \A i \in 1..(admin[a].slot - 1) : CapsInForce'[Slots[i]] = CapsInForce[Slots[i]]
    <3>1. \A i \in 1..(admin[a].slot - 1) : Slots[i] \in SlotNames /\ Slots[i] # n
      BY <1>2, SlotFacts
    <3> QED BY <1>6, <3>1
  <2>2. CapsInForce'[n] = cap
    BY <1>2, <1>6
  <2>3. Len(rate') >= Len(rate)
    BY <1>4
  <2> QED BY <1>1, <1>4, <1>5, <2>1, <2>2, <2>3, AdvanceKeeps
<1>8. DistinctBuckets'
  BY <1>1, <1>2, <1>4, <1>5 DEF DistinctBuckets, Nil
<1>9. HeldBuckets'
  <2>1. \A s \in Streams : \A m \in SlotNames : stream[s].held[m] \in 0..Len(rate)
    BY <1>1 DEF CapsTypeOK
  <2>2. \A s \in Streams : \A m \in SlotNames :
           stream[s].held[m] # Nil => rate'[stream[s].held[m]] = rate[stream[s].held[m]]
    BY <1>4, <2>1 DEF Nil
  <2>3. \A m \in SlotNames : Buckets'[m] = IF m = n THEN new ELSE Buckets[m]
    BY <1>2, <1>5
  <2> QED BY <1>1, <1>2, <1>3, <1>4, <2>1, <2>2, <2>3 DEF HeldBuckets, Nil
<1> QED BY <1>7, <1>8, <1>9

LEMMA ChangeRateStep ==
    ASSUME CapsInv, OneAdmin, NEW a \in Admins, ChangeRate(a)
    PROVE  CapsInv'
<1> USE DEF CapsInv
<1> DEFINE n == Slots[admin[a].slot]
           cap == admin[a].caps[n]
           f == admin[a].found
<1>1. /\ CapsTypeOK /\ UNCHANGED <<limiter, current, stream>>
      /\ admin[a].at = "apply" /\ Advance(a) /\ f # Nil
  BY DEF ChangeRate
<1>2. /\ current = 1 /\ admin[a].lim = 1 /\ admin[a].slot \in 1..3 /\ Len(limiter) = 1
      /\ Buckets \in [SlotNames -> 0..Len(rate)] /\ n \in SlotNames
      /\ limiter \in Seq([SlotNames -> 0..Len(rate)])
      /\ admin[a].caps \in Caps
  BY <1>1, AtSlot
<1>3. Buckets[n] = f /\ f \in 1..Len(rate) /\ Buckets' = Buckets
  BY <1>1, <1>2 DEF KnowsItsSlot, Nil, Buckets
<1>4. /\ rate' = [rate EXCEPT ![f] = cap] /\ cap \in Rates \cup {Off}
      /\ rate' \in Seq(Rates \cup {Off}) /\ Len(rate') = Len(rate) /\ Len(rate) \in Nat
      /\ \A i \in 1..Len(rate) : rate'[i] = IF i = f THEN cap ELSE rate[i]
  BY <1>1, <1>2, <1>3 DEF ChangeRate, CapsTypeOK, Caps
<1>5. \A m \in SlotNames : CapsInForce'[m] = IF m = n THEN cap ELSE CapsInForce[m]
  <2>1. \A m \in SlotNames : CapsInForce'[m] = IF Buckets[m] = Nil THEN Off ELSE rate'[Buckets[m]]
    BY <1>1, <1>2, <1>3 DEF CapsInForce, InForce, Buckets, Nil
  <2>2. CapsInForce'[n] = cap
    BY <1>1, <1>2, <1>3, <1>4, <2>1
  <2>3. ASSUME NEW m \in SlotNames, m # n PROVE CapsInForce'[m] = CapsInForce[m]
    <3>1. Buckets[m] # Nil => Buckets[m] \in 1..Len(rate) /\ Buckets[m] # f
      BY <1>1, <1>2, <1>3, <2>3 DEF DistinctBuckets, Nil
    <3> QED BY <1>2, <1>4, <2>1, <3>1, ForceOfBucket
  <2> QED BY <2>2, <2>3
<1>6. CapsTypeOK' /\ OneLimiter' /\ KnowsItsSlot' /\ PassedSlots' /\ IdleSlots'
  <2>1. \A i \in 1..(admin[a].slot - 1) : CapsInForce'[Slots[i]] = CapsInForce[Slots[i]]
    <3>1. \A i \in 1..(admin[a].slot - 1) : Slots[i] \in SlotNames /\ Slots[i] # n
      BY <1>2, SlotFacts
    <3> QED BY <1>5, <3>1
  <2>2. CapsInForce'[n] = cap
    BY <1>2, <1>5
  <2>3. Len(limiter') = 1 /\ limiter' \in Seq([SlotNames -> 0..Len(rate')]) /\ Len(rate') >= Len(rate)
    BY <1>1, <1>2, <1>4
  <2> QED BY <1>1, <1>4, <2>1, <2>2, <2>3, AdvanceKeeps
<1>7. DistinctBuckets'
  BY <1>1, <1>3 DEF DistinctBuckets
<1>8. HeldBuckets'
  <2>1. \A s \in Streams : \A m \in SlotNames : stream[s].held[m] \in 0..Len(rate)
    BY <1>1 DEF CapsTypeOK
  <2> QED BY <1>1, <1>2, <1>3, <1>4, <2>1 DEF HeldBuckets, Nil
<1> QED BY <1>6, <1>7, <1>8

-----------------------------------------------------------------------------
\* A step of a stream that keeps its type, and takes no bucket but the one in the
\* slot it takes it from.
LEMMA StreamStep ==
    ASSUME CapsInv, NEW s \in Streams, NEW new \in StreamType,
           stream' = [stream EXCEPT ![s] = new],
           UNCHANGED <<rate, limiter, current, admin, asked>>,
           new.at \in {"direction", "combined"} => new.lim # Nil,
           \A n \in SlotNames : \/ new.held[n] = Nil
                                \/ new.held[n] = stream[s].held[n]
                                \/ current # Nil /\ new.held[n] = Buckets[n]
    PROVE  CapsInv'
<1> USE DEF CapsInv
<1>1. stream \in [Streams -> StreamType] /\ CapsTypeOK
  BY DEF CapsTypeOK, StreamType
<1>2. /\ stream' \in [Streams -> StreamType]
      /\ \A q \in Streams : stream'[q] = IF q = s THEN new ELSE stream[q]
  BY <1>1
<1>3. CapsTypeOK'
  BY <1>1, <1>2 DEF CapsTypeOK, StreamType
<1>4. OneLimiter' /\ DistinctBuckets' /\ KnowsItsSlot'
  BY DEF OneLimiter, DistinctBuckets, KnowsItsSlot, Buckets
<1>5. CapsInForce' = CapsInForce /\ (Busy' <=> Busy)
  BY DEF CapsInForce, InForce, Busy
<1>6. PassedSlots' /\ IdleSlots'
  BY <1>5 DEF PassedSlots, IdleSlots
<1>7. HeldBuckets'
  <2>1. Buckets' = Buckets
    BY DEF Buckets
  <2>2. ASSUME NEW q \in Streams, NEW n \in SlotNames, stream'[q].held[n] # Nil
        PROVE  /\ current # Nil
               /\ \A m \in SlotNames : Buckets[m] = stream'[q].held[n] => m = n
               /\ Buckets[n] # stream'[q].held[n] => rate[stream'[q].held[n]] = Off
    <3>1. CASE q = s /\ current # Nil /\ new.held[n] = Buckets[n]
      BY <1>2, <2>2, <3>1 DEF DistinctBuckets
    <3>2. CASE stream'[q].held[n] = stream[q].held[n]
      BY <2>2, <3>2 DEF HeldBuckets
    <3> QED BY <1>2, <2>2, <3>1, <3>2
  <2> QED BY <2>1, <2>2 DEF HeldBuckets
<1> QED BY <1>3, <1>4, <1>6, <1>7

LEMMA CollectStep ==
    ASSUME CapsInv, NEW s \in Streams, TakeDirection(s) \/ TakeCombined(s)
    PROVE  CapsInv'
<1> USE DEF CapsInv
<1>1. stream[s] \in StreamType /\ CapsTypeOK
  BY DEF CapsTypeOK, StreamType
<1>2. PICK slot \in SlotNames, to \in {"combined", "open"} :
         /\ stream[s].at \in {"direction", "combined"}
         /\ stream' = [stream EXCEPT ![s].at = to,
                          ![s].held[slot] = limiter[stream[s].lim][slot]]
         /\ UNCHANGED <<rate, limiter, current, admin, asked>>
  BY <1>1 DEF TakeDirection, TakeCombined, Collect, StreamType, SlotNames
<1>3. /\ stream[s].lim = 1 /\ current # Nil
      /\ Buckets \in [SlotNames -> 0..Len(rate)]
  <2>1. stream[s].lim # Nil /\ stream[s].lim \in 0..Len(limiter)
    BY <1>1, <1>2 DEF CapsTypeOK, StreamType
  <2>2. Len(limiter) \in Nat /\ Len(limiter) <= 1 /\ current = Len(limiter)
        /\ limiter \in Seq([SlotNames -> 0..Len(rate)])
    BY <1>1 DEF OneLimiter, CapsTypeOK
  <2>3. Len(limiter) # 0 /\ stream[s].lim # 0
    <3> HIDE DEF SlotNames
    <3> QED BY <2>1, <2>2 DEF Nil
  <2>4. stream[s].lim = 1 /\ Len(limiter) = 1
    <3> DEFINE len == Len(limiter)
               lim == stream[s].lim
    <3>1. len \in Nat /\ len <= 1 /\ len # 0 /\ lim \in 0..len /\ lim # 0
      BY <2>1, <2>2, <2>3
    <3> HIDE DEF len, lim
    <3>2. len = 1 /\ lim = 1
      BY <3>1
    <3> QED BY <3>2 DEF len, lim
  <2>5. limiter[1] \in [SlotNames -> 0..Len(rate)]
    <3> DEFINE T == [SlotNames -> 0..Len(rate)]
    <3>1. limiter \in Seq(T) /\ 1 \in 1..Len(limiter)
      BY <2>2, <2>4
    <3> HIDE DEF T
    <3>2. limiter[1] \in T
      BY <3>1, ElementOfSeq
    <3> QED BY <3>2 DEF T
  <2> QED BY Zenon, <2>2, <2>3, <2>4, <2>5 DEF Buckets, Nil
<1> DEFINE new == [stream[s] EXCEPT !.at = to, !.held = [stream[s].held EXCEPT ![slot] = Buckets[slot]]]
<1>4. stream[s].held \in [SlotNames -> 0..Len(rate)]
  BY <1>1 DEF StreamType
<1>5. [stream[s].held EXCEPT ![slot] = Buckets[slot]] \in [SlotNames -> 0..Len(rate)]
  BY <1>3, <1>4
<1>6. /\ new \in StreamType /\ new.lim = stream[s].lim
      /\ new.held = [stream[s].held EXCEPT ![slot] = Buckets[slot]]
  BY <1>1, <1>5 DEF StreamType
<1>7. stream' = [stream EXCEPT ![s] = new]
  BY <1>2, <1>3 DEF Buckets
<1>8. \A n \in SlotNames : \/ new.held[n] = Nil
                           \/ new.held[n] = stream[s].held[n]
                           \/ current # Nil /\ new.held[n] = Buckets[n]
  <2>1. new.held = [stream[s].held EXCEPT ![slot] = Buckets[slot]]
    BY <1>6
  <2> HIDE DEF new
  <2>2. \A n \in SlotNames : new.held[n] = IF n = slot THEN Buckets[slot] ELSE stream[s].held[n]
    BY <1>4, <2>1
  <2> QED BY <1>3, <2>2
<1>9. new.lim # Nil
  BY <1>3, <1>6 DEF Nil
<1>10. UNCHANGED <<rate, limiter, current, admin, asked>>
  BY <1>2
<1> HIDE DEF new
<1>11. new \in StreamType
  BY <1>6
<1> QED BY <1>7, <1>8, <1>9, <1>10, <1>11, StreamStep

LEMMA WrapStep ==
    ASSUME CapsInv, NEW s \in Streams, Wrap(s) \/ ReadToEnd(s)
    PROVE  CapsInv'
<1> USE DEF CapsInv
<1>1. /\ CapsTypeOK /\ UNCHANGED <<rate, limiter, current, admin, asked>>
      /\ current \in 0..Len(limiter)
  BY DEF Wrap, ReadToEnd, CapsTypeOK
<1>2. NoBuckets \in [SlotNames -> 0..Len(rate)] /\ \A n \in SlotNames : NoBuckets[n] = Nil
  <2>1. Len(rate) \in Nat
    BY <1>1 DEF CapsTypeOK
  <2> QED BY <2>1 DEF NoBuckets, Nil
<1>3. CASE Wrap(s)
  <2>1. PICK way \in {"download", "upload"} :
           stream' = [stream EXCEPT ![s] =
                         [at |-> IF current = Nil THEN "open" ELSE "direction",
                          way |-> way, lim |-> current, held |-> NoBuckets]]
    BY <1>3 DEF Wrap
  <2> DEFINE new == [at |-> IF current = Nil THEN "open" ELSE "direction",
                     way |-> way, lim |-> current, held |-> NoBuckets]
  <2>2. /\ new \in StreamType /\ new.held = NoBuckets
        /\ new.at \in {"direction", "combined"} => new.lim # Nil
    BY <1>1, <1>2 DEF StreamType
  <2> QED BY <1>1, <1>2, <2>1, <2>2, StreamStep
<1>4. CASE ReadToEnd(s)
  <2>1. IdleStream \in StreamType /\ IdleStream.held = NoBuckets /\ IdleStream.at = "idle"
    <3>1. Nil \in 0..Len(limiter)
      BY <1>1 DEF CapsTypeOK, Nil
    <3> QED BY <1>2, <3>1 DEF IdleStream, StreamType
  <2>2. stream' = [stream EXCEPT ![s] = IdleStream]
    BY <1>4 DEF ReadToEnd
  <2> QED BY <1>1, <1>2, <2>1, <2>2, StreamStep
<1> QED BY <1>3, <1>4

-----------------------------------------------------------------------------
LEMMA CapsInvInit == CapsInit => CapsInv
<1> SUFFICES ASSUME CapsInit PROVE CapsInv
  OBVIOUS
<1> DEFINE new == NewBuckets(0, asked)
<1>1. asked \in Caps
  BY DEF CapsInit
<1>2. /\ new.rates \in Seq(Rates \cup {Off})
      /\ new.slots \in [SlotNames -> 0..Len(new.rates)]
      /\ \A n \in SlotNames :
            \/ asked[n] = Off /\ new.slots[n] = Nil
            \/ new.slots[n] \in 1..Len(new.rates) /\ new.rates[new.slots[n]] = asked[n]
      /\ \A m, n \in SlotNames : new.slots[m] = new.slots[n] /\ new.slots[m] # Nil => m = n
  <2>1. /\ new.rates \in Seq(Rates \cup {Off})
        /\ new.slots \in [SlotNames -> 0..(0 + Len(new.rates))]
        /\ \A n \in SlotNames :
              \/ asked[n] = Off /\ new.slots[n] = Nil
              \/ /\ new.slots[n] - 0 \in 1..Len(new.rates)
                 /\ new.rates[new.slots[n] - 0] = asked[n]
        /\ \A m, n \in SlotNames : new.slots[m] = new.slots[n] /\ new.slots[m] # Nil => m = n
    BY <1>1, NewBucketsFacts
  <2>2. Len(new.rates) \in Nat
    BY <2>1
  <2> HIDE DEF new
  <2>3. \A n \in SlotNames : new.slots[n] - 0 = new.slots[n] /\ 0 + Len(new.rates) = Len(new.rates)
    BY <2>1, <2>2
  <2> QED BY <2>1, <2>3
<1> HIDE DEF new
<1>3. /\ rate = new.rates /\ current = Len(limiter)
      /\ admin = [a \in Admins |-> IdleAdmin] /\ stream = [s \in Streams |-> IdleStream]
      /\ \/ asked = NoCaps /\ limiter = <<>> /\ Len(limiter) = 0
         \/ asked # NoCaps /\ limiter = <<new.slots>> /\ Len(limiter) = 1
  BY DEF CapsInit, new
<1>4. limiter \in Seq([SlotNames -> 0..Len(rate)]) /\ Len(rate) \in Nat
  <2>1. new.slots \in [SlotNames -> 0..Len(rate)]
    BY <1>2, <1>3
  <2>2. CASE limiter = <<>>
    BY <1>2, <1>3, <2>2
  <2>3. CASE limiter = <<new.slots>>
    BY <1>2, <1>3, <2>1, <2>3
  <2> QED BY <1>3, <2>2, <2>3
<1>5. IdleAdmin \in AdminType /\ IdleAdmin.at = "idle"
  BY <1>3, <1>4, SlotFacts DEF IdleAdmin, AdminType, NoCaps, Caps, Nil
<1>6. IdleStream \in StreamType /\ IdleStream.at = "idle" /\ IdleStream.held = NoBuckets
  BY <1>3, <1>4 DEF IdleStream, StreamType, NoBuckets, Nil
<1>7. CapsTypeOK
  BY <1>1, <1>2, <1>3, <1>4, <1>5, <1>6 DEF CapsTypeOK, AdminType, StreamType
<1>8. OneLimiter /\ KnowsItsSlot /\ PassedSlots
  BY <1>3, <1>5 DEF OneLimiter, KnowsItsSlot, PassedSlots
<1>9. DistinctBuckets
  BY <1>2, <1>3 DEF DistinctBuckets, Buckets, Nil
<1>10. HeldBuckets
  BY <1>3, <1>6 DEF HeldBuckets, NoBuckets
<1>11. \A n \in SlotNames : CapsInForce[n] = asked[n]
  <2>1. CASE asked = NoCaps
    BY <1>3, <2>1 DEF CapsInForce, InForce, NoCaps, Nil
  <2>2. CASE asked # NoCaps
    <3>1. \A n \in SlotNames : CapsInForce[n] = IF new.slots[n] = Nil THEN Off ELSE rate[new.slots[n]]
      BY <1>3, <2>2 DEF CapsInForce, InForce, Nil
    <3> QED BY <1>2, <1>3, <3>1 DEF Nil
  <2> QED BY <2>1, <2>2
<1> QED BY <1>7, <1>8, <1>9, <1>10, <1>11 DEF CapsInv, IdleSlots

LEMMA CapsStep == OneAdmin /\ CapsInv /\ [CapsNext]_capsVars => CapsInv'
<1> SUFFICES ASSUME OneAdmin, CapsInv, [CapsNext]_capsVars PROVE CapsInv'
  OBVIOUS
<1>1. CASE UNCHANGED capsVars
  <2>1. UNCHANGED <<rate, limiter, current, admin, stream, asked>>
    BY <1>1 DEF capsVars
  <2>2. CapsTypeOK' /\ OneLimiter' /\ DistinctBuckets' /\ KnowsItsSlot' /\ HeldBuckets'
    BY <2>1 DEF CapsInv, CapsTypeOK, OneLimiter, DistinctBuckets, KnowsItsSlot, HeldBuckets, Buckets
  <2>3. CapsInForce' = CapsInForce /\ (Busy' <=> Busy)
    BY <2>1 DEF CapsInForce, InForce, Busy
  <2>4. PassedSlots' /\ IdleSlots'
    BY <2>1, <2>3 DEF CapsInv, PassedSlots, IdleSlots
  <2> QED BY <2>2, <2>4 DEF CapsInv
<1>2. CASE CapsNext
  BY <1>2, RequestStep, MakeStep, LookStep, DisableStep, ClearSlotStep, FillSlotStep,
     ChangeRateStep, WrapStep, CollectStep DEF CapsNext
<1> QED BY <1>1, <1>2

LEMMA CapsInvariant == OneAdmin => (CapsSpec => []CapsInv)
<1> SUFFICES ASSUME OneAdmin PROVE CapsSpec => []CapsInv
  OBVIOUS
<1>1. CapsInv /\ [CapsNext]_capsVars => CapsInv'
  BY CapsStep
<1> QED BY <1>1, CapsInvInit, PTL DEF CapsSpec

\* The caps of the last request are in force when it has been answered, whatever
\* was capped before: a cap is set, changed, removed and set again without trace.
THEOREM CapsSettle == OneAdmin => (CapsSpec => []SettledCaps)
<1>1. CapsInv => SettledCaps
  BY DEF CapsInv, IdleSlots, CapsInForce, SettledCaps
<1> QED BY <1>1, CapsInvariant, PTL

\* A stream that holds a bucket whose cap was removed is no longer slowed by it,
\* and a later cap in that slot does not bring the old bucket back.
THEOREM RemovedCapsFree == OneAdmin => (CapsSpec => []OrphansAreOff)
<1>1. CapsInv => OrphansAreOff
  <2> SUFFICES ASSUME CapsInv PROVE OrphansAreOff
    OBVIOUS
  <2>1. current # Nil => current = 1
    BY DEF CapsInv, OneLimiter, CapsTypeOK, Nil
  <2> QED BY <2>1 DEF CapsInv, HeldBuckets, OrphansAreOff, Buckets
<1> QED BY <1>1, CapsInvariant, PTL

-----------------------------------------------------------------------------
(* The caps when requests to /admin/caps overlap: their caps can mix, but  *)
(* every read of a slot, a bucket or a limiter finds one that exists, and  *)
(* the directions stay apart.                                              *)

\* Bucket b is in use for slot n: it is in the slot of some limiter, a request at
\* that slot has found it there, or a stream that took it from there holds it.
UsedFor(b, n) ==
    \/ \E l \in 1..Len(limiter) : limiter[l][n] = b
    \/ \E a \in Admins : /\ admin[a].at \in {"apply", "clear"}
                         /\ Slots[admin[a].slot] = n
                         /\ admin[a].found = b
    \/ \E s \in Streams : stream[s].held[n] = b

\* No bucket is in use for two slots.
DirectionsApart ==
    \A b \in 1..Len(rate) : \A m, n \in SlotNames : UsedFor(b, m) /\ UsedFor(b, n) => m = n

SlotMap == [SlotNames -> 0..Len(rate)]

\* What a request at a slot has in its hands, whoever else is at it.
LEMMA AtAnySlot ==
    ASSUME CapsTypeOK, NEW a \in Admins, admin[a].at \in {"look", "apply", "clear"}
    PROVE  /\ admin[a] \in AdminType /\ admin \in [Admins -> AdminType]
           /\ admin[a].lim \in 1..Len(limiter) /\ admin[a].slot \in 1..3
           /\ Slots[admin[a].slot] \in SlotNames
           /\ admin[a].caps \in Caps /\ admin[a].found \in 0..Len(rate)
           /\ limiter \in Seq(SlotMap) /\ limiter[admin[a].lim] \in SlotMap
           /\ Len(limiter) \in Nat /\ Len(rate) \in Nat
<1>1. admin \in [Admins -> AdminType] /\ admin[a].lim # Nil
  BY DEF CapsTypeOK, AdminType
<1>2. limiter \in Seq(SlotMap) /\ Len(limiter) \in Nat /\ Len(rate) \in Nat
  BY DEF CapsTypeOK, SlotMap
<1>3. /\ admin[a] \in AdminType /\ admin[a].lim \in 0..Len(limiter) /\ admin[a].slot \in 1..3
      /\ admin[a].caps \in Caps /\ admin[a].found \in 0..Len(rate)
  BY <1>1, SlotFacts DEF AdminType
<1>4. admin[a].lim \in 1..Len(limiter)
  BY <1>1, <1>2, <1>3 DEF Nil
<1>5. limiter[admin[a].lim] \in SlotMap
  BY <1>2, <1>4
<1> QED BY <1>1, <1>2, <1>3, <1>4, <1>5, SlotFacts

\* A slot gets a bucket that exists, or none.
LEMMA SetSlot ==
    ASSUME NEW S, NEW s \in Seq([SlotNames -> S]), NEW l \in 1..Len(s), NEW n \in SlotNames,
           NEW T, S \subseteq T, NEW x \in T
    PROVE  LET t == [s EXCEPT ![l][n] = x] IN
           /\ t \in Seq([SlotNames -> T]) /\ Len(t) = Len(s)
           /\ \A k \in 1..Len(s) : \A m \in SlotNames :
                 t[k][m] = IF k = l /\ m = n THEN x ELSE s[k][m]
<1> DEFINE y == [s[l] EXCEPT ![n] = x]
           t == [s EXCEPT ![l] = y]
<1>1. \A k \in 1..Len(s) : s[k] \in [SlotNames -> S] /\ s[k] \in [SlotNames -> T]
  OBVIOUS
<1>2. y \in [SlotNames -> T] /\ \A m \in SlotNames : y[m] = IF m = n THEN x ELSE s[l][m]
  BY <1>1
<1>3. s \in Seq([SlotNames -> T])
  <2>1. s \in [1..Len(s) -> [SlotNames -> T]] /\ Len(s) \in Nat
    BY <1>1
  <2> QED BY <2>1
<1> HIDE DEF y
<1>4. t \in Seq([SlotNames -> T]) /\ Len(t) = Len(s)
      /\ \A k \in 1..Len(s) : t[k] = IF k = l THEN y ELSE s[k]
  BY <1>2, <1>3, ExceptSeq
<1> QED BY <1>2, <1>4 DEF y

\* What the steps that do not move a stream keep, and what is left to show.
LEMMA TypedAfter ==
    ASSUME CapsTypeOK,
           rate' \in Seq(Rates \cup {Off}), Len(rate') >= Len(rate),
           limiter' \in Seq([SlotNames -> 0..Len(rate')]), Len(limiter') >= Len(limiter),
           current' \in 0..Len(limiter'), asked' \in Caps, UNCHANGED stream,
           NEW a \in Admins, NEW new, admin' = [admin EXCEPT ![a] = new], new \in AdminType',
           new.at \in {"look", "apply", "clear"} => new.lim # Nil
    PROVE  CapsTypeOK'
<1>1. Len(rate) \in Nat /\ Len(rate') \in Nat /\ Len(limiter) \in Nat /\ Len(limiter') \in Nat
  BY DEF CapsTypeOK
<1>2. 0..Len(rate) \subseteq 0..Len(rate') /\ 0..Len(limiter) \subseteq 0..Len(limiter')
  BY <1>1
<1>3. stream' \in [Streams -> StreamType']
  <2>1. stream \in [Streams -> StreamType]
    BY DEF CapsTypeOK, StreamType
  <2>2. ASSUME NEW s \in Streams PROVE stream[s] \in StreamType'
    <3>1. stream[s] \in StreamType
      BY <2>1
    <3> QED BY <1>2, <3>1 DEF StreamType
  <2> QED BY <2>1, <2>2
<1>4. admin' \in [Admins -> AdminType']
  <2>1. admin \in [Admins -> AdminType]
    BY DEF CapsTypeOK, AdminType
  <2>2. ASSUME NEW b \in Admins PROVE admin[b] \in AdminType'
    <3>1. admin[b] \in AdminType
      BY <2>1
    <3> QED BY <1>2, <3>1 DEF AdminType
  <2> QED BY <2>1, <2>2
<1>5. /\ \A b \in Admins : admin'[b] = IF b = a THEN new ELSE admin[b]
      /\ \A b \in Admins : admin[b].at \in {"look", "apply", "clear"} => admin[b].lim # Nil
      /\ \A s \in Streams : stream[s].at \in {"direction", "combined"} => stream[s].lim # Nil
  BY DEF CapsTypeOK
<1> QED BY <1>3, <1>4, <1>5 DEF CapsTypeOK, AdminType, StreamType

\* Apart after a step that makes the buckets after the old ones.
LEMMA ApartAfter ==
    ASSUME DirectionsApart, Len(rate) \in Nat, Len(rate') \in Nat, Len(rate') >= Len(rate),
           \A b \in 1..Len(rate) : \A n \in SlotNames : UsedFor(b, n)' => UsedFor(b, n),
           \A b \in (Len(rate) + 1)..Len(rate') : \A m, n \in SlotNames :
               UsedFor(b, m)' /\ UsedFor(b, n)' => m = n
    PROVE  DirectionsApart'
<1> DEFINE U(b, n) == UsedFor(b, n)'
<1>1. ASSUME NEW b \in 1..Len(rate'), NEW m \in SlotNames, NEW n \in SlotNames, U(b, m), U(b, n)
      PROVE  m = n
  <2>1. CASE b \in 1..Len(rate)
    BY <1>1, <2>1 DEF DirectionsApart
  <2>2. CASE b \in (Len(rate) + 1)..Len(rate')
    BY <1>1, <2>2
  <2> QED BY <2>1, <2>2
<1> QED BY <1>1 DEF DirectionsApart

LEMMA AdvanceTyped ==
    ASSUME CapsTypeOK, NEW a \in Admins, admin[a].at \in {"apply", "clear"}, Advance(a),
           rate' \in Seq(Rates \cup {Off}), Len(rate') >= Len(rate),
           limiter' \in Seq([SlotNames -> 0..Len(rate')]), Len(limiter') = Len(limiter),
           UNCHANGED <<current, stream>>
    PROVE  /\ CapsTypeOK'
           /\ \A b \in Admins : admin'[b].at \in {"apply", "clear"} => admin'[b] = admin[b]
<1>1. /\ admin[a] \in AdminType /\ admin \in [Admins -> AdminType]
      /\ admin[a].lim \in 1..Len(limiter) /\ admin[a].slot \in 1..3
      /\ admin[a].caps \in Caps /\ Len(limiter) \in Nat /\ Len(rate) \in Nat
  BY AtAnySlot
<1>2. Len(rate') \in Nat /\ current' \in 0..Len(limiter') /\ asked \in Caps /\ Len(limiter') >= Len(limiter)
  BY <1>1 DEF CapsTypeOK
<1>3. CASE admin[a].slot = 3
  <2>1. admin' = [admin EXCEPT ![a] = IdleAdmin] /\ asked' = admin[a].caps
    BY <1>3, SlotFacts DEF Advance
  <2>2. IdleAdmin \in AdminType' /\ IdleAdmin.at = "idle"
    BY <1>1, <1>2, SlotFacts DEF IdleAdmin, AdminType, NoCaps, Caps, Nil
  <2>3. CapsTypeOK'
    BY <1>1, <1>2, <2>1, <2>2, TypedAfter
  <2> QED BY <1>1, <2>1, <2>2, <2>3
<1>4. CASE admin[a].slot # 3
  <2> DEFINE next == [admin[a] EXCEPT !.slot = @ + 1, !.at = "look"]
  <2>1. admin' = [admin EXCEPT ![a] = next] /\ asked' = asked
    BY <1>1, <1>4, SlotFacts DEF Advance
  <2>2. next \in AdminType' /\ next.at = "look" /\ next.lim # Nil
    <3>1. admin[a].found \in 0..Len(rate') /\ admin[a].lim \in 0..Len(limiter')
      BY <1>1, <1>2 DEF AdminType
    <3>2. admin[a].slot + 1 \in 1..Len(Slots)
      BY <1>1, <1>4, SlotFacts
    <3>3. next \in AdminType' /\ next.at = "look" /\ next.lim = admin[a].lim
      BY <1>1, <3>1, <3>2 DEF AdminType
    <3> QED BY <1>1, <3>3 DEF Nil
  <2> HIDE DEF next
  <2>3. CapsTypeOK'
    BY <1>1, <1>2, <2>1, <2>2, TypedAfter
  <2> QED BY <1>1, <2>1, <2>2, <2>3
<1> QED BY <1>3, <1>4

\* What is used are buckets that exist.
LEMMA UsedExists ==
    ASSUME CapsTypeOK, NEW n \in SlotNames
    PROVE  /\ \A l \in 1..Len(limiter) : limiter[l][n] \in 0..Len(rate)
           /\ \A c \in Admins : admin[c].found \in 0..Len(rate)
           /\ \A s \in Streams : stream[s].held[n] \in 0..Len(rate)
<1>1. \A l \in 1..Len(limiter) : limiter[l] \in SlotMap
  BY DEF CapsTypeOK, SlotMap
<1>2. \A c \in Admins : admin[c] \in AdminType
  BY DEF CapsTypeOK, AdminType
<1>3. \A s \in Streams : stream[s] \in StreamType
  BY DEF CapsTypeOK, StreamType
<1> QED BY <1>1, <1>2, <1>3 DEF SlotMap, AdminType, StreamType

\* A step of a request at its slot: what is in the slot afterwards was there, or was
\* found there, or is new and goes nowhere else.
LEMMA AdvanceApart ==
    ASSUME CapsTypeOK, DirectionsApart, NEW a \in Admins, admin[a].at \in {"apply", "clear"},
           Advance(a), UNCHANGED <<current, stream>>,
           rate' \in Seq(Rates \cup {Off}), Len(rate') >= Len(rate),
           limiter' \in Seq([SlotNames -> 0..Len(rate')]), Len(limiter') = Len(limiter),
           NEW x, x = Nil \/ x > Len(rate),
           \A l \in 1..Len(limiter) : \A n \in SlotNames :
               \/ limiter'[l][n] = limiter[l][n]
               \/ n = Slots[admin[a].slot] /\ limiter'[l][n] = x
    PROVE  CapsTypeOK' /\ DirectionsApart'
<1>1. CapsTypeOK' /\ \A b \in Admins : admin'[b].at \in {"apply", "clear"} => admin'[b] = admin[b]
  BY AdvanceTyped
<1>2. Len(rate) \in Nat /\ Len(rate') \in Nat
  BY <1>1 DEF CapsTypeOK
<1>3. ASSUME NEW b \in 1..Len(rate), NEW n \in SlotNames, UsedFor(b, n)' PROVE UsedFor(b, n)
  <2>1. b # Nil /\ ~(b > Len(rate))
    BY <1>2 DEF Nil
  <2> QED BY <1>1, <1>3, <2>1 DEF UsedFor
<1>4. ASSUME NEW b \in (Len(rate) + 1)..Len(rate'), NEW n \in SlotNames, UsedFor(b, n)'
      PROVE  n = Slots[admin[a].slot]
  <2>1. \A k \in 0..Len(rate) : k # b
    BY <1>2
  <2>2. /\ \A l \in 1..Len(limiter) : limiter[l][n] \in 0..Len(rate)
        /\ \A c \in Admins : admin[c].found \in 0..Len(rate)
        /\ \A s \in Streams : stream[s].held[n] \in 0..Len(rate)
    BY UsedExists
  <2> QED BY <1>1, <1>4, <2>1, <2>2 DEF UsedFor
<1> QED BY <1>1, <1>2, <1>3, <1>4, ApartAfter

LEMMA RequestApart ==
    ASSUME CapsTypeOK, DirectionsApart, NEW a \in Admins, Request(a)
    PROVE  CapsTypeOK' /\ DirectionsApart'
<1>1. UNCHANGED <<rate, limiter, current, stream, asked>>
  BY DEF Request
<1>2. PICK caps \in Caps :
         admin' = [admin EXCEPT ![a] = [at |-> IF current = Nil THEN "make" ELSE "look",
                                        caps |-> caps, lim |-> current, slot |-> 1, found |-> Nil]]
  BY DEF Request, Valid
<1> DEFINE new == [at |-> IF current = Nil THEN "make" ELSE "look",
                   caps |-> caps, lim |-> current, slot |-> 1, found |-> Nil]
<1>3. /\ rate \in Seq(Rates \cup {Off}) /\ Len(rate) \in Nat /\ Len(limiter) \in Nat
      /\ limiter \in Seq([SlotNames -> 0..Len(rate)]) /\ current \in 0..Len(limiter) /\ asked \in Caps
      /\ admin \in [Admins -> AdminType]
  BY DEF CapsTypeOK, AdminType
<1>4. new \in AdminType'
  <2>1. current \in 0..Len(limiter') /\ Nil \in 0..Len(rate') /\ 1 \in 1..Len(Slots)
    BY <1>1, <1>3, SlotFacts DEF Nil
  <2> QED BY <2>1 DEF AdminType
<1>5. new.at \in {"look", "apply", "clear"} => new.lim # Nil
  OBVIOUS
<1>6. new.at \notin {"apply", "clear"}
  OBVIOUS
<1> HIDE DEF new
<1>7. admin' = [admin EXCEPT ![a] = new]
  BY <1>2 DEF new
<1>8. Len(rate') >= Len(rate) /\ Len(limiter') >= Len(limiter)
  BY <1>1, <1>3
<1>9. CapsTypeOK'
  BY <1>1, <1>3, <1>4, <1>5, <1>7, <1>8, TypedAfter
<1>10. \A b \in Admins : admin'[b].at \in {"apply", "clear"} => admin'[b] = admin[b]
  BY <1>3, <1>6, <1>7
<1>11. \A b, n : UsedFor(b, n)' => UsedFor(b, n)
  BY <1>1, <1>10 DEF UsedFor
<1> QED BY <1>1, <1>9, <1>11 DEF DirectionsApart

LEMMA LookApart ==
    ASSUME CapsTypeOK, DirectionsApart, NEW a \in Admins, Look(a)
    PROVE  CapsTypeOK' /\ DirectionsApart'
<1> DEFINE l == admin[a].lim
           n == Slots[admin[a].slot]
           new == [admin[a] EXCEPT !.at = "apply", !.found = limiter[l][n]]
<1>1. UNCHANGED <<rate, limiter, current, stream, asked>> /\ admin[a].at = "look"
      /\ admin' = [admin EXCEPT ![a].at = "apply", ![a].found = limiter[l][n]]
  BY DEF Look
<1>2. /\ admin[a] \in AdminType /\ admin \in [Admins -> AdminType]
      /\ l \in 1..Len(limiter) /\ n \in SlotNames /\ limiter[l] \in SlotMap
      /\ Len(limiter) \in Nat /\ Len(rate) \in Nat
  BY <1>1, AtAnySlot
<1>3. /\ rate \in Seq(Rates \cup {Off}) /\ limiter \in Seq([SlotNames -> 0..Len(rate)])
      /\ current \in 0..Len(limiter) /\ asked \in Caps
  BY DEF CapsTypeOK
<1>4. limiter[l][n] \in 0..Len(rate)
  BY <1>2 DEF SlotMap
<1> HIDE DEF l, n
<1>5. /\ new \in AdminType' /\ new.at = "apply" /\ new.found = limiter[l][n]
      /\ new.slot = admin[a].slot /\ new.lim = admin[a].lim
  BY <1>1, <1>2, <1>4 DEF AdminType
<1>6. admin' = [admin EXCEPT ![a] = new]
  BY <1>1, <1>2
<1> HIDE DEF new
<1>7. new.lim # Nil
  BY <1>2, <1>5 DEF l, Nil
<1>8. CapsTypeOK'
  <2>1. Len(rate') >= Len(rate) /\ Len(limiter') >= Len(limiter)
    BY <1>1, <1>2
  <2> QED BY <1>1, <1>3, <1>5, <1>6, <1>7, <2>1, TypedAfter
<1>9. ASSUME NEW b, NEW m, UsedFor(b, m)' PROVE UsedFor(b, m)
  <2>1. \A c \in Admins : c # a => admin'[c] = admin[c]
    BY <1>2, <1>6
  <2>2. admin'[a] = new
    BY <1>2, <1>6
  <2>3. CASE \E k \in 1..Len(limiter) : limiter'[k][m] = b
    BY <1>1, <2>3 DEF UsedFor
  <2>4. CASE \E s \in Streams : stream'[s].held[m] = b
    BY <1>1, <2>4 DEF UsedFor
  <2>5. CASE \E c \in Admins : /\ admin'[c].at \in {"apply", "clear"}
                               /\ Slots[admin'[c].slot] = m
                               /\ admin'[c].found = b
    <3>1. PICK c \in Admins : /\ admin'[c].at \in {"apply", "clear"}
                              /\ Slots[admin'[c].slot] = m
                              /\ admin'[c].found = b
      BY <2>5
    <3>2. CASE c = a
      <4>1. n = m /\ limiter[l][n] = b
        BY <1>5, <2>2, <3>1, <3>2 DEF n
      <4> QED BY <1>2, <4>1 DEF UsedFor
    <3>3. CASE c # a
      BY <2>1, <3>1, <3>3 DEF UsedFor
    <3> QED BY <3>2, <3>3
  <2>6. Len(limiter') = Len(limiter)
    BY <1>1
  <2> QED BY <1>9, <2>3, <2>4, <2>5, <2>6 DEF UsedFor
<1> QED BY <1>1, <1>8, <1>9 DEF DirectionsApart

LEMMA MakeApart ==
    ASSUME CapsTypeOK, DirectionsApart, NEW a \in Admins, Make(a)
    PROVE  CapsTypeOK' /\ DirectionsApart'
<1> DEFINE caps == admin[a].caps
           new == NewBuckets(Len(rate), caps)
<1>1. /\ rate \in Seq(Rates \cup {Off}) /\ limiter \in Seq(SlotMap)
      /\ Len(rate) \in Nat /\ Len(limiter) \in Nat
      /\ admin \in [Admins -> AdminType] /\ caps \in Caps
      /\ \A l \in 1..Len(limiter) : limiter[l] \in SlotMap
  BY DEF CapsTypeOK, AdminType, SlotMap
<1>2. /\ new.rates \in Seq(Rates \cup {Off})
      /\ new.slots \in [SlotNames -> 0..(Len(rate) + Len(new.rates))]
      /\ \A n \in SlotNames :
            \/ caps[n] = Off /\ new.slots[n] = Nil
            \/ /\ new.slots[n] - Len(rate) \in 1..Len(new.rates)
               /\ new.rates[new.slots[n] - Len(rate)] = caps[n]
      /\ \A m, n \in SlotNames : new.slots[m] = new.slots[n] /\ new.slots[m] # Nil => m = n
  BY <1>1, NewBucketsFacts
<1> HIDE DEF new
<1>3. /\ rate' = rate \o new.rates /\ asked' = caps
      /\ admin' = [admin EXCEPT ![a] = IdleAdmin]
      /\ UNCHANGED stream
      /\ \/ limiter' = limiter /\ current' = 0
         \/ limiter' = Append(limiter, new.slots) /\ current' = Len(limiter) + 1
  BY DEF Make, new, Nil
<1>4. /\ rate' \in Seq(Rates \cup {Off}) /\ Len(rate') = Len(rate) + Len(new.rates)
      /\ Len(new.rates) \in Nat
  BY <1>1, <1>2, <1>3
<1>5. /\ limiter' \in Seq([SlotNames -> 0..Len(rate')]) /\ Len(limiter') >= Len(limiter)
      /\ current' \in 0..Len(limiter')
      /\ \A l \in 1..Len(limiter') : \/ l \in 1..Len(limiter) /\ limiter'[l] = limiter[l]
                                     \/ l = Len(limiter) + 1 /\ limiter'[l] = new.slots
  <2>1. 0..Len(rate) \subseteq 0..Len(rate') /\ new.slots \in [SlotNames -> 0..Len(rate')]
    BY <1>1, <1>2, <1>4
  <2>2. limiter \in Seq([SlotNames -> 0..Len(rate')])
    <3>1. \A l \in 1..Len(limiter) : limiter[l] \in [SlotNames -> 0..Len(rate')]
      BY <1>1, <2>1 DEF SlotMap
    <3> QED BY <1>1, <3>1
  <2>3. CASE limiter' = limiter /\ current' = 0
    BY <1>1, <2>2, <2>3
  <2>4. CASE limiter' = Append(limiter, new.slots) /\ current' = Len(limiter) + 1
    <3>1. /\ limiter' \in Seq([SlotNames -> 0..Len(rate')]) /\ Len(limiter') = Len(limiter) + 1
          /\ limiter'[Len(limiter) + 1] = new.slots
          /\ \A l \in 1..Len(limiter) : limiter'[l] = limiter[l]
      BY <1>1, <2>1, <2>2, <2>4
    <3>2. \A l \in 1..(Len(limiter) + 1) : l \in 1..Len(limiter) \/ l = Len(limiter) + 1
      BY <1>1
    <3> QED BY <1>1, <2>4, <3>1, <3>2
  <2> QED BY <1>3, <2>3, <2>4
<1>6. IdleAdmin \in AdminType' /\ IdleAdmin.at = "idle"
  <2>1. Len(limiter') \in Nat /\ Len(rate') \in Nat
    BY <1>4, <1>5, <1>1
  <2> QED BY <2>1, SlotFacts DEF IdleAdmin, AdminType, NoCaps, Caps, Nil
<1>7. CapsTypeOK'
  <2>1. Len(rate') >= Len(rate)
    BY <1>1, <1>4
  <2> QED BY <1>1, <1>3, <1>4, <1>5, <1>6, <2>1, TypedAfter
<1>8. \A b \in Admins : admin'[b].at \in {"apply", "clear"} => admin'[b] = admin[b]
  BY <1>1, <1>3, <1>6
<1>9. \A n \in SlotNames : new.slots[n] = Nil \/ new.slots[n] > Len(rate)
  <2> TAKE n \in SlotNames
  <2>1. new.slots[n] \in 0..(Len(rate) + Len(new.rates))
    BY <1>2
  <2>2. CASE new.slots[n] - Len(rate) \in 1..Len(new.rates)
    BY <1>1, <1>4, <2>1, <2>2
  <2> QED BY <1>2, <2>2
<1>10. ASSUME NEW b \in 1..Len(rate), NEW n \in SlotNames, UsedFor(b, n)' PROVE UsedFor(b, n)
  <2>1. b # Nil /\ ~(b > Len(rate))
    BY <1>1 DEF Nil
  <2> QED BY <1>3, <1>5, <1>8, <1>9, <1>10, <2>1 DEF UsedFor
<1>11. ASSUME NEW b \in (Len(rate) + 1)..Len(rate'), NEW n \in SlotNames, UsedFor(b, n)'
       PROVE  b # Nil /\ new.slots[n] = b
  <2>1. b # Nil /\ \A k \in 0..Len(rate) : k # b
    BY <1>1 DEF Nil
  <2>2. /\ \A l \in 1..Len(limiter) : limiter[l][n] \in 0..Len(rate)
        /\ \A c \in Admins : admin[c].found \in 0..Len(rate)
        /\ \A s \in Streams : stream[s].held[n] \in 0..Len(rate)
    BY UsedExists
  <2> QED BY <1>3, <1>5, <1>8, <1>11, <2>1, <2>2 DEF UsedFor
<1>12. \A b \in (Len(rate) + 1)..Len(rate') : \A m, n \in SlotNames :
           UsedFor(b, m)' /\ UsedFor(b, n)' => m = n
  BY <1>2, <1>11
<1>13. Len(rate') \in Nat /\ Len(rate') >= Len(rate)
  BY <1>1, <1>4
<1> QED BY <1>1, <1>7, <1>10, <1>12, <1>13, ApartAfter

LEMMA DisableApart ==
    ASSUME CapsTypeOK, DirectionsApart, NEW a \in Admins, Disable(a)
    PROVE  CapsTypeOK' /\ DirectionsApart'
<1> DEFINE new == [admin[a] EXCEPT !.at = "clear"]
<1>1. UNCHANGED <<limiter, current, stream, asked>> /\ admin[a].at = "apply"
      /\ admin' = [admin EXCEPT ![a].at = "clear"]
  BY DEF Disable
<1>2. /\ admin[a] \in AdminType /\ admin \in [Admins -> AdminType]
      /\ admin[a].lim \in 1..Len(limiter) /\ admin[a].found \in 0..Len(rate)
      /\ Len(limiter) \in Nat /\ Len(rate) \in Nat
  BY <1>1, AtAnySlot
<1>3. /\ rate \in Seq(Rates \cup {Off}) /\ limiter \in Seq([SlotNames -> 0..Len(rate)])
      /\ current \in 0..Len(limiter) /\ asked \in Caps
  BY DEF CapsTypeOK
<1>4. rate' \in Seq(Rates \cup {Off}) /\ Len(rate') = Len(rate)
  <2>1. rate' = rate \/ (admin[a].found # Nil /\ rate' = [rate EXCEPT ![admin[a].found] = Off])
    BY DEF Disable
  <2>2. CASE admin[a].found # Nil /\ rate' = [rate EXCEPT ![admin[a].found] = Off]
    <3>1. admin[a].found \in 1..Len(rate) /\ Off \in Rates \cup {Off}
      BY <1>2, <2>2 DEF Nil
    <3> QED BY <1>3, <2>2, <3>1, ExceptSeq
  <2> QED BY <1>3, <2>1, <2>2
<1>5. /\ new \in AdminType' /\ new.at = "clear" /\ new.slot = admin[a].slot
      /\ new.found = admin[a].found /\ new.lim = admin[a].lim
  BY <1>1, <1>2, <1>4 DEF AdminType
<1>6. admin' = [admin EXCEPT ![a] = new]
  BY <1>1, <1>2
<1> HIDE DEF new
<1>7. CapsTypeOK'
  <2>1. Len(rate') >= Len(rate) /\ Len(limiter') >= Len(limiter) /\ new.lim # Nil
    BY <1>1, <1>2, <1>4, <1>5 DEF Nil
  <2> QED BY <1>1, <1>3, <1>4, <1>5, <1>6, <2>1, TypedAfter
<1>8. \A c \in Admins : admin'[c].at \in {"apply", "clear"} =>
          /\ admin[c].at \in {"apply", "clear"}
          /\ admin'[c].slot = admin[c].slot /\ admin'[c].found = admin[c].found
  BY <1>1, <1>2, <1>5, <1>6
<1>9. ASSUME NEW b, NEW n, UsedFor(b, n)' PROVE UsedFor(b, n)
  BY <1>1, <1>8, <1>9 DEF UsedFor
<1> QED BY <1>4, <1>7, <1>9 DEF DirectionsApart

LEMMA ClearSlotApart ==
    ASSUME CapsTypeOK, DirectionsApart, NEW a \in Admins, ClearSlot(a)
    PROVE  CapsTypeOK' /\ DirectionsApart'
<1> DEFINE l == admin[a].lim
           n == Slots[admin[a].slot]
<1>1. /\ admin[a].at = "clear" /\ Advance(a) /\ UNCHANGED <<rate, current, stream>>
      /\ limiter' = [limiter EXCEPT ![l][n] = Nil]
  BY DEF ClearSlot
<1>2. /\ l \in 1..Len(limiter) /\ n \in SlotNames
      /\ limiter \in Seq([SlotNames -> 0..Len(rate)]) /\ Len(rate) \in Nat
  BY <1>1, AtAnySlot DEF SlotMap
<1>3. rate \in Seq(Rates \cup {Off}) /\ Nil \in 0..Len(rate)
  BY <1>2 DEF CapsTypeOK, Nil
<1>4. /\ limiter' \in Seq([SlotNames -> 0..Len(rate)]) /\ Len(limiter') = Len(limiter)
      /\ \A k \in 1..Len(limiter) : \A m \in SlotNames :
            limiter'[k][m] = IF k = l /\ m = n THEN Nil ELSE limiter[k][m]
  <2> HIDE DEF l, n
  <2> QED BY <1>1, <1>2, <1>3, SetSlot
<1>5. /\ rate' \in Seq(Rates \cup {Off}) /\ Len(rate') >= Len(rate)
      /\ limiter' \in Seq([SlotNames -> 0..Len(rate')])
  BY <1>1, <1>2, <1>3, <1>4
<1>6. \A k \in 1..Len(limiter) : \A m \in SlotNames :
         limiter'[k][m] = limiter[k][m] \/ (m = Slots[admin[a].slot] /\ limiter'[k][m] = Nil)
  BY <1>4
<1>7. admin[a].at \in {"apply", "clear"} /\ Len(limiter') = Len(limiter) /\ Advance(a)
      /\ UNCHANGED <<current, stream>>
  BY <1>1, <1>4
<1> HIDE DEF l, n
<1> QED BY <1>5, <1>6, <1>7, AdvanceApart

LEMMA FillSlotApart ==
    ASSUME CapsTypeOK, DirectionsApart, NEW a \in Admins, FillSlot(a)
    PROVE  CapsTypeOK' /\ DirectionsApart'
<1> DEFINE l == admin[a].lim
           n == Slots[admin[a].slot]
           fresh == Len(rate) + 1
<1>1. /\ admin[a].at = "apply" /\ Advance(a) /\ UNCHANGED <<current, stream>>
      /\ rate' = Append(rate, admin[a].caps[n])
      /\ limiter' = [limiter EXCEPT ![l][n] = fresh]
  BY DEF FillSlot
<1>2. /\ l \in 1..Len(limiter) /\ n \in SlotNames /\ admin[a].caps \in Caps
      /\ limiter \in Seq([SlotNames -> 0..Len(rate)]) /\ Len(rate) \in Nat
  BY <1>1, AtAnySlot DEF SlotMap
<1>3. rate' \in Seq(Rates \cup {Off}) /\ Len(rate') = fresh
  BY <1>1, <1>2 DEF CapsTypeOK, Caps
<1>4. /\ limiter' \in Seq([SlotNames -> 0..Len(rate')]) /\ Len(limiter') = Len(limiter)
      /\ \A k \in 1..Len(limiter) : \A m \in SlotNames :
            limiter'[k][m] = IF k = l /\ m = n THEN fresh ELSE limiter[k][m]
  <2>1. 0..Len(rate) \subseteq 0..Len(rate') /\ fresh \in 0..Len(rate')
    BY <1>2, <1>3
  <2> HIDE DEF l, n, fresh
  <2> QED BY <1>1, <1>2, <2>1, SetSlot
<1>5. Len(rate') >= Len(rate) /\ fresh > Len(rate)
  BY <1>2, <1>3
<1>6. \A k \in 1..Len(limiter) : \A m \in SlotNames :
         limiter'[k][m] = limiter[k][m] \/ (m = Slots[admin[a].slot] /\ limiter'[k][m] = fresh)
  BY <1>4
<1>7. admin[a].at \in {"apply", "clear"} /\ Len(limiter') = Len(limiter) /\ Advance(a)
      /\ UNCHANGED <<current, stream>>
  BY <1>1, <1>4
<1>8. rate' \in Seq(Rates \cup {Off}) /\ limiter' \in Seq([SlotNames -> 0..Len(rate')])
  BY <1>3, <1>4
<1> HIDE DEF fresh, l, n
<1> QED BY <1>5, <1>6, <1>7, <1>8, AdvanceApart

LEMMA ChangeRateApart ==
    ASSUME CapsTypeOK, DirectionsApart, NEW a \in Admins, ChangeRate(a)
    PROVE  CapsTypeOK' /\ DirectionsApart'
<1> DEFINE cap == admin[a].caps[Slots[admin[a].slot]]
<1>1. /\ admin[a].at = "apply" /\ Advance(a) /\ UNCHANGED <<limiter, current, stream>>
      /\ admin[a].found # Nil /\ rate' = [rate EXCEPT ![admin[a].found] = cap]
  BY DEF ChangeRate
<1>2. /\ admin[a].found \in 0..Len(rate) /\ cap \in Rates \cup {Off}
      /\ limiter \in Seq([SlotNames -> 0..Len(rate)]) /\ Len(rate) \in Nat
      /\ rate \in Seq(Rates \cup {Off})
  BY <1>1, AtAnySlot DEF SlotMap, Caps, CapsTypeOK
<1>3. rate' \in Seq(Rates \cup {Off}) /\ Len(rate') = Len(rate)
  <2>1. admin[a].found \in 1..Len(rate)
    BY <1>1, <1>2 DEF Nil
  <2> HIDE DEF cap
  <2> QED BY <1>1, <1>2, <2>1, ExceptSeq
<1>4. Len(rate') >= Len(rate) /\ limiter' \in Seq([SlotNames -> 0..Len(rate')])
  BY <1>1, <1>2, <1>3
<1> QED BY <1>1, <1>3, <1>4, AdvanceApart

\* A stream only takes buckets from the slot they are in.
LEMMA StreamApart ==
    ASSUME CapsTypeOK, DirectionsApart, NEW s \in Streams,
           Wrap(s) \/ TakeDirection(s) \/ TakeCombined(s) \/ ReadToEnd(s)
    PROVE  CapsTypeOK' /\ DirectionsApart'
<1>1. UNCHANGED <<rate, limiter, current, admin, asked>>
  BY DEF Wrap, TakeDirection, TakeCombined, ReadToEnd, Collect
<1>2. /\ stream \in [Streams -> StreamType] /\ stream[s] \in StreamType
      /\ Len(rate) \in Nat /\ current \in 0..Len(limiter) /\ Len(limiter) \in Nat
      /\ \A l \in 1..Len(limiter) : limiter[l] \in SlotMap
      /\ \A q \in Streams : stream[q].at \in {"direction", "combined"} => stream[q].lim # Nil
  BY DEF CapsTypeOK, StreamType, SlotMap
<1>3. PICK new \in StreamType :
         /\ stream' = [stream EXCEPT ![s] = new]
         /\ new.at \in {"direction", "combined"} => new.lim # Nil
         /\ \A n \in SlotNames : \/ new.held[n] \in {Nil, stream[s].held[n]}
                                 \/ \E l \in 1..Len(limiter) : new.held[n] = limiter[l][n]
  <2>1. NoBuckets \in [SlotNames -> 0..Len(rate)] /\ \A n \in SlotNames : NoBuckets[n] = Nil
    BY <1>2 DEF NoBuckets, Nil
  <2>2. CASE Wrap(s)
    <3>1. PICK way \in {"download", "upload"} :
             stream' = [stream EXCEPT ![s] = [at |-> IF current = Nil THEN "open" ELSE "direction",
                                              way |-> way, lim |-> current, held |-> NoBuckets]]
      BY <2>2 DEF Wrap
    <3> DEFINE new == [at |-> IF current = Nil THEN "open" ELSE "direction",
                       way |-> way, lim |-> current, held |-> NoBuckets]
    <3>2. new \in StreamType
      BY <1>2, <2>1 DEF StreamType
    <3>3. new.at \in {"direction", "combined"} => new.lim # Nil
      OBVIOUS
    <3>4. new.held = NoBuckets
      OBVIOUS
    <3>5. stream' = [stream EXCEPT ![s] = new]
      BY <3>1
    <3> HIDE DEF new
    <3> QED BY <2>1, <3>2, <3>3, <3>4, <3>5
  <2>3. CASE ReadToEnd(s)
    <3>1. IdleStream \in StreamType /\ IdleStream.at = "idle" /\ IdleStream.held = NoBuckets
      BY <1>2, <2>1 DEF IdleStream, StreamType, Nil
    <3>2. stream' = [stream EXCEPT ![s] = IdleStream]
      BY <2>3 DEF ReadToEnd
    <3> QED BY <2>1, <3>1, <3>2
  <2>4. ASSUME NEW from \in {"direction", "combined"}, NEW slot \in SlotNames,
               NEW to \in {"combined", "open"}, Collect(s, from, slot, to)
        PROVE  \E new \in StreamType :
                 /\ stream' = [stream EXCEPT ![s] = new]
                 /\ new.at \in {"direction", "combined"} => new.lim # Nil
                 /\ \A n \in SlotNames : \/ new.held[n] \in {Nil, stream[s].held[n]}
                                         \/ \E l \in 1..Len(limiter) : new.held[n] = limiter[l][n]
    <3> DEFINE l == stream[s].lim
               held == [stream[s].held EXCEPT ![slot] = limiter[l][slot]]
               new == [stream[s] EXCEPT !.at = to, !.held = held]
    <3>1. l \in 1..Len(limiter)
      <4>1. l \in 0..Len(limiter) /\ l # Nil
        BY <1>2, <2>4 DEF Collect, StreamType
      <4> QED BY <1>2, <4>1 DEF Nil
    <3>2. stream[s].held \in [SlotNames -> 0..Len(rate)] /\ limiter[l][slot] \in 0..Len(rate)
      BY <1>2, <3>1 DEF StreamType, SlotMap
    <3>3. held \in [SlotNames -> 0..Len(rate)]
          /\ \A n \in SlotNames : held[n] = IF n = slot THEN limiter[l][n] ELSE stream[s].held[n]
      BY <3>2
    <3>4. stream' = [stream EXCEPT ![s] = new]
      BY <1>2, <2>4 DEF Collect, StreamType
    <3> HIDE DEF held, l
    <3>5. new \in StreamType /\ new.lim = stream[s].lim /\ new.held = held
      BY <1>2, <3>3 DEF StreamType
    <3>6. new.lim # Nil
      BY <1>2, <2>4, <3>5 DEF Collect
    <3> HIDE DEF new
    <3> QED BY <3>1, <3>3, <3>4, <3>5, <3>6
  <2>5. stream[s].way \in SlotNames /\ "combined" \in SlotNames
    BY <1>2 DEF StreamType, SlotNames
  <2>6. CASE TakeDirection(s)
    <3>1. Collect(s, "direction", stream[s].way, "combined")
      BY <2>6 DEF TakeDirection
    <3> QED BY <2>4, <2>5, <3>1
  <2>7. CASE TakeCombined(s)
    <3>1. Collect(s, "combined", "combined", "open")
      BY <2>7 DEF TakeCombined
    <3> QED BY <2>4, <2>5, <3>1
  <2> QED BY <2>2, <2>3, <2>6, <2>7
<1>4. \A q \in Streams : stream'[q] = IF q = s THEN new ELSE stream[q]
  BY <1>2, <1>3
<1>5. stream' \in [Streams -> StreamType]
  BY <1>2, <1>3
<1>6. CapsTypeOK'
  BY <1>1, <1>2, <1>3, <1>4, <1>5 DEF CapsTypeOK, StreamType
<1>7. ASSUME NEW b \in 1..Len(rate), NEW n \in SlotNames, UsedFor(b, n)' PROVE UsedFor(b, n)
  <2>1. b # Nil
    BY <1>2 DEF Nil
  <2>2. CASE \E q \in Streams : stream'[q].held[n] = b
    BY <1>3, <1>4, <2>1, <2>2 DEF UsedFor
  <2>3. CASE ~(\E q \in Streams : stream'[q].held[n] = b)
    BY <1>1, <1>7, <2>3 DEF UsedFor
  <2> QED BY <2>2, <2>3
<1> QED BY <1>1, <1>6, <1>7 DEF DirectionsApart

LEMMA ApartInit == CapsInit => CapsTypeOK /\ DirectionsApart
<1> SUFFICES ASSUME CapsInit PROVE CapsTypeOK /\ DirectionsApart
  OBVIOUS
<1>1. CapsTypeOK /\ DistinctBuckets /\ Len(limiter) <= 1 /\ current = Len(limiter)
  BY CapsInvInit DEF CapsInv, OneLimiter
<1>2. /\ \A a \in Admins : admin[a].at = "idle"
      /\ \A s \in Streams : \A n \in SlotNames : stream[s].held[n] = Nil
  BY DEF CapsInit, IdleAdmin, IdleStream, NoBuckets
<1>3. Len(limiter) \in Nat /\ Len(rate) \in Nat
  BY <1>1 DEF CapsTypeOK
<1>4. ASSUME NEW b \in 1..Len(rate), NEW n \in SlotNames, UsedFor(b, n)
      PROVE  b # Nil /\ current # Nil /\ Buckets[n] = b
  <2>1. b # Nil
    BY <1>3 DEF Nil
  <2>2. PICK l \in 1..Len(limiter) : limiter[l][n] = b
    BY <1>2, <1>4, <2>1 DEF UsedFor
  <2>3. l = 1 /\ current # Nil
    BY <1>1, <1>3, <2>2 DEF Nil
  <2> QED BY <2>1, <2>2, <2>3 DEF Buckets
<1>5. DirectionsApart
  BY <1>1, <1>4 DEF DirectionsApart, DistinctBuckets
<1> QED BY <1>1, <1>5

LEMMA ApartStep == CapsTypeOK /\ DirectionsApart /\ [CapsNext]_capsVars => CapsTypeOK' /\ DirectionsApart'
<1> SUFFICES ASSUME CapsTypeOK, DirectionsApart, [CapsNext]_capsVars PROVE CapsTypeOK' /\ DirectionsApart'
  OBVIOUS
<1>1. CASE UNCHANGED capsVars
  BY <1>1 DEF capsVars, CapsTypeOK, DirectionsApart, UsedFor
<1>2. CASE CapsNext
  BY <1>2, RequestApart, MakeApart, LookApart, DisableApart, ClearSlotApart, FillSlotApart,
     ChangeRateApart, StreamApart DEF CapsNext
<1> QED BY <1>1, <1>2

\* Whatever requests to /admin/caps overlap, no slot, request or stream refers to a bucket
\* or a limiter that was not made (updateBucket, UpdateCaps, wrapDownload, wrapUpload).
THEOREM CapsTypeCorrect == CapsSpec => []CapsTypeOK
  BY ApartInit, ApartStep, PTL DEF CapsSpec

\* Whatever requests to /admin/caps overlap, and whatever limiters replace one another, no
\* bucket serves two slots: a request that changes the cap of uploads changes the rate of no
\* bucket that a download holds as its own (updateBucket, UpdateCaps, buckets).
THEOREM CapsKeepDirections == CapsSpec => []DirectionsApart
  BY ApartInit, ApartStep, PTL DEF CapsSpec

=============================================================================
