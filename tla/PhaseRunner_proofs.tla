------------------------- MODULE PhaseRunner_proofs -------------------------
(***************************************************************************)
(* Proofs about PhaseRunner, for any phases, plans and waves, any set of   *)
(* configurations and any value of the bounds.                             *)
(***************************************************************************)
EXTENDS PhaseRunner, TLAPS

(***************************************************************************)
(* Type correctness, one group of variables at a time.                     *)
(***************************************************************************)
Views == [has_context : BOOLEAN, has_plans : BOOLEAN]

DiskType == /\ context \subseteq Phases /\ complete \subseteq Phases
            /\ written \subseteq PlanIds /\ summary \subseteq written
            /\ batch \subseteq written /\ running \subseteq written
            /\ fresh \subseteq summary

PlaceType == /\ config \in Configs
             /\ pc \in PCs /\ phase \in Phases /\ attempt \in {1, 2}
             /\ outcome \in {"none", "success", "failure"}

FlagType == /\ stepsOk \in BOOLEAN /\ halted \in BOOLEAN /\ passOk \in BOOLEAN
            /\ gapping \in BOOLEAN /\ stopped \in BOOLEAN

CountType == gaps \in 0..MaxGapRetries /\ cycles \in Nat /\ runs \in Nat

LEMMA TypeParts ==
  TypeOK <=> DiskType /\ PlaceType /\ FlagType /\ CountType /\ op \in Views
BY DEF TypeOK, DiskType, PlaceType, FlagType, CountType, Views

LEMMA InitType == Init => TypeOK
<1> SUFFICES ASSUME Init PROVE TypeOK
  OBVIOUS
<1>1. DiskType
  BY DEF Init, DiskType
<1>2. PlaceType
  BY DEF Init, PlaceType, PCs
<1>3. FlagType
  BY DEF Init, FlagType
<1>4. CountType
  BY ConstantsAssumption DEF Init, CountType
<1>5. op \in Views
  BY DEF Init, NoView, Views
<1> QED
  BY <1>1, <1>2, <1>3, <1>4, <1>5, TypeParts

LEMMA NextDiskType ==
  ASSUME DiskType, PlaceType, [Next]_vars PROVE DiskType'
<1> USE DEF DiskType, PlaceType, disk, exec
<1>1. CASE Milestone
  BY <1>1 DEF Milestone, Analyze, InitPhase, EndPhase
<1>2. CASE Prepare
  BY <1>2 DEF Prepare, Discuss, Discussed, Research, Plan, Planned, BlockerGate,
              PlanCheck, Replan, Recheck, WritePlans, Unwritten
<1>3. CASE Execute
  BY <1>3 DEF Execute, IndexPlans, Written, StartSessions, NextWave, EndPass,
              EndSession
<1>4. CASE VerifyStep
  BY <1>4 DEF VerifyStep, BeginVerify, Verify, Review, GapPlan, WritePlans, Unwritten
<1>5. CASE AdvanceStep
  BY <1>5 DEF AdvanceStep, Advance, AdvanceGate, MarkComplete
<1>6. CASE Restart
  BY <1>6 DEF Restart
<1>7. CASE UNCHANGED vars
  BY <1>7 DEF vars
<1> QED
  BY <1>1, <1>2, <1>3, <1>4, <1>5, <1>6, <1>7 DEF Next, Step

LEMMA NextPlaceType == ASSUME PlaceType, [Next]_vars PROVE PlaceType'
<1> USE DEF PlaceType, PCs
<1>1. CASE Milestone
  BY <1>1 DEF Milestone, Analyze, InitPhase, EndPhase, Todo, FailMilestone
<1>2. CASE Prepare
  BY <1>2 DEF Prepare, Discuss, Discussed, Research, Plan, Planned, BlockerGate,
              PlanCheck, Replan, Recheck, Settle, Push
<1>3. CASE Execute
  BY <1>3 DEF Execute, IndexPlans, StartSessions, EndPass, EndSession, EndExecute,
              Settle
<1>4. CASE VerifyStep
  BY <1>4 DEF VerifyStep, BeginVerify, Verify, Review, GapPlan, EndVerify, Settle
<1>5. CASE AdvanceStep
  BY <1>5 DEF AdvanceStep, Advance, AdvanceGate, MarkComplete, Push
<1>6. CASE Restart
  BY <1>6 DEF Restart
<1>7. CASE UNCHANGED vars
  BY <1>7 DEF vars
<1> QED
  BY <1>1, <1>2, <1>3, <1>4, <1>5, <1>6, <1>7 DEF Next, Step

LEMMA NextFlagType == ASSUME FlagType, [Next]_vars PROVE FlagType'
<1> USE DEF FlagType, exec
<1>1. CASE Milestone
  BY <1>1 DEF Milestone, Analyze, InitPhase, EndPhase
<1>2. CASE Prepare
  BY <1>2 DEF Prepare, Discuss, Discussed, Research, Plan, Planned, BlockerGate,
              PlanCheck, Replan, Recheck, Settle, Push
<1>3. CASE Execute
  BY <1>3 DEF Execute, IndexPlans, StartSessions, EndPass, EndSession, EndExecute,
              Settle
<1>4. CASE VerifyStep
  BY <1>4 DEF VerifyStep, BeginVerify, Verify, Review, GapPlan, EndVerify, Settle
<1>5. CASE AdvanceStep
  BY <1>5 DEF AdvanceStep, Advance, AdvanceGate, MarkComplete, Push
<1>6. CASE Restart
  BY <1>6 DEF Restart
<1>7. CASE UNCHANGED vars
  BY <1>7 DEF vars
<1> QED
  BY <1>1, <1>2, <1>3, <1>4, <1>5, <1>6, <1>7 DEF Next, Step

LEMMA NextCountType == ASSUME CountType, [Next]_vars PROVE CountType'
<1> USE ConstantsAssumption DEF CountType
<1>1. CASE Milestone
  BY <1>1 DEF Milestone, Analyze, InitPhase, EndPhase
<1>2. CASE Prepare
  BY <1>2 DEF Prepare, Discuss, Discussed, Research, Plan, Planned, BlockerGate,
              PlanCheck, Replan, Recheck
<1>3. CASE Execute
  BY <1>3 DEF Execute, IndexPlans, StartSessions, EndPass, EndSession
<1>4. CASE BeginVerify \/ GapPlan
  BY <1>4 DEF BeginVerify, GapPlan
<1>5. CASE Verify
  <2>1. /\ gaps' = gaps \/ (gaps < MaxGapRetries /\ gaps' = gaps + 1)
        /\ cycles' = cycles \/ cycles' = cycles + 1
        /\ runs' = runs
    BY <1>5 DEF Verify
  <2> QED
    BY <2>1
<1>6. CASE Review
  <2>1. /\ gaps' = gaps \/ (gaps < MaxGapRetries /\ gaps' = gaps + 1)
        /\ cycles' = cycles /\ runs' = runs
    BY <1>6 DEF Review
  <2> QED
    BY <2>1
<1>7. CASE AdvanceStep
  BY <1>7 DEF AdvanceStep, Advance, AdvanceGate, MarkComplete
<1>8. CASE Restart
  BY <1>8 DEF Restart
<1>9. CASE UNCHANGED vars
  BY <1>9 DEF vars
<1> QED
  BY <1>1, <1>2, <1>3, <1>4, <1>5, <1>6, <1>7, <1>8, <1>9 DEF Next, Step, VerifyStep

LEMMA ViewType == \A p : View(p) \in Views
<1> TAKE p
<1> DEFINE c == p \in context
           w == Written(p) # {}
<1>1. c \in BOOLEAN /\ w \in BOOLEAN
  OBVIOUS
<1>2. View(p) = [has_context |-> c, has_plans |-> w]
  BY DEF View
<1> HIDE DEF c, w
<1> QED
  BY <1>1, <1>2 DEF Views

LEMMA NextOpType == ASSUME op \in Views, [Next]_vars PROVE op' \in Views
<1>1. CASE Milestone
  BY <1>1, ViewType DEF Milestone, Analyze, InitPhase, EndPhase
<1>2. CASE Prepare
  BY <1>2, ViewType DEF Prepare, Discuss, Discussed, Research, Plan, Planned,
              BlockerGate, PlanCheck, Replan, Recheck, Requery
<1>3. CASE Execute
  BY <1>3 DEF Execute, IndexPlans, StartSessions, EndPass, EndSession
<1>4. CASE VerifyStep
  BY <1>4 DEF VerifyStep, BeginVerify, Verify, Review, GapPlan
<1>5. CASE AdvanceStep
  BY <1>5 DEF AdvanceStep, Advance, AdvanceGate, MarkComplete
<1>6. CASE Restart
  BY <1>6 DEF Restart
<1>7. CASE UNCHANGED vars
  BY <1>7 DEF vars
<1> QED
  BY <1>1, <1>2, <1>3, <1>4, <1>5, <1>6, <1>7 DEF Next, Step

LEMMA NextType == TypeOK /\ [Next]_vars => TypeOK'
<1> SUFFICES ASSUME TypeOK, [Next]_vars PROVE TypeOK'
  OBVIOUS
<1>1. DiskType /\ PlaceType /\ FlagType /\ CountType /\ op \in Views
  BY TypeParts
<1>2. DiskType' /\ PlaceType' /\ FlagType' /\ CountType' /\ op' \in Views
  BY <1>1, NextDiskType, NextPlaceType, NextFlagType, NextCountType, NextOpType
<1> QED
  BY <1>2 DEF TypeOK, DiskType, PlaceType, FlagType, CountType, Views

\* Every variable keeps its type: the files of a phase are those of known
\* plans, a summary is that of a written plan, and gapRetryCount stays within
\* maxGapRetries in each call of runVerifyStep.
THEOREM TypeCorrect == Spec => []TypeOK
BY InitType, NextType, PTL DEF Spec

(***************************************************************************)
(* Waves and sessions.  Outside the wave loop nothing runs, and what the   *)
(* loop has yet to start is neither running nor summarised before it began.*)
(***************************************************************************)
SessionInv ==
  /\ WaveBarrier
  /\ pc # "wave" => running = {}
  /\ batch \cap running = {}
  /\ pc = "wave" => batch \cap summary \subseteq fresh
  /\ pc # "wave" => fresh = {}

LEMMA InitSessions == Init => SessionInv
BY DEF Init, SessionInv, WaveBarrier

LEMMA NextSessions == TypeOK /\ SessionInv /\ [Next]_vars => SessionInv'
<1> SUFFICES ASSUME TypeOK, SessionInv, [Next]_vars PROVE SessionInv'
  OBVIOUS
<1> USE DEF SessionInv, WaveBarrier, Is, disk, exec
<1>1. CASE Milestone
  BY <1>1 DEF Milestone, Analyze, InitPhase, EndPhase, FailMilestone
<1>2. CASE Prepare
  BY <1>2 DEF Prepare, Discuss, Discussed, Research, Plan, Planned, BlockerGate,
              PlanCheck, Replan, Recheck, Settle, Push
<1>3. CASE IndexPlans
  BY <1>3 DEF IndexPlans, EndExecute, Settle
<1>4. CASE StartSessions
  <2> USE DEF StartSessions
  <2>1. /\ UNCHANGED <<config, pc, summary>>
        /\ running' \subseteq batch /\ batch' = batch \ running'
    BY <1>4 DEF NextWave
  <2>2. CASE ~Is("parallelization")
    BY <1>4, <2>1, <2>2
  <2>3. CASE Is("parallelization")
    <3>1. /\ running' = NextWave
          /\ \A e \in batch : WaveOf[e] \in Nat
      BY <1>4, <2>3, ConstantsAssumption DEF TypeOK
    <3>2. \A x, e \in running' : WaveOf[x] = WaveOf[e]
      BY <2>1, <3>1 DEF NextWave
    <3>3. \A x \in running', e \in batch' : WaveOf[x] < WaveOf[e]
      BY <2>1, <3>1 DEF NextWave
    <3> QED
      BY <1>4, <2>1, <2>3, <3>2, <3>3
  <2> QED
    BY <2>2, <2>3
<1>5. CASE EndPass
  BY <1>5 DEF EndPass, EndExecute, Settle
<1>6. ASSUME NEW d \in PlanIds, EndSession(d) PROVE SessionInv'
  BY <1>6 DEF EndSession
<1>7. CASE VerifyStep
  BY <1>7 DEF VerifyStep, BeginVerify, Verify, Review, GapPlan, EndVerify, Settle
<1>8. CASE AdvanceStep
  BY <1>8 DEF AdvanceStep, Advance, AdvanceGate, MarkComplete, Push
<1>9. CASE Restart
  BY <1>9 DEF Restart
<1>10. CASE UNCHANGED vars
  BY <1>10 DEF vars
<1> QED
  BY <1>1, <1>2, <1>3, <1>4, <1>5, <1>6, <1>7, <1>8, <1>9, <1>10
     DEF Next, Step, Execute

LEMMA SessionsInvariant == Spec => [](TypeOK /\ SessionInv)
BY InitType, NextType, InitSessions, NextSessions, PTL DEF Spec

\* The waves of runExecuteStep do not overlap, whatever the numbers of the
\* waves and whichever sessions fail.
THEOREM WavesInOrder == Spec => []WaveBarrier
<1>1. SessionInv => WaveBarrier
  BY DEF SessionInv
<1> QED
  BY <1>1, SessionsInvariant, PTL

\* The only step that starts sessions takes them from the batch.
LEMMA StartedFromBatch ==
  ASSUME [Next]_vars
  PROVE  running' \subseteq running \/ (pc = "wave" /\ running' \subseteq batch)
<1> USE DEF exec
<1>1. CASE Milestone
  BY <1>1 DEF Milestone, Analyze, InitPhase, EndPhase
<1>2. CASE Prepare
  BY <1>2 DEF Prepare, Discuss, Discussed, Research, Plan, Planned, BlockerGate,
              PlanCheck, Replan, Recheck
<1>3. CASE Execute
  BY <1>3 DEF Execute, IndexPlans, StartSessions, NextWave, EndPass, EndSession
<1>4. CASE VerifyStep
  BY <1>4 DEF VerifyStep, BeginVerify, Verify, Review, GapPlan
<1>5. CASE AdvanceStep
  BY <1>5 DEF AdvanceStep, Advance, AdvanceGate, MarkComplete
<1>6. CASE Restart
  BY <1>6 DEF Restart
<1>7. CASE UNCHANGED vars
  BY <1>7 DEF vars
<1> QED
  BY <1>1, <1>2, <1>3, <1>4, <1>5, <1>6, <1>7 DEF Next, Step

\* No session is started for a plan that had a SUMMARY before the pass that
\* starts it: not by another attempt, gap closure or run.  That fresh is empty
\* outside a pass is part of the invariant, so only the pass's own sessions are
\* excepted.
THEOREM NoPlanRerun == Spec => SummarisedNotRerun
<1>1. SessionInv /\ [Next]_vars
        => [\A d \in running' \ running : d \in summary => d \in fresh]_vars
  BY StartedFromBatch DEF SessionInv
<1> QED
  BY <1>1, SessionsInvariant, PTL DEF Spec, SummarisedNotRerun

(***************************************************************************)
(* Gap closures.  The first attempt of the verify step has made at most    *)
(* gapRetryCount of them, the second at most as many more.                 *)
(***************************************************************************)
Before == IF attempt = 1 THEN 0 ELSE MaxGapRetries

CycleInv ==
  /\ GapCyclesBounded
  /\ pc \in {"init", "discuss", "discussed", "discussGate", "research", "plan",
             "planned", "planGate", "check", "replan", "recheck"} => cycles = 0
  /\ pc \in {"index", "wave"} /\ ~gapping => cycles = 0
  /\ gapping => pc \in {"index", "wave"}
  /\ pc = "beginVerify" => cycles <= Before
  /\ pc \in {"verify", "review", "gapPlan"} \/ gapping => cycles <= Before + gaps

LEMMA InitCycles == Init => CycleInv
BY ConstantsAssumption DEF Init, CycleInv, GapCyclesBounded

LEMMA NextCycles == TypeOK /\ CycleInv /\ [Next]_vars => CycleInv'
<1> SUFFICES ASSUME TypeOK, CycleInv, [Next]_vars PROVE CycleInv'
  OBVIOUS
<1>0. /\ MaxGapRetries \in Nat /\ cycles \in Nat /\ gaps \in 0..MaxGapRetries
      /\ attempt \in {1, 2} /\ gapping \in BOOLEAN
  BY ConstantsAssumption DEF TypeOK
<1> USE <1>0 DEF CycleInv, GapCyclesBounded, Before
<1>1. CASE Milestone
  BY <1>1 DEF Milestone, Analyze, InitPhase, EndPhase, FailMilestone
<1>2. CASE Discuss \/ Research \/ Plan \/ PlanCheck
  BY <1>2 DEF Discuss, Research, Plan, PlanCheck, Settle
<1>3. CASE Discussed \/ Planned \/ BlockerGate \/ Replan \/ Recheck
  BY <1>3 DEF Discussed, Planned, BlockerGate, Replan, Recheck, Push
<1>4. CASE IndexPlans
  BY <1>4 DEF IndexPlans, EndExecute, Settle
<1>5. CASE EndPass
  BY <1>5 DEF EndPass, EndExecute, Settle
<1>6. CASE StartSessions \/ \E d \in PlanIds : EndSession(d)
  <2>1. UNCHANGED <<pc, attempt, gapping, gaps, cycles>>
    BY <1>6 DEF StartSessions, EndSession
  <2> QED
    BY <2>1
<1>7. CASE BeginVerify \/ GapPlan
  BY <1>7 DEF BeginVerify, GapPlan
<1>8. CASE Verify
  BY <1>8 DEF Verify, EndVerify, Settle
<1>9. CASE Review
  BY <1>9 DEF Review, EndVerify, Settle
<1>10. CASE AdvanceStep
  BY <1>10 DEF AdvanceStep, Advance, AdvanceGate, MarkComplete, Push
<1>11. CASE Restart
  BY <1>11 DEF Restart
<1>12. CASE UNCHANGED vars
  BY <1>12 DEF vars
<1> QED
  BY <1>1, <1>2, <1>3, <1>4, <1>5, <1>6, <1>7, <1>8, <1>9, <1>10, <1>11, <1>12
     DEF Next, Step, Prepare, Execute, VerifyStep

\* The gap closures of a phase are at most twice maxGapRetries.
THEOREM GapCyclesAreBounded == Spec => []GapCyclesBounded
<1>1. Spec => [](TypeOK /\ CycleInv)
  BY InitType, NextType, InitCycles, NextCycles, PTL DEF Spec
<1>2. CycleInv => GapCyclesBounded
  BY DEF CycleInv
<1> QED
  BY <1>1, <1>2, PTL

(***************************************************************************)
(* Stops.  A run that was stopped has only its end before it.              *)
(***************************************************************************)
StopInv == stopped => \/ pc = "end" /\ (halted \/ ~stepsOk)
                      \/ pc = "over" /\ outcome = "failure"

LEMMA InitStop == Init => StopInv
BY DEF Init, StopInv

LEMMA NextStop == TypeOK /\ StopInv /\ [Next]_vars => StopInv'
<1> SUFFICES ASSUME TypeOK, StopInv, [Next]_vars PROVE StopInv'
  OBVIOUS
<1>0. stopped \in BOOLEAN /\ halted \in BOOLEAN /\ stepsOk \in BOOLEAN
  BY DEF TypeOK
<1> USE <1>0 DEF StopInv
<1>1. CASE Milestone
  BY <1>1 DEF Milestone, Analyze, InitPhase, EndPhase, FailMilestone
<1>2. CASE Prepare
  BY <1>2 DEF Prepare, Discuss, Discussed, Research, Plan, Planned, BlockerGate,
              PlanCheck, Replan, Recheck, Settle, Push
<1>3. CASE Execute
  BY <1>3 DEF Execute, IndexPlans, StartSessions, EndPass, EndSession
<1>4. CASE VerifyStep
  BY <1>4 DEF VerifyStep, BeginVerify, Verify, Review, GapPlan
<1>5. CASE AdvanceStep
  BY <1>5 DEF AdvanceStep, Advance, AdvanceGate, MarkComplete, Push
<1>6. CASE Restart
  BY <1>6 DEF Restart
<1>7. CASE UNCHANGED vars
  BY <1>7 DEF vars
<1> QED
  BY <1>1, <1>2, <1>3, <1>4, <1>5, <1>6, <1>7 DEF Next, Step

\* After a stop no session is started, nothing on disk changes, no phase is
\* completed, and the run does not succeed.
THEOREM StopsAreFinal == Spec => StopIsFinal
<1> DEFINE Quiet == /\ running' \subseteq running /\ UNCHANGED disk
                    /\ outcome' # "success"
<1>1. Spec => [](TypeOK /\ StopInv)
  BY InitType, NextType, InitStop, NextStop, PTL DEF Spec
<1>2. StopInv /\ [Next]_vars => [stopped /\ stopped' => Quiet]_vars
  <2> SUFFICES ASSUME StopInv, Next, stopped, stopped' PROVE Quiet
    OBVIOUS
  <2> USE DEF StopInv, exec, disk
  <2>1. CASE Milestone
    BY <2>1 DEF Milestone, Analyze, InitPhase, EndPhase, FailMilestone
  <2>2. CASE Prepare
    BY <2>2 DEF Prepare, Discuss, Discussed, Research, Plan, Planned, BlockerGate,
                PlanCheck, Replan, Recheck
  <2>3. CASE Execute
    BY <2>3 DEF Execute, IndexPlans, StartSessions, EndPass, EndSession
  <2>4. CASE VerifyStep
    BY <2>4 DEF VerifyStep, BeginVerify, Verify, Review, GapPlan
  <2>5. CASE AdvanceStep
    BY <2>5 DEF AdvanceStep, Advance, AdvanceGate, MarkComplete
  <2>6. CASE Restart
    BY <2>6 DEF Restart
  <2> QED
    BY <2>1, <2>2, <2>3, <2>4, <2>5, <2>6 DEF Next, Step
<1> QED
  BY <1>1, <1>2, PTL DEF Spec, StopIsFinal

(***************************************************************************)
(* PhaseRunner implements MilestoneProgress.  While a phase is run it is   *)
(* the first of the roadmap that is not complete, and the run has no       *)
(* outcome until it is over.                                               *)
(***************************************************************************)
OrderInv ==
  /\ pc \notin {"analyze", "end", "over"} =>
       phase \notin complete /\ \A q \in Phases : q < phase => q \in complete
  /\ outcome = "none" <=> pc # "over"

LEMMA InitOrder == Init => OrderInv
BY DEF Init, OrderInv

LEMMA NextOrder == TypeOK /\ OrderInv /\ [Next]_vars => OrderInv'
<1> SUFFICES ASSUME TypeOK, OrderInv, [Next]_vars PROVE OrderInv'
  OBVIOUS
<1> USE DEF OrderInv, disk
<1>1. CASE Analyze
  <2>1. CASE pc' = "init"
    <3>1. /\ phase' \in Todo /\ \A p \in Todo : phase' <= p
          /\ UNCHANGED <<complete, outcome>>
      BY <1>1, <2>1 DEF Analyze, FailMilestone
    <3>2. \A q \in Phases : q < phase' => q \in complete
      BY <3>1, ConstantsAssumption DEF Todo
    <3> QED
      BY <1>1, <2>1, <3>1, <3>2 DEF Analyze, Todo
  <2>2. CASE pc' = "over" /\ outcome' \in {"success", "failure"}
    BY <2>2
  <2> QED
    BY <1>1, <2>1, <2>2 DEF Analyze, FailMilestone
<1>2. CASE InitPhase \/ EndPhase
  BY <1>2 DEF InitPhase, EndPhase, FailMilestone
<1>3. CASE Prepare
  BY <1>3 DEF Prepare, Discuss, Discussed, Research, Plan, Planned, BlockerGate,
              PlanCheck, Replan, Recheck, Settle, Push
<1>4. CASE Execute
  BY <1>4 DEF Execute, IndexPlans, StartSessions, EndPass, EndSession, EndExecute,
              Settle
<1>5. CASE VerifyStep
  BY <1>5 DEF VerifyStep, BeginVerify, Verify, Review, GapPlan, EndVerify, Settle
<1>6. CASE AdvanceStep
  BY <1>6 DEF AdvanceStep, Advance, AdvanceGate, MarkComplete, Push
<1>7. CASE Restart
  BY <1>7 DEF Restart
<1>8. CASE UNCHANGED vars
  BY <1>8 DEF vars
<1> QED
  BY <1>1, <1>2, <1>3, <1>4, <1>5, <1>6, <1>7, <1>8 DEF Next, Step, Milestone

\* Phases are completed in order, by a run that has not failed, and a run
\* succeeds only when none is left.
THEOREM ImplementsProgress == Spec => ProgressSpec
<1>1. Init => Progress!Init
  BY DEF Init, Progress!Init
<1>2. TypeOK /\ OrderInv /\ [Next]_vars => [Progress!Next]_(Progress!vars)
  <2> SUFFICES ASSUME TypeOK, OrderInv, [Next]_vars
               PROVE  Progress!Next \/ UNCHANGED <<complete, outcome>>
    BY DEF Progress!vars
  <2> USE DEF OrderInv, disk
  <2>1. CASE Analyze
    <3>1. CASE Todo = {} /\ outcome' = "success" /\ UNCHANGED complete
      <4>1. complete = Phases /\ outcome = "none"
        BY <2>1, <3>1 DEF Analyze, Todo, TypeOK
      <4> QED
        BY <3>1, <4>1 DEF Progress!Next, Progress!Succeed
    <3>2. CASE outcome' = "failure" /\ UNCHANGED complete
      BY <2>1, <3>2 DEF Analyze, Progress!Next, Progress!Fail
    <3> QED
      BY <2>1, <3>1, <3>2 DEF Analyze, FailMilestone
  <2>2. CASE InitPhase \/ EndPhase
    BY <2>2 DEF InitPhase, EndPhase, FailMilestone, Progress!Next, Progress!Fail
  <2>3. CASE Prepare
    BY <2>3 DEF Prepare, Discuss, Discussed, Research, Plan, Planned, BlockerGate,
                PlanCheck, Replan, Recheck
  <2>4. CASE Execute
    BY <2>4 DEF Execute, IndexPlans, StartSessions, EndPass, EndSession
  <2>5. CASE VerifyStep
    BY <2>5 DEF VerifyStep, BeginVerify, Verify, Review, GapPlan
  <2>6. CASE Advance \/ AdvanceGate
    BY <2>6 DEF Advance, AdvanceGate
  <2>7. CASE MarkComplete
    <3>1. CASE complete' = complete /\ UNCHANGED outcome
      BY <3>1
    <3>2. CASE complete' = complete \cup {phase} /\ UNCHANGED outcome
      <4>1. Progress!CompletePhase(phase) /\ phase \in Phases
        BY <2>7, <3>2 DEF MarkComplete, TypeOK, Progress!CompletePhase
      <4> QED
        BY <4>1 DEF Progress!Next
    <3> QED
      BY <2>7, <3>1, <3>2 DEF MarkComplete
  <2>8. CASE Restart
    <3>1. outcome = "none" \/ outcome = "failure"
      BY <2>8 DEF Restart, TypeOK
    <3> QED
      BY <2>8, <3>1 DEF Restart, Progress!Next, Progress!Restart
  <2>9. CASE UNCHANGED vars
    BY <2>9 DEF vars
  <2> QED
    BY <2>1, <2>2, <2>3, <2>4, <2>5, <2>6, <2>7, <2>8, <2>9
       DEF Next, Step, Milestone, AdvanceStep
<1>3. Spec => [](TypeOK /\ OrderInv)
  BY InitType, NextType, InitOrder, NextOrder, PTL DEF Spec
<1> QED
  BY <1>1, <1>2, <1>3, PTL DEF Spec, ProgressSpec, Progress!Spec
=============================================================================
