---------------------------- MODULE PhaseRunner ----------------------------
(***************************************************************************)
(* The GSD run of a plan: the milestone loop of GSD.run, and for each      *)
(* phase the lifecycle of PhaseRunner.run: discuss, research, plan,        *)
(* plan-check, execute in waves, verify with gap closure, advance.         *)
(*                                                                         *)
(* A step is a model session, or several.  What a session leaves on disk   *)
(* (a CONTEXT.md, PLAN files, a SUMMARY) does not depend on whether it is  *)
(* reported as a success, so both are free.  The state on disk outlives    *)
(* the run when the project has a workspace of its own (WorkspaceService): *)
(* /retry, and the recovery of an interrupted plan, start GSD.run again in *)
(* it.                                                                     *)
(***************************************************************************)
EXTENDS Naturals, FiniteSets

CONSTANTS
  Phases,         \* the phases of the roadmap, as parseFloat reads their numbers
  PlanIds,        \* the plans that the sessions may write
  PhaseOf,        \* the phase of a plan
  WaveOf,         \* the wave of a plan, from its frontmatter
  Configs,        \* the configurations checked
  MaxGapRetries,  \* PhaseRunnerOptions.maxGapRetries
  MaxRuns         \* bound: runs of GSD.run

Flags == {"attended", "skip_discuss", "auto_advance", "research", "plan_check",
          "verifier", "parallelization"}

ASSUME ConstantsAssumption ==
  /\ Phases \subseteq Nat
  /\ PhaseOf \in [PlanIds -> Phases]
  /\ WaveOf \in [PlanIds -> Nat]
  /\ Configs \subseteq SUBSET Flags
  /\ MaxGapRetries \in Nat /\ MaxRuns \in Nat

VARIABLES
  config,    \* the flags that are set; attended: there are human gate callbacks
  context,   \* disk: the phases with a CONTEXT.md
  written,   \* disk: the plans with a PLAN file
  summary,   \* disk: the plans with a SUMMARY
  complete,  \* disk: the phases that the roadmap marks complete
  pc,        \* where the run is
  phase,     \* the phase it runs
  op,        \* phaseOp: what the last successful query said of the phase
  attempt,   \* of retryOnce: the first call or the second
  stepsOk,   \* have all the steps pushed so far succeeded?
  halted,
  batch,     \* runExecuteStep: indexed plans that are not started
  running,   \* runExecuteStep: plans whose session is running
  fresh,     \* history: plans summarised since the pass read its index
  passOk,    \* runExecuteStep: has no session of this pass failed?
  gapping,   \* is runExecuteStep called by the gap closure?
  gaps,      \* gapRetryCount
  cycles,    \* history: gap closures of the phase in this run
  stopped,   \* history: a gate of this run was answered with stop
  outcome,   \* of GSD.run
  runs       \* runs used of the bound

disk == <<context, written, summary, complete>>
exec == <<batch, running, fresh, passOk>>
vars == <<config, context, written, summary, complete, pc, phase, op, attempt,
          stepsOk, halted, batch, running, fresh, passOk, gapping, gaps, cycles,
          stopped, outcome, runs>>

----------------------------------------------------------------------------
Is(flag) == flag \in config
Written(p) == {d \in written : PhaseOf[d] = p}
Unwritten(p) == {d \in PlanIds \ written : PhaseOf[d] = p}

\* initPhaseOp: what is on disk for the phase.
View(p) == [has_context |-> p \in context, has_plans |-> Written(p) # {}]
NoView == [has_context |-> FALSE, has_plans |-> FALSE]

\* A re-query that fails keeps the view it has.
Requery == op' \in {View(phase), op}

\* Mutant: retryOnce gives the step as many attempts as it needs.
Settle_Forever(ok, again, next) ==
  \/ ok /\ pc' = next /\ attempt' = 1 /\ UNCHANGED stepsOk
  \/ ~ok /\ pc' = again /\ attempt' = 2 /\ UNCHANGED stepsOk

\* retryOnce: a step that fails is called again, once; the result of the last
\* call is pushed.
Settle(ok, again, next) ==
  \/ ok /\ pc' = next /\ attempt' = 1 /\ UNCHANGED stepsOk
  \/ ~ok /\ attempt = 1 /\ attempt' = 2 /\ pc' = again /\ UNCHANGED stepsOk
  \/ ~ok /\ attempt = 2 /\ attempt' = 1 /\ pc' = next /\ stepsOk' = FALSE

\* A step that is not retried.
Push(ok, next) == /\ pc' = next
                  /\ stepsOk' = (stepsOk /\ ok)
                  /\ UNCHANGED attempt

\* invokeBlockerCallback: a retry, an unknown answer (the bot sends approve to
\* every gate), a callback that throws and a missing callback all mean skip.
BlockerAnswers == IF Is("attended") THEN {"skip", "stop"} ELSE {"skip"}
\* invokeVerificationCallback: likewise, accept.
ReviewAnswers == IF Is("attended") THEN {"accept", "retry", "reject"} ELSE {"accept"}

----------------------------------------------------------------------------
Init ==
  /\ config \in Configs
  /\ context = {} /\ written = {} /\ summary = {} /\ complete = {}
  /\ pc = "analyze"
  /\ phase \in Phases
  /\ op = NoView
  /\ attempt = 1
  /\ stepsOk = TRUE /\ halted = FALSE
  /\ batch = {} /\ running = {} /\ fresh = {} /\ passOk = TRUE
  /\ gapping = FALSE
  /\ gaps = 0 /\ cycles = 0
  /\ stopped = FALSE
  /\ outcome = "none"
  /\ runs = 1

----------------------------------------------------------------------------
(* GSD.run, as the pipeline calls it: without onPhaseComplete.             *)
Todo == Phases \ complete
FailMilestone == pc' = "over" /\ outcome' = "failure"

\* Mutant: any phase that is not complete.
Analyze_AnyOrder ==
  /\ pc = "analyze"
  /\ phase' \in Todo
  /\ pc' = "init" /\ stepsOk' = TRUE /\ cycles' = 0
  /\ UNCHANGED <<config, disk, op, attempt, halted, exec, gapping, gaps, stopped,
                 outcome, runs>>

\* roadmapAnalyze, filterAndSortPhases, and the head of the list; an analysis
\* that fails ends the run.
Analyze ==
  /\ pc = "analyze"
  /\ \/ /\ phase' \in Todo
        /\ \A p \in Todo : phase' <= p
        /\ pc' = "init" /\ stepsOk' = TRUE /\ cycles' = 0
        /\ UNCHANGED outcome
     \/ /\ Todo = {}
        /\ pc' = "over" /\ outcome' = "success"
        /\ UNCHANGED <<phase, stepsOk, cycles>>
     \/ FailMilestone /\ UNCHANGED <<phase, stepsOk, cycles>>
  /\ UNCHANGED <<config, disk, op, attempt, halted, exec, gapping, gaps, stopped, runs>>

\* loadConfig and the first query; when it fails, or does not find the phase,
\* runPhase throws.
InitPhase ==
  /\ pc = "init"
  /\ \/ op' = View(phase) /\ pc' = "discuss" /\ UNCHANGED outcome
     \/ FailMilestone /\ UNCHANGED op
  /\ UNCHANGED <<config, disk, phase, attempt, stepsOk, halted, exec, gapping,
                 gaps, cycles, stopped, runs>>

\* The end of PhaseRunner.run, and what the loop makes of its result.
EndPhase ==
  /\ pc = "end"
  /\ \/ ~halted /\ stepsOk /\ pc' = "analyze" /\ UNCHANGED outcome
     \/ (halted \/ ~stepsOk) /\ FailMilestone
  /\ UNCHANGED <<config, disk, phase, op, attempt, stepsOk, halted, exec, gapping,
                 gaps, cycles, stopped, runs>>

----------------------------------------------------------------------------
(* Discuss, research, plan and plan-check.                                 *)

\* Discuss, or self-discuss with auto_advance: skipped when there is a context
\* or the configuration says so.
Discuss ==
  /\ pc = "discuss"
  /\ \/ /\ op.has_context \/ Is("skip_discuss")
        /\ pc' = "research"
        /\ UNCHANGED <<context, attempt, stepsOk>>
     \/ /\ ~op.has_context /\ ~Is("skip_discuss")
        /\ context' \in {context, context \cup {phase}}
        /\ \E ok \in BOOLEAN : Settle(ok, "discuss", "discussed")
  /\ UNCHANGED <<config, written, summary, complete, phase, op, halted, exec,
                 gapping, gaps, cycles, stopped, outcome, runs>>

Discussed ==
  /\ pc = "discussed"
  /\ Requery
  /\ pc' = IF op'.has_context THEN "research" ELSE "discussGate"
  /\ UNCHANGED <<config, disk, phase, attempt, stepsOk, halted, exec, gapping,
                 gaps, cycles, stopped, outcome, runs>>

Research ==
  /\ pc = "research"
  /\ \/ ~Is("research") /\ pc' = "plan" /\ UNCHANGED <<attempt, stepsOk>>
     \/ Is("research") /\ \E ok \in BOOLEAN : Settle(ok, "research", "plan")
  /\ UNCHANGED <<config, disk, phase, op, halted, exec, gapping, gaps, cycles,
                 stopped, outcome, runs>>

\* A plan session writes any number of new plans of the phase.
WritePlans == \E D \in SUBSET Unwritten(phase) : written' = written \cup D

Plan ==
  /\ pc = "plan"
  /\ WritePlans
  /\ \E ok \in BOOLEAN : Settle(ok, "plan", "planned")
  /\ UNCHANGED <<config, context, summary, complete, phase, op, halted, exec,
                 gapping, gaps, cycles, stopped, outcome, runs>>

Planned ==
  /\ pc = "planned"
  /\ Requery
  /\ pc' = IF op'.has_plans THEN "check" ELSE "planGate"
  /\ UNCHANGED <<config, disk, phase, attempt, stepsOk, halted, exec, gapping,
                 gaps, cycles, stopped, outcome, runs>>

\* Mutant: a stop is taken for a skip.
BlockerGate_Skips ==
  /\ pc \in {"discussGate", "planGate"}
  /\ \E answer \in BlockerAnswers : stopped' = (answer = "stop")
  /\ pc' = IF pc = "discussGate" THEN "research" ELSE "check"
  /\ UNCHANGED <<config, disk, phase, op, attempt, stepsOk, halted, exec, gapping,
                 gaps, cycles, outcome, runs>>

\* onBlockerDecision, when a step has not left what it should have.
BlockerGate ==
  /\ pc \in {"discussGate", "planGate"}
  /\ \/ /\ "skip" \in BlockerAnswers
        /\ pc' = IF pc = "discussGate" THEN "research" ELSE "check"
        /\ UNCHANGED <<halted, stopped>>
     \/ /\ "stop" \in BlockerAnswers
        /\ pc' = "end" /\ halted' = TRUE /\ stopped' = TRUE
  /\ UNCHANGED <<config, disk, phase, op, attempt, stepsOk, exec, gapping, gaps,
                 cycles, outcome, runs>>

\* The step that fails twice stays among the steps of the phase, whatever the
\* re-plan and the re-check make of it.
PlanCheck ==
  /\ pc = "check"
  /\ \/ ~Is("plan_check") /\ pc' = "index" /\ UNCHANGED <<attempt, stepsOk>>
     \/ Is("plan_check") /\ Settle(TRUE, "check", "index")
     \/ Is("plan_check") /\ Settle(FALSE, "check", "replan")
  /\ UNCHANGED <<config, disk, phase, op, halted, exec, gapping, gaps, cycles,
                 stopped, outcome, runs>>

Replan ==
  /\ pc = "replan"
  /\ WritePlans
  /\ \E ok \in BOOLEAN : Push(ok, "recheck")
  /\ UNCHANGED <<config, context, summary, complete, phase, op, halted, exec,
                 gapping, gaps, cycles, stopped, outcome, runs>>

Recheck ==
  /\ pc = "recheck"
  /\ \E ok \in BOOLEAN : Push(ok, "index")
  /\ UNCHANGED <<config, disk, phase, op, halted, exec, gapping, gaps, cycles,
                 stopped, outcome, runs>>

----------------------------------------------------------------------------
(* Execute: runExecuteStep, called by run and by the gap closure, which     *)
(* ignores its result.                                                      *)
EndExecute(ok) ==
  \/ gapping /\ gapping' = FALSE /\ pc' = "verify" /\ UNCHANGED <<attempt, stepsOk>>
  \/ ~gapping /\ Settle(ok, "index", "beginVerify") /\ UNCHANGED gapping

\* Mutant: the filter on has_summary is dropped.
IndexPlans_All ==
  /\ pc = "index"
  /\ batch' = Written(phase)
  /\ passOk' = TRUE /\ pc' = "wave"
  /\ UNCHANGED <<config, disk, phase, op, attempt, stepsOk, halted, running, fresh, gapping,
                 gaps, cycles, stopped, outcome, runs>>

\* phasePlanIndex, and the plans that have no summary.
IndexPlans ==
  /\ pc = "index"
  /\ \/ /\ batch' = Written(phase) \ summary
        /\ passOk' = TRUE /\ pc' = "wave"
        /\ UNCHANGED <<attempt, stepsOk, gapping>>
     \/ EndExecute(FALSE) /\ UNCHANGED <<batch, passOk>>
  /\ UNCHANGED <<config, disk, phase, op, halted, running, fresh, gaps, cycles,
                 stopped, outcome, runs>>

\* Mutant: a wave takes every plan of the batch.
NextWave_Flat == batch

\* The plans of the lowest wave; with parallelization off, one plan at a time.
NextWave == {d \in batch : \A e \in batch : WaveOf[d] <= WaveOf[e]}

StartSessions ==
  /\ pc = "wave"
  /\ running = {} /\ batch # {}
  /\ \/ Is("parallelization") /\ running' = NextWave
     \/ ~Is("parallelization") /\ \E d \in batch : running' = {d}
  /\ batch' = batch \ running'
  /\ UNCHANGED <<config, disk, pc, phase, op, attempt, stepsOk, halted, fresh, passOk,
                 gapping, gaps, cycles, stopped, outcome, runs>>

\* A session ends, and may have written the SUMMARY of any plan of the phase: its
\* prompt names none.  executeSinglePlan turns an exception into a failure.
EndSession(d) ==
  /\ pc = "wave"
  /\ d \in running
  /\ running' = running \ {d}
  /\ \E D \in SUBSET Written(phase) : summary' = summary \cup D
  /\ fresh' = fresh \cup (summary' \ summary)
  /\ passOk' \in {passOk, FALSE}
  /\ UNCHANGED <<config, context, written, complete, pc, phase, op, attempt, stepsOk,
                 halted, batch, gapping, gaps, cycles, stopped, outcome, runs>>

EndPass ==
  /\ pc = "wave"
  /\ running = {} /\ batch = {}
  /\ EndExecute(passOk)
  /\ fresh' = {}
  /\ UNCHANGED <<config, disk, phase, op, halted, batch, running, passOk, gaps,
                 cycles, stopped, outcome, runs>>

----------------------------------------------------------------------------
(* Verify: runVerifyStep, a loop that starts from zero in each attempt.    *)
EndVerify(ok) == Settle(ok, "beginVerify", "advance") /\ UNCHANGED halted

BeginVerify ==
  /\ pc = "beginVerify"
  /\ gaps' = 0
  /\ pc' = IF Is("verifier") THEN "verify" ELSE "advance"
  /\ UNCHANGED <<config, disk, phase, op, attempt, stepsOk, halted, exec, gapping,
                 cycles, stopped, outcome, runs>>

\* Mutant: the gap closure does not count its attempts.
Verify_Uncounted ==
  /\ pc = "verify"
  /\ \/ \E ok \in BOOLEAN : EndVerify(ok) /\ UNCHANGED cycles
     \/ /\ gaps < MaxGapRetries
        /\ pc' = "gapPlan"
        /\ cycles' = IF cycles > 2 * MaxGapRetries THEN cycles ELSE cycles + 1
        /\ UNCHANGED <<attempt, stepsOk, halted>>
  /\ UNCHANGED <<config, disk, phase, op, exec, gapping, gaps, stopped, outcome, runs>>

\* Mutant: off by one in the bound of the gap closures.
Verify_OneMore ==
  /\ pc = "verify"
  /\ gaps <= MaxGapRetries
  /\ gaps' = gaps + 1 /\ cycles' = cycles + 1
  /\ pc' = "gapPlan"
  /\ UNCHANGED <<config, disk, phase, op, attempt, stepsOk, halted, exec, gapping,
                 stopped, outcome, runs>>

\* The session passes, throws, asks for a human, or finds gaps; gaps that
\* remain when the retries are used up are passed over.
Verify ==
  /\ pc = "verify"
  /\ \/ \E ok \in BOOLEAN : EndVerify(ok) /\ UNCHANGED <<gaps, cycles>>
     \/ pc' = "review" /\ UNCHANGED <<attempt, stepsOk, halted, gaps, cycles>>
     \/ /\ gaps < MaxGapRetries
        /\ gaps' = gaps + 1 /\ cycles' = cycles + 1
        /\ pc' = "gapPlan"
        /\ UNCHANGED <<attempt, stepsOk, halted>>
     \/ gaps >= MaxGapRetries /\ EndVerify(TRUE) /\ UNCHANGED <<gaps, cycles>>
  /\ UNCHANGED <<config, disk, phase, op, exec, gapping, stopped, outcome, runs>>

\* onVerificationReview.  What is not accepted, nor retried within the bound,
\* fails the step as halted_by_callback: retryOnce runs it again all the same,
\* and only the second time the run halts.
Review ==
  /\ pc = "review"
  /\ \E answer \in ReviewAnswers :
       \/ answer = "accept" /\ EndVerify(TRUE) /\ UNCHANGED gaps
       \/ /\ answer = "retry" /\ gaps < MaxGapRetries
          /\ gaps' = gaps + 1 /\ pc' = "verify"
          /\ UNCHANGED <<attempt, stepsOk, halted>>
       \/ /\ answer = "reject" \/ (answer = "retry" /\ gaps >= MaxGapRetries)
          /\ Settle(FALSE, "beginVerify", "end")
          /\ halted' = (attempt = 2)
          /\ UNCHANGED gaps
  /\ UNCHANGED <<config, disk, phase, op, exec, gapping, cycles, stopped, outcome, runs>>

\* The plan session of a gap closure; its failure, and that of the re-query
\* after it, are ignored.
GapPlan ==
  /\ pc = "gapPlan"
  /\ WritePlans
  /\ gapping' = TRUE
  /\ pc' = "index"
  /\ UNCHANGED <<config, context, summary, complete, phase, op, attempt, stepsOk,
                 halted, exec, gaps, cycles, stopped, outcome, runs>>

----------------------------------------------------------------------------
(* Advance: runAdvanceStep.                                                *)
Advance ==
  /\ pc = "advance"
  /\ pc' = IF Is("auto_advance") \/ ~Is("attended") THEN "mark" ELSE "advanceGate"
  /\ UNCHANGED <<config, disk, phase, op, attempt, stepsOk, halted, exec, gapping,
                 gaps, cycles, stopped, outcome, runs>>

AdvanceGate ==
  /\ pc = "advanceGate"
  /\ \/ pc' = "mark" /\ UNCHANGED <<attempt, stepsOk, stopped>>
     \/ Push(FALSE, "end") /\ stopped' = TRUE
  /\ UNCHANGED <<config, disk, phase, op, halted, exec, gapping, gaps, cycles,
                 outcome, runs>>

\* phaseComplete; a call that times out may have marked the phase.
MarkComplete ==
  /\ pc = "mark"
  /\ \/ complete' = complete \cup {phase} /\ Push(TRUE, "end")
     \/ complete' \in {complete, complete \cup {phase}} /\ Push(FALSE, "end")
  /\ UNCHANGED <<config, context, written, summary, phase, op, halted, exec,
                 gapping, gaps, cycles, stopped, outcome, runs>>

----------------------------------------------------------------------------
(* The plan is retried after a failure, or recovered after a crash: GSD.run *)
(* starts again and nothing but the disk is left of the run before.         *)
Restart ==
  /\ outcome # "success"
  /\ runs < MaxRuns
  /\ runs' = runs + 1
  /\ pc' = "analyze"
  /\ attempt' = 1
  /\ halted' = FALSE /\ stopped' = FALSE
  /\ batch' = {} /\ running' = {} /\ fresh' = {}
  /\ gapping' = FALSE
  /\ outcome' = "none"
  /\ UNCHANGED <<config, disk, phase, op, stepsOk, passOk, gaps, cycles>>

----------------------------------------------------------------------------
Milestone == Analyze \/ InitPhase \/ EndPhase
Prepare == \/ Discuss \/ Discussed \/ Research \/ Plan \/ Planned \/ BlockerGate
           \/ PlanCheck \/ Replan \/ Recheck
Execute == \/ IndexPlans \/ StartSessions \/ EndPass
           \/ \E d \in PlanIds : EndSession(d)
VerifyStep == BeginVerify \/ Verify \/ Review \/ GapPlan
AdvanceStep == Advance \/ AdvanceGate \/ MarkComplete

Step == Milestone \/ Prepare \/ Execute \/ VerifyStep \/ AdvanceStep

Next == Step \/ Restart

Spec == Init /\ [][Next]_vars

(* What the code does not see to: every session ends (nothing limits it in  *)
(* time) and every gate is answered.  What follows is said of such runs.    *)
FairSpec == Spec /\ WF_vars(Step)

----------------------------------------------------------------------------
(* Type invariant.                                                         *)
PCs == {"analyze", "init", "discuss", "discussed", "discussGate", "research",
        "plan", "planned", "planGate", "check", "replan", "recheck", "index",
        "wave", "beginVerify", "verify", "review", "gapPlan", "advance",
        "advanceGate", "mark", "end", "over"}

TypeOK ==
  /\ config \in Configs
  /\ context \subseteq Phases /\ complete \subseteq Phases
  /\ written \subseteq PlanIds /\ summary \subseteq written
  /\ pc \in PCs
  /\ phase \in Phases
  /\ op \in [has_context : BOOLEAN, has_plans : BOOLEAN]
  /\ attempt \in {1, 2}
  /\ stepsOk \in BOOLEAN /\ halted \in BOOLEAN
  /\ batch \subseteq written /\ running \subseteq written /\ fresh \subseteq summary
  /\ passOk \in BOOLEAN /\ gapping \in BOOLEAN
  /\ gaps \in 0..MaxGapRetries /\ cycles \in Nat
  /\ stopped \in BOOLEAN
  /\ outcome \in {"none", "success", "failure"}
  /\ runs \in Nat

----------------------------------------------------------------------------
(* Safety.                                                                 *)

\* Waves are executed one after the other: the sessions that run together are
\* of one wave, and while one runs, every plan that the pass has yet to start is
\* of a later wave; with parallelization off there is one session at a time.
WaveBarrier ==
  IF Is("parallelization")
  THEN \A d \in running : /\ \A e \in running : WaveOf[d] = WaveOf[e]
                          /\ \A e \in batch : WaveOf[d] < WaveOf[e]
  ELSE \A d, e \in running : d = e

\* No session is started for a plan that was summarised before its pass began:
\* by the pass of the first attempt, of another gap closure, or of the run before
\* a crash.  Within a pass it does happen: the index is read once, and a session
\* of an earlier wave may have done the work of a later one.
SummarisedNotRerun ==
  [][\A d \in running' \ running : d \in summary => d \in fresh]_vars

\* After a gate is answered with stop the run starts no session, writes nothing
\* and completes no phase, and it does not succeed.
StopIsFinal ==
  [][stopped /\ stopped' =>
       /\ running' \subseteq running /\ UNCHANGED disk
       /\ outcome' # "success"]_vars

\* Gap closures are bounded, but by twice the configured number: retryOnce
\* gives the verify step a second set of retries.
GapCyclesBounded == cycles <= 2 * MaxGapRetries

\* What phase-runner.ts:768 and types.ts:850 say, and the code does not do:
\* "capped at configurable maxGapRetries".
GapCyclesCapped == cycles <= MaxGapRetries

\* A milestone run completes the phases in order and succeeds only when it has
\* completed them all: see MilestoneProgress.
Progress == INSTANCE MilestoneProgress
ProgressSpec == Progress!Spec

----------------------------------------------------------------------------
(* Liveness.                                                               *)

\* Retries, gap closures and the milestone loop all end: a run whose sessions
\* end and whose gates are answered reaches an outcome.
RunEnds == outcome = "none" ~> outcome # "none"
=============================================================================
