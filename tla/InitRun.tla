-------------------------------- MODULE InitRun --------------------------------
(***************************************************************************)
(* InitRunner.run: set-up, config.json, PROJECT.md, parallel research, and    *)
(* what is made of it (SUMMARY.md, REQUIREMENTS.md, ROADMAP.md, STATE.md), in *)
(* one project directory, over crashes and renewed runs.                      *)
(*                                                                         *)
(* A step that needs the model runs a session, which writes its files when it *)
(* likes, whether it then succeeds or not, and may succeed without having     *)
(* written them: InitRunner asks only for the result of the session.  Two     *)
(* runs in one directory at a time are not considered.                        *)
(***************************************************************************)
EXTENDS Naturals, FiniteSets

CONSTANTS
  ResearchTypes,   \* the research sessions that run in parallel
  MaxInits,        \* bound: runs
  MaxInitCrashes   \* bound: runs that end with their process

ASSUME InitRunAssumption ==
  /\ ResearchTypes # {} /\ IsFiniteSet(ResearchTypes)
  /\ ResearchTypes \cap {"setup", "config", "project", "synthesis", "requirements", "roadmap"} = {}
  /\ MaxInits \in Nat /\ MaxInitCrashes \in Nat

VARIABLES
  planning,      \* the files of .planning
  hasGit,        \* the directory is a repository
  initRun,       \* where the run is, what set-up told it, and how many there were
  openSteps,     \* steps whose start event has no complete event yet
  stepResults,   \* what each step of the run came to
  artifacts,     \* the files the run lists
  report,        \* what the run returned
  projectWriters \* history: runs whose session wrote the PROJECT.md that is there

initRunVars ==
  <<planning, hasGit, initRun, openSteps, stepResults, artifacts, report, projectWriters>>

----------------------------------------------------------------------------
SessionSteps == {"project", "synthesis", "requirements", "roadmap"} \cup ResearchTypes
InitSteps == {"setup", "config"} \cup SessionSteps

FilesOf(step) ==
  CASE step = "config" -> {"config.json"}
    [] step = "project" -> {"PROJECT.md"}
    [] step = "synthesis" -> {"SUMMARY.md"}
    [] step = "requirements" -> {"REQUIREMENTS.md"}
    [] step = "roadmap" -> {"ROADMAP.md", "STATE.md"}
    [] step \in ResearchTypes -> {step}
    [] OTHER -> {}
InitFiles == UNION {FilesOf(step) : step \in InitSteps}

\* The step or steps that follow a step that went well.
Following ==
  [setup |-> {"config"}, config |-> {"project"}, project |-> ResearchTypes,
   synthesis |-> {"requirements"}, requirements |-> {"roadmap"}, roadmap |-> {}]

InitRunInit ==
  /\ planning = {}
  /\ hasGit \in BOOLEAN
  /\ initRun = [pc |-> "idle", number |-> 0, crashes |-> 0, commitDocs |-> FALSE]
  /\ openSteps = {}
  /\ stepResults = [step \in InitSteps |-> "none"]
  /\ artifacts = {} /\ report = "none" /\ projectWriters = {}

\* buildResult.
Return(success) ==
  /\ initRun' = [initRun EXCEPT !.pc = "idle"]
  /\ report' = IF success THEN "success" ELSE "failure"

AllResearched == \A r \in ResearchTypes : stepResults[r] = "ok"

\* runStep, its success and its failure.  A step that fails ends the run.
StepSucceeds(step) ==
  /\ stepResults' = [stepResults EXCEPT ![step] = "ok"]
  /\ openSteps' = (openSteps \ {step}) \cup Following[step]
  /\ IF step = "roadmap" THEN Return(AllResearched)
     ELSE initRun' = [initRun EXCEPT !.pc = "step"] /\ UNCHANGED report

\* Mutant: the result of the step is pushed and not looked at.
StepFails_GoesOn(step) ==
  /\ stepResults' = [stepResults EXCEPT ![step] = "failed"]
  /\ IF step = "config"
     THEN /\ openSteps' = (openSteps \ {step}) \cup Following[step]
          /\ initRun' = [initRun EXCEPT !.pc = "step"] /\ UNCHANGED report
     ELSE openSteps' = openSteps \ {step} /\ Return(FALSE)

StepFails(step) ==
  /\ stepResults' = [stepResults EXCEPT ![step] = "failed"]
  /\ openSteps' = openSteps \ {step}
  /\ Return(FALSE)

----------------------------------------------------------------------------
StartInit ==
  /\ initRun.pc = "idle" /\ initRun.number < MaxInits
  /\ initRun' = [initRun EXCEPT !.pc = "step", !.number = @ + 1]
  /\ openSteps' = {"setup"}
  /\ stepResults' = [step \in InitSteps |-> "none"]
  /\ artifacts' = {} /\ report' = "none"
  /\ UNCHANGED <<planning, hasGit, projectWriters>>

At(step) == initRun.pc = "step" /\ step \in openSteps

\* Mutant: the project_exists of gsd-tools is not looked at.
MayInitialise_Always == TRUE

MayInitialise == "PROJECT.md" \notin planning

\* The answer of gsd-tools init new-project.  An error of the tool and a project
\* that exists already are the same to the run.
SetupStep ==
  /\ At("setup")
  /\ \/ /\ MayInitialise
        /\ \E docs \in BOOLEAN :
             /\ stepResults' = [stepResults EXCEPT !.setup = "ok"]
             /\ openSteps' = Following.setup
             /\ initRun' = [initRun EXCEPT !.commitDocs = docs,
                                           !.pc = IF hasGit THEN "write" ELSE "git"]
        /\ UNCHANGED report
     \/ StepFails("setup")
  /\ UNCHANGED <<planning, hasGit, artifacts, projectWriters>>

GitInit ==
  /\ initRun.pc = "git"
  /\ \/ /\ hasGit' = TRUE
        /\ initRun' = [initRun EXCEPT !.pc = "write"]
        /\ UNCHANGED <<openSteps, stepResults, report>>
     \/ StepFails("config") /\ UNCHANGED hasGit
  /\ UNCHANGED <<planning, artifacts, projectWriters>>

\* mkdir and writeFile.
WriteConfig ==
  /\ initRun.pc = "write"
  /\ \/ /\ planning' = planning \cup FilesOf("config")
        /\ artifacts' = artifacts \cup FilesOf("config")
        /\ initRun' = [initRun EXCEPT !.pc = "set"]
        /\ UNCHANGED <<openSteps, stepResults, report>>
     \/ StepFails("config") /\ UNCHANGED <<planning, artifacts>>
  /\ UNCHANGED <<hasGit, projectWriters>>

SetConfig ==
  /\ initRun.pc = "set"
  /\ \/ /\ initRun.commitDocs
        /\ initRun' = [initRun EXCEPT !.pc = "commit"]
        /\ UNCHANGED <<openSteps, stepResults, report>>
     \/ ~initRun.commitDocs /\ StepSucceeds("config")
     \/ StepFails("config")
  /\ UNCHANGED <<planning, hasGit, artifacts, projectWriters>>

\* tools.commit, the last thing that a step does.
CommitDocs(step) ==
  /\ initRun.pc = "commit" /\ step \in openSteps
  /\ StepSucceeds(step) \/ StepFails(step)
  /\ UNCHANGED <<planning, hasGit, artifacts, projectWriters>>

----------------------------------------------------------------------------
\* The session of a step writes one of its files.
SessionWrites(step, file) ==
  /\ At(step) /\ file \in FilesOf(step)
  /\ planning' = planning \cup {file}
  /\ projectWriters' = IF file = "PROJECT.md" THEN projectWriters \cup {initRun.number}
                       ELSE projectWriters
  /\ UNCHANGED <<hasGit, initRun, openSteps, stepResults, artifacts, report>>

\* project, synthesis, requirements, roadmap: a session that fails, and a
\* loadConfig or adapter that throws, fail the step.
SessionEnds(step) ==
  /\ At(step)
  /\ \/ /\ artifacts' = artifacts \cup FilesOf(step)
        /\ IF initRun.commitDocs
           THEN /\ initRun' = [initRun EXCEPT !.pc = "commit"]
                /\ UNCHANGED <<openSteps, stepResults, report>>
           ELSE StepSucceeds(step)
     \/ StepFails(step) /\ UNCHANGED artifacts
  /\ UNCHANGED <<planning, hasGit, projectWriters>>

\* Mutant: Promise.all of sessions that throw.
ResearchEnds_FailFast(r) ==
  /\ At(r)
  /\ \E outcome \in {"ok", "failed"} :
       /\ stepResults' = [stepResults EXCEPT ![r] = outcome]
       /\ artifacts' = IF outcome = "ok" THEN artifacts \cup FilesOf(r) ELSE artifacts
       /\ openSteps' = IF outcome = "failed" \/ openSteps = {r}
                       THEN (openSteps \ {r}) \cup {"synthesis"}
                       ELSE openSteps \ {r}
  /\ UNCHANGED <<planning, hasGit, initRun, report, projectWriters>>

\* runParallelResearch: the run goes on when the last of the sessions has ended,
\* whatever became of them; none of them is committed by itself.
ResearchEnds(r) ==
  /\ At(r)
  /\ \E outcome \in {"ok", "failed"} :
       /\ stepResults' = [stepResults EXCEPT ![r] = outcome]
       /\ artifacts' = IF outcome = "ok" THEN artifacts \cup FilesOf(r) ELSE artifacts
  /\ openSteps' = IF openSteps = {r} THEN {"synthesis"} ELSE openSteps \ {r}
  /\ UNCHANGED <<planning, hasGit, initRun, report, projectWriters>>

----------------------------------------------------------------------------
InitCrashes ==
  /\ initRun.pc # "idle" /\ initRun.crashes < MaxInitCrashes
  /\ initRun' = [initRun EXCEPT !.pc = "idle", !.crashes = @ + 1]
  /\ openSteps' = {}
  /\ UNCHANGED <<planning, hasGit, stepResults, artifacts, report, projectWriters>>

\* "Use a fresh directory or delete .planning/ first."
DeletePlanning ==
  /\ initRun.pc = "idle" /\ planning # {}
  /\ planning' = {} /\ projectWriters' = {}
  /\ UNCHANGED <<hasGit, initRun, openSteps, stepResults, artifacts, report>>

InitRunNext ==
  \/ StartInit \/ SetupStep \/ GitInit \/ WriteConfig \/ SetConfig
  \/ \E step \in SessionSteps \cup {"config"} : CommitDocs(step)
  \/ \E step \in SessionSteps, file \in InitFiles : SessionWrites(step, file)
  \/ \E step \in SessionSteps \ ResearchTypes : SessionEnds(step)
  \/ \E r \in ResearchTypes : ResearchEnds(r)
  \/ InitCrashes \/ DeletePlanning

InitRunSpec == InitRunInit /\ [][InitRunNext]_initRunVars

----------------------------------------------------------------------------
\* Every variable keeps its type.
InitRunTypeOK ==
  /\ planning \subseteq InitFiles /\ hasGit \in BOOLEAN
  /\ initRun \in [pc : {"idle", "step", "git", "write", "set", "commit"},
                  number : 0..MaxInits, crashes : 0..MaxInitCrashes, commitDocs : BOOLEAN]
  /\ openSteps \subseteq InitSteps
  /\ stepResults \in [InitSteps -> {"none", "ok", "failed"}]
  /\ artifacts \subseteq InitFiles
  /\ report \in {"none", "success", "failure"}
  /\ projectWriters \subseteq 1..MaxInits

----------------------------------------------------------------------------
\* What a run returns is what happened: it returns when every step that it has
\* started has ended, the research sessions that outlived a failed one too; it
\* reports success exactly when no step failed, and then lists every file.
ReportIsHonest ==
  /\ report # "none" =>
       /\ openSteps = {}
       /\ report = "failure" <=> \E step \in InitSteps : stepResults[step] = "failed"
  /\ report = "success" =>
       /\ \A step \in InitSteps : stepResults[step] = "ok"
       /\ artifacts = InitFiles

\* A directory that set-up refuses from now on has what the refused step would
\* have given it: wherever the runs before it failed or crashed, PROJECT.md is
\* there only with config.json and in a repository.
RefusedHasConfig ==
  "PROJECT.md" \in planning => "config.json" \in planning /\ hasGit

\* A PROJECT.md is the work of one run: no later run writes over it, also when
\* the run that made it crashed or failed half-way, until .planning is deleted.
ProjectIsKept == Cardinality(projectWriters) <= 1
=============================================================================
