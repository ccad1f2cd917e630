# Verification of bridge-ai

TLA+ models of the parts of bridge-ai that decide whether a user's plan is run
once, run to its end and never forgotten, the TLC instances that check them, and
theorems about them checked by TLAPS. Paths in this document are relative to the
repository; `nest-core` stands for `packages/nest-core/src` and `gsd-sdk` for
`packages/gsd-sdk/src`.

- `tlc -workers 2 -config X.cfg M` checks instance `X.cfg` of module `M`
  (`MCPlanLifecycle`, `MCWorkflowEvents`, `MCPhaseRunner`, `MCComponents`,
  `ChatThrottle`).
- `tlapm M_proofs.tla` checks the proofs.
- `PROJECT.json` lists the components, the runs, the mutants of each property,
  the lines of code behind each definition, the findings, the hazards and the
  theorems.

## 1. The system

One NestJS process (`apps/api`) with PostgreSQL (TypeORM), Redis (Bull 4) and
Telegram (Telegraf 4). A second process on the same database and queues is not
prevented by anything in the code.

```
 Telegram ─ commands ─▶ TelegramBotService ──▶ PlanService ──▶ plans (PostgreSQL)
    ▲                        │  gate replies        │ publish
    │ prompts                ▼                      ▼
 TelegramNotifier      EventsService ──▶ events (PostgreSQL) + Bull queues
    ▲                                       │             │            │
    │                              project.events  workflow.events  execution.jobs
    │                                       ▼             ▼            ▼
    │                          ProjectEventsWorker  WorkflowEvents   ExecutionWorker
    │                                                Worker            │
    │                                                  │ resolves      ▼
    └────────────── HumanGateBridge ◀──────────────────┘      PipelineService
                          ▲                                            │
                          └───────── callbacks ── GSD.run ─ PhaseRunner ┘
                                                    │ sessions
                                                    ▼
                                     .planning/ on disk, BrainService
```

### Inventory

| Component | State it keeps | Operations | What is hard | What makes it correct |
|---|---|---|---|---|
| **PlanService** (`nest-core/module/plan`) | `plans.status`, `failReason` | create, submit, approve, claim, complete, fail, stop, retry, recover at start, archive hourly | every operation but the claim is read, check, write in separate awaits; status and queue are two services; recovery cannot tell a dead run from a live one | a queued plan has a job; a start consumes an approval; an executing plan is run or will be recovered |
| **ExecutionWorker** (`module/pipeline/execution.worker.ts`) | the job in hand | run a plan, mark the event, fail the plan in the catch block | stalled jobs come back; the catch block does not look at the status | one outcome per run |
| **PipelineService** (`module/pipeline`) | none of its own; workspace and container of the run | executeProject | set-up may fail; completePlan may fail after it wrote; clean-up in `finally` | the outcome of the run is the plan's |
| **EventsService** (`module/events`) | `events.status`, three Bull queues | publish, markProcessed, markFailed | row and job are written one after the other, callers swallow failures | an event is marked in the end |
| **Workflow/Project event workers** | the job in hand | resolve a gate, announce a recovery, mark the event | re-delivery after a crash | as above |
| **HumanGateBridge** | `pendingGates`, in memory | callbacks of a run, waitForResponse, resolveGate | the prompt is sent before the gate is registered; the map dies with the process | a run waits exactly at its gate; a reply makes it go on |
| **TelegramBotService**, notifier, throttler, conversation state | current plan per chat and request counts, in memory | commands, gate replies, messages | handlers of a batch run concurrently; sends fail silently | commands act on the status that is there |
| **PhaseRunner**, **GSD.run** (`gsd-sdk`) | `.planning/` on disk; the rest is local to a run | discuss, research, plan, plan-check, waves, verify with gap closure, advance; the milestone loop | nested retries, human stops, stale views of the disk, runs that start again on the disk of the last | waves do not overlap, finished work is not redone, phases complete in order, a stop is final, the run ends |
| **gsd-tools bridge** (`gsd-tools.ts`) | none | calls of `gsd-tools.cjs` with a timeout | a call that times out may have had its effect | - |
| **InitRunner** (`init-runner.ts`) | `.planning/` of a new project | set-up, configuration, PROJECT.md, 4 parallel researches, synthesis, requirements, roadmap | partial failure of the researches; PROJECT.md is all that a renewed run looks at | the report tells what happened; what a refusal is based on is complete |
| **Event stream, transports** | cost buckets, transport list, the current log file | map, emit, add, close | a transport that throws in the middle of several events; cost by difference | no transport disturbs another; a line is in the file of its phase; the total is the sum of the sessions |
| **Plan parser** | none (a stack while it reads) | frontmatter, line by line | what is popped when the indent goes back | a key belongs to the nearest line above it with less indent |
| **Prompts, context, tool scoping, sanitizer** | none | pure functions on text | malformed input | - |
| **DockerService, workspaces** (`module/docker`, `module/workspace`, `workspace.service.ts`) | container per project, directory per project or run | create/reuse, stop, remove; provision, clone, clean up | reuse of a stopped container, left-over directories after a crash, `/stop` under a running plan | a clone is of one run; nothing runs or stays behind unnoticed |
| **Onboarding, indexer, projects** (`module/workspace`, `module/project`) | `projects`, `workspace_snapshots` | onboard, sync; create, update, remove | find-or-create without a transaction, HEAD read before the index, save after remove | one project per slug; a snapshot has a project; up to date means indexed |
| **KsmService** (`module/ksm`), called by `/config` and BrainService | `secrets`, `secret_audit` | create, read, rotate | stale `keyVersion`, rotate-or-create by two callers, audit row outside the transaction | an audit row per access; one value per name |
| **Obsidian sync** (`module/obsidian`) | notes of the vault | prepare, sync after a phase | nothing waits for a sync; check then write, next to the user | what the user wrote stays |
| **Metrics, health, brain and providers, promotion, CLI** | rows | aggregation, model calls, file copies | phase rows that nobody creates; model calls without a time limit | - |

### What does not work as the code stands

Two facts of the code come before everything that the models say, and both are shown by
a run (sections 3 and 4):

- **No job reaches its handler.** `EventsService.publish` adds each job under the type
  of its event (`queue.add(options.type, ...)`, events.service.ts:47; the recovery's job
  goes the same way), and the three workers register a handler without a name
  (`@Process()`, execution.worker.ts:25, workflow-events.worker.ts:29,
  project-events.worker.ts:24). Bull 4 (4.16.5 in `bun.lock`) looks for the handler of
  the job's name, finds none and fails the job with "Missing process handler for job
  type": no plan is run and no event is marked (see also `.planning/codebase/CONCERNS.md:104,124`,
  which reports events that stay pending).
- **No reply to a gate is saved, and no event of a plan of the bot.** `correlationId` and
  `conversationId` are uuid columns (event.entity.ts:24,28); a reply carries the key of its
  gate and the number of its chat, the other events of the bot the number of the chat.
  PostgreSQL refuses such a row.

The models have both as constants, `Dispatch`, `UuidPlans` and `SaveableKeys`, so that
what lies behind them can be checked too. The passing runs let a job either reach its
handler or fail for want of one (`Dispatch = {"handler", "missing"}`): what they show
holds of the handlers as they are written *and* of the code in which they are not called,
where a job without a handler is a loss like the others (`jobLost`, `lost`). The
violation runs `_completed`, `_stop` and `_rerun` are about the handlers as they are meant
(`{"handler"}`), `_dispatch` about what Bull does (`{"missing"}`).

## 2. Modules

| Module | Models | Lines of reasoning |
|---|---|---|
| `PlanLifecycle` | PlanService, ExecutionWorker, the frame of executeProject, start-up, crash | section 3 |
| `ExecutionPermits` | what PlanLifecycle promises: no start without an approval of its own | abstract specification |
| `PlanLifecycle_proofs` | theorems of both | section 8 |
| `WorkflowEvents` | EventsService, the two event workers, HumanGateBridge, gate replies of the bot | section 4 |
| `WorkflowEvents_proofs` | theorems of it | section 8 |
| `PhaseRunner` | PhaseRunner.run and the loop of GSD.run, restarts on the same disk | section 5 |
| `MilestoneProgress` | what a milestone run promises: phases in order, success means none left | abstract specification |
| `PhaseRunner_proofs` | theorems of both | section 8 |
| `RunWorkspace` | the clone and the container of a run, next to `/stop` | section 6 |
| `Secrets` | KsmService as `/config` and the providers use it | section 6 |
| `Onboarding` | POST init, sync, CRUD of projects, next to commits | section 6 |
| `ChatThrottle` | the throttle in front of the bot | section 6 |
| `RunEvents` | the event stream, its cost tracker, log files and terminal | section 6 |
| `InitRun` | InitRunner.run over crashes and renewed runs | section 6 |
| `PlanParser` | extractFrontmatter | section 6 |
| `VaultSync` | ObsidianSyncService next to the user of the vault | section 6 |
| `RunWorkspace_proofs`, `Secrets_proofs`, `Onboarding_proofs` | theorems of those three | section 8 |
| `SmallComponents_proofs` | theorems of `InitRun`, `VaultSync`, `ChatThrottle`, `RunEvents` and `PlanParser`, and the lemmas on counting, sums and greatest elements that they share | section 8 |
| `MCComponents` | composes the eight for one instance | section 6 |
| `Components_proofs` | theorems of the composition | section 8 |
| `MC*` | the definitions that the instances need | |

Every definition that is called `<definition>_<word>` is a mutant: it with a
plausible bug. No specification uses it; it stands before the action it varies
and shows that the property it is for can fail.

The first three models meet at two points. A run in `PlanLifecycle` is one step from
`running` to its result; `PhaseRunner` is that run. A gate in `PhaseRunner` is a
step that takes any answer; `WorkflowEvents` is the way to that answer, and its
`busy` run is the rest of `PhaseRunner`. The cut is sound for what is checked
because the run touches neither `plans` nor `execution.jobs`, and the answers a
gate can give in `PhaseRunner` include all that `WorkflowEvents` can deliver
(the bot only ever sends `approve`, which PhaseRunner reads as accept or skip;
the adapter interface allows the others). `RunWorkspace` is the same run from
outside: what executeProject does before and after `GSD.run`, which is its one step
`running`.

## 3. PlanLifecycle

| Variable | Code |
|---|---|
| `status` | `plans.status` (`none`: no row) |
| `lock` | the row lock of `SELECT ... FOR UPDATE SKIP LOCKED` |
| `row`, `queue` | `events` rows and waiting jobs of `execution.jobs` |
| `call` | the PlanService call a command handler, or a starting process, is in the middle of, by the await it has reached |
| `wk` | the same for the worker of each process |
| `up`, `todo` | the life of a process and what `recoverInterruptedPlans` still has to do |
| `owner`, `starts`, `jobLost`, `failLost` | history |

`Check` and `Write` are the two halves of every checked operation (`requirePlan`
and `assertStatus`; `planRepo.update`), so that commands interleave between them.
An UPDATE waits for the row lock, the claim skips locked rows, also those a
concurrent UPDATE holds at that moment (`Updating`). `SaveEvent`/`AddJob` are the
awaits of `publish`, each of which may fail. `Crash` drops the memory of a process,
rolls its transaction back and gives its job back to the queue.

External behaviour, from how the code uses it: Bull 4.16 with its defaults
(`maxStalledCount` 1: a job that stalls twice is failed without its handler;
`attempts` 1; concurrency 1 per `@Process`; a stalled job is not delayed);
PostgreSQL at READ COMMITTED. `queue` is a set: the order of jobs does not matter
to the properties, and any job may be the next. `TakeJob` is Bull handing a job to
`handleExecutionJob`, `MissingHandler` Bull failing it because it has a name: the plan
stays `approved_queued`, the event pending, and `jobLost` records it.

Properties: `ExecutingIsOwned`, `QueuedHasJob`, `ClaimExcludes`, `ClaimedIsQueued`,
`PermitSpec` (refinement of `ExecutionPermits`), and under fairness `OrphanIsRecovered`:
a plan that is executing with nobody running it does not stay so, unless the database
refused the worker's `failPlan`. It is not said that a queued plan leaves the queue or
that a run ends. Neither is so: one run at a time is worked off, and nothing limits the
wait at a gate or a session of a model.

Disagreements with the documents, each shown by a run:

- `JobsReachHandler`: a job leaves the queue without the worker's handler having had it
  (section 1), where `.planning/REQUIREMENTS.md:39` says that Bull is wired to the
  pipeline. The next three presume that Bull calls the handler.
- `CompletedIsNotFailed`: after a crash the stalled job comes back next to the one
  that recovery added. Whichever is second cannot claim the plan, throws, and the
  worker's catch block calls `failPlan`, whatever the plan's status: a completed
  plan becomes failed.
- `StopHolds`: `/stop` writes `stopped`, nothing tells the run, and `completePlan`
  overwrites it.
- `InterruptedIsRerun`: recovery writes `approved_queued` before it adds the job.
  A crash in between leaves a plan that no later recovery looks for, although it was
  executing with nobody running it.
- `ApprovedIsTaken`: `/approve` writes `approved_queued` and publishes an event with
  the plan's `conversationId`. For a plan made by the bot that is the number of its
  chat, and the column is a uuid: PostgreSQL refuses the row, no job is added, and
  the plan stays queued. `UuidPlans` is the set of plans whose events can be saved; it
  is empty in this run and everything in the others, which therefore say what holds
  once the column accepts the identifier (so does `WorkflowEvents`).

## 4. WorkflowEvents

| Variable | Code |
|---|---|
| `run` | where the run of the process is: busy, inside the call that sends a prompt, or waiting in `waitForResponse` |
| `gate` | `HumanGateBridge.pendingGates` |
| `chat`, `shown`, `answered` | prompts in the chat, whether the current one is there, and whether it has been answered (history) |
| `pub` | the `publish` call of each event, by await |
| `row`, `queue`, `wk` | `events.status`, the jobs of `project.events` and `workflow.events` in order, and their workers |
| `lost` | history: events that nothing will mark |

A slot is an event in flight; `Recycle` frees it when nothing refers to it any
more, so that two slots stand for any number of events over time. The prompt is
shown before the call that sends it returns, and the gate is registered only
then: that is the window in which a reply is lost. Only one run at a time reaches
a gate, because `execution.jobs` is worked off one job at a time. The keys of old
prompts stay in the chat and may be used at any time. A crash re-delivers the job
in hand once, ahead of the others.

`SaveEvent` refuses the row of a reply whose key is not in `SaveableKeys`, and may refuse
any other row for the number of the chat. `MissingHandler` is that of PlanLifecycle.

Properties: `GateIsWaited`, `PendingHasJob`, under fairness `EventsSettle`. The passing run
has `SaveableKeys = Keys`, so that what replies do to gates is seen; this includes late,
doubled and old ones. It is not said that a reply opens the gate it was meant for: a key
names the plan and the phase, so a doubled reply opens a gate that is asked again under
the same key, and a reply handled between `PromptShown` and `Register` finds no gate and is
dropped. With the columns as they are (`SaveableKeys = {}`) `GateOpens` is violated in
`WorkflowEvents_reply`: with handlers that are called, no crash, no failure and a user who
replies again and again, the run waits at its gate for ever (REQUIREMENTS.md:41).

## 5. PhaseRunner

| Variable | Code |
|---|---|
| `config` | the flags of `GSDConfig.workflow`, `parallelization`, and whether there are callbacks |
| `context`, `written`, `summary`, `complete` | disk: CONTEXT.md of a phase, PLAN and SUMMARY files, completed phases of the roadmap |
| `pc`, `phase` | the step and the phase |
| `op` | `phaseOp`, the last successful answer of `initPhaseOp` |
| `attempt` | of `retryOnce` |
| `stepsOk`, `halted` | whether all of `steps` succeeded; `halted` |
| `batch`, `running`, `passOk`, `gapping` | `runExecuteStep`: plans of later waves, sessions of this one, their success, and who called it |
| `gaps`, `cycles` | `gapRetryCount`, and the gap closures of the phase (history) |
| `stopped`, `outcome`, `runs` | history and result of the run, runs used |

A session may leave any files of its phase on disk and report success or failure
independently. In the execute step it may write the SUMMARY of any plan of the phase,
not only of its own, for its prompt is built without a plan (phase-runner.ts:735); the
index of the plans is read once for a pass (phase-runner.ts:580), so a plan of a later
wave may be started although it has been summarised meanwhile. `fresh` is the history of
the SUMMARYs written since the index was read, and `SummarisedNotRerun` says that a plan
is started with a SUMMARY only if that is one of them. `Settle` is `retryOnce`, `Push` a step that is not retried. The
loop is the one the pipeline runs: no `onPhaseComplete` callback. `Restart` is
`/retry` or the recovery of a plan in the persistent workspace of
`WorkspaceService`; it may come at any moment, so it is a crash too. `human_needed`
is allowed although BrainService does not produce it, since any adapter may.

Properties: `WaveBarrier`, `GapCyclesBounded`, `SummarisedNotRerun`, `StopIsFinal`,
`ProgressSpec` (refinement of `MilestoneProgress`) and under fairness `RunEnds`.
The run `PhaseRunner_gaps` shows that the documented cap on gap closures
(phase-runner.ts:768) is not kept: `retryOnce` calls the verify step again with a
fresh counter. `GapCyclesBounded` is the bound that holds, twice the cap.

## 6. The components around a run

Eight modules, each with the concurrency and the faults of its component. They share
no variable, so their interleavings would show nothing: `MCComponents` picks one of
them at the beginning of a behaviour (`focus`) and leaves the others as they begin.
One instance checks all eight.

**RunWorkspace.** `clone` is what is at `volumes/runs/<planId>`, `container` what Docker
has under the name of a project, `run` the await that each run has reached with what
it holds, `stopper` the same for `/stop`. `leftover` and `leaked` record, at the step
where it happens, what nobody will ever clean up: a clone whose run died, failed
before its try block or could not remove it, a container whose owner died or was
refused. `CloneExclusive`, `CloneHasOwner` and `RunningHasOwner` say that this is all
that is left behind and that nobody works in the directory of another. Two runs of one
plan may be under way (PlanLifecycle allows it after a crash). Reuse of a container
whatever its state is in the model: the run never asks the container to do anything.

**Secrets.** `secrets` are the rows with the write each value comes from, `audit` the
audit rows of each by action, `user` the calls in flight. `/config` rotates and, on any
error, creates, so that two of them race; a project's name is unique with its
`scopeId`, a global one is not (NULL), hence `Scoped` in `ReadIsFresh`.

**Onboarding.** `request` is what each request holds between two awaits. `save` of TypeORM
is its two statements: a SELECT of the row by its identifier, then an INSERT when it has
gone or an UPDATE of the columns that differ from what the SELECT saw. Two saves that
overlap may therefore leave the sha of one with the index of the other, which sync calls
up to date until HEAD moves again; nothing in the code prevents it. `mixed` marks a row
whose last UPDATE kept a column that another request wrote after the SELECT. An index is
the set of commits its two reads of the working copy met. `UpToDateIsIndexed` excludes
two cases: `mixed`, and by `quitHeads` that HEAD leaves a commit while it is being indexed
and comes back to it.

**ChatThrottle.** One window per chat, in ticks. `BurstBounded` is what fixed windows
give (twice the limit in any period as long as one), `RefusalIsEarned` that no chat is
refused before it had its share. `.planning/SECURITY.md:305-306` promises a sliding window
whose eleventh request is rejected (likewise `.planning/ROADMAP.md:157`): `WindowSlides`,
violated in `ChatThrottle_window` by a burst across the end of a window.

**RunEvents.** A call is synchronous: `pending` are the events of the current one and
`serving` the transports that the loop of `emitEvent` has yet to come to for the event at
hand. A turn of the loop is a step of its own, `Deliver` or `DeliverThrows` (the catch
block is in the loop), and so `got` is compared with `due`, the events emitted while a
handler was there, when the loop is over. The log files are compared with the phase that
was current at the emission; without a `projectSlug`, which pipeline.service.ts:75-81 does
not give when the plan has no project, every line goes to one setup file. `costTracker`
and the running cost of the terminal are compared with sums over what was emitted.
(`mapAndEmit`, and with it `updateCost`, has no caller in the service: `CostsAddUp` is about
the class as its tests use it. A session reports more than once and with different costs.)

**InitRun.** `initRun.pc` is the await, `openSteps` the steps that have begun,
`projectWriters` the runs whose session wrote the PROJECT.md that is there. A session
writes its files when it likes, whether it then succeeds or not. After a crash a new
run begins on what is left, and `DeletePlanning` is the advice of the error message.

**PlanParser.** A document is chosen line by line, by indent, key and form; the parser
reads each line as it comes. `ParsedByIndent` compares the tree it has built with a
reference definition on the lines alone: a pair belongs to the nearest line above it
with less indent that opens a block.

**VaultSync.** A preparation or synchronisation is a list of writes in groups (those of
one try block); several are under way together. Only the files that the service leaves
alone once they exist are kept. `UserEditIsKept` excludes an edit made between the look
and the write of one file, which is lost. `fileExists` reads any error of `access` as
"not there"; an access that fails for another reason is not in the model.

### What was met on the way

Observed while modelling, in the models as the code has it, and not stated otherwise by
a document, so not listed as findings:

- The clone of a run is made before the try block of executeProject. After a crash, a
  failed set-up or a failed removal every recovered run and every `/retry` of the plan
  fails in `git clone` (`leftover`). Two runs of a project without snapshot share
  `volumes/workspaces/<project>`; syncProject copies from there even when the run works
  in a clone, and the work of a clone is deleted before anything promotes it.
- A reply handled between the prompt and the registration of its gate is marked
  processed and dropped (section 4); it takes the uuid columns to let it get so far.
- A container is looked for by name; an error of the listing counts as "no container".
- Nobody inserts into `phases`, so recordPhaseFromGsdEvent always returns early.
  `cumulativeCostUsd` of a cost update is always 0, because `updateCost` is reached from
  mapAndEmit only, which no caller uses; the bot shows "Cost so far: $0.0000".
- WorkspaceController gives InitRunner neither tools nor event stream: its first
  emitEvent throws, the controller logs that as not fatal and answers `success: true`.
- In InitRunner the cost of a failed session is dropped and artifacts are listed
  without a look at the file; the PhaseComplete of a retried session has the cost of
  the second session only.
- plan.recovered has no `conversationId` in its payload, where the handler looks for it:
  the notice of a recovery is never sent.
- keyVersion says less than the audit after overlapping rotations. Any error of rotate
  leads to create. A changed master key falls back silently to the default provider.
- PATCH of a project racing DELETE inserts it again. An onboarding with `repoUrl` cannot
  be retried: the directory is there.
- After a restart a plan that was stopped or failed cannot be named by `/retry`, since the
  conversation state is in memory; `/rewrite` clears the plan of the chat after its
  awaits, which may by then be a newer one.
- The order of `gsd.*` rows and of Telegram messages is not that of emission, since their
  listeners are asynchronous.
- extractFrontmatter drops the items of a list at the indent of its key; items of a
  block list are coerced ("1.10" becomes 1.1), those of an inline list are not.

## 7. Runs

| Run | Checks | Bounds |
|---|---|---|
| `PlanLifecycle_system` | TypeOK, QueuedHasJob, ClaimedIsQueued, ExecutingIsOwned, ClaimExcludes, PermitSpec, OrphanIsRecovered | 1 plan, 4 jobs; 2 processes, 1 command, 1 crash; or 1 process, 2 handlers in flight, 2 commands, 1 crash or 1 failed call; jobs that reach their handler or not; fairness |
| `PlanLifecycle_completed`, `_stop`, `_rerun`, `_approve`, `_dispatch` | one violated property each | 1 plan, 1 process |
| `WorkflowEvents_live` | TypeOK, GateIsWaited, PendingHasJob, EventsSettle | 2 keys, 2 events in flight, 1 crash, 1 failed call; jobs that reach their handler or not; fairness |
| `WorkflowEvents_reply` | GateOpens, violated | 1 key, 2 events in flight, no fault; fairness and a persistent user |
| `PhaseRunner_run` | TypeOK, WaveBarrier, GapCyclesBounded, SummarisedNotRerun, StopIsFinal, ProgressSpec, RunEnds | 2 phases, 4 plans, 2 waves, 3 configurations, 1 gap closure per attempt, 2 runs; fairness |
| `PhaseRunner_gaps` | GapCyclesCapped, violated | the same, 1 run |
| `Components` | TypeOK and the 18 invariants of section 6 | see below |
| `ChatThrottle_window` | WindowSlides, violated | 1 chat, two windows of 3 ticks, 2 requests each |

Why these are enough. Plans do not share anything but the queue and its worker, and
the order of jobs is free, so one plan shows every interleaving of the actors of a
plan. `PlanLifecycle_system` begins in one of two ways, so that neither multiplies the
other: two processes with one command and a crash (the recovery of one process next to
the worker of the other, a stalled job next to the recovered one), or one process with two
command handlers in flight and a crash or one refused call (three writers of one row, and
each failure of a statement or of Redis). Every race named in `PROJECT.json` needs no
more. Four jobs are an approval, a retry and two recoveries. In `PhaseRunner` two waves and
three plans in a phase are the least that has a barrier and a parallel wave; the second
phase is for the order of completion; the second run is for what a restart finds on disk.
What the bounds leave out (more plans, more crashes, longer waves) the theorems of
section 8 cover for the safety properties. Every counter is bounded by a constant in the
guard of the action that increases it.

The runs have 425,535 (`PlanLifecycle_system`), 202,748 (`WorkflowEvents_live`), 1,377,308
(`PhaseRunner_run`) and 866,008 (`Components`) distinct states.

`Components`: two plans of one project, two workers and a `/stop`, with one death, one
refusal and two containers: the least in which a container changes hands. Two callers
of a project's secret and a global one, four calls, one refused statement, one crash:
two rotate-or-creates and a read. Two requests on one slug and directory, three in all,
with two commits and two moves of HEAD: init, sync and delete, and a HEAD that comes
back. Two windows of three ticks, two requests each and three per tick. Three events
with a phase, two sessions with two costs each, one refused line, the handler that throws
behind the others in a project with a slug, and before them in one without. Three research sessions, two runs and a crash: one that fails between two
that do not. Documents of five lines with four indents and two keys: a block in a block
in a block, and back. Two synchronisations and an edit.

Deadlock is not checked where the system may stop: in `PlanLifecycle` when the
bounds are used up and every plan has an outcome, in `PhaseRunner` when the last
run is over, in `Components` when the component that moves has used its
calls up. `WorkflowEvents` never stops.

### Fairness

- Node continues every call whose await has been answered: weak fairness of each
  handler, publisher and worker (`Write`, `Publish`, `Serve`, `Work`, `Recover`, `Step`).
- Redis hands a waiting job to an idle worker, or Bull fails it: part of `Serve` and `Work`.
- A process that is down is started again: weak fairness of `Boot`. This is an
  assumption about operation; docker-compose does not restart the API.
- In `PlanLifecycle` a run need not end: `EndRun` is not fair. Only gsd-tools calls have a
  timeout; the HTTP providers have none of their own, the CLI providers wait for their
  process however long it takes, and a gate is waited for without limit.
- In `PhaseRunner` a session ends and a gate is answered. This is an assumption, for which
  the code has no guarantee; `RunEnds` says that, given it, the retries, the gap closures
  and the milestone loop come to an end.
- In `WorkflowEvents` a reply is what is in question. `UserPersists` (strong fairness, as
  the prompt may come and go with a crash) is assumed for `GateOpens` only, to show that
  persistence does not help.
- Nothing is assumed of commands, crashes, failures, archiving or restarts.

## 8. Proofs

For any values of the constants that satisfy the assumption its module names:

| Theorem | Argument |
|---|---|
| `PlanLifecycle_proofs!TypeCorrect` | inductive; says also that whoever is in the middle of a call has a plan |
| `ClaimsExclude`, `ClaimsAreQueued` | `ClaimInv`, the two together: exclusion needs that the plan under the lock is still queued, and that no other UPDATE passes the lock |
| `Implements` | every step of PlanLifecycle is a Grant, Withdraw or Start of ExecutionPermits or leaves `permitted` and `starts` alone; the claim is a Start because of `ClaimedIsQueued` |
| `ExecutingOwned`, `QueuedKeepsJob` | both are inductive with the type invariant, for any `Dispatch`: a job that finds no handler is recorded as lost in the step that fails it |
| `WorkflowEvents_proofs!TypeCorrect` | inductive |
| `GatesAreWaited` | with `up <=> run.pc # "none"`, without which a new process might find a run at a gate |
| `PendingEventsHaveJobs` | `JobInv`: an event has a job, waiting or taken, only after its publication is over, and a worker that is done has marked its event or lost it. Without the first a slot might have two jobs, without the second a worker might settle the last one unmarked |
| `PhaseRunner_proofs!TypeCorrect` | inductive, one group of variables at a time; `gaps <= MaxGapRetries` is part of it |
| `WavesInOrder`, `NoPlanRerun` | `SessionInv`: nothing runs outside the wave loop, the batch is disjoint from the running plans, and a plan of the batch that has a SUMMARY got it since the index was read (`fresh`), though any session may write any SUMMARY of the phase |
| `GapCyclesAreBounded` | `CycleInv`: `cycles` is at most `gaps` in the first attempt and at most `MaxGapRetries + gaps` in the second |
| `StopsAreFinal` | `StopInv`: a stopped run is at its end with a failed step or a halt, or over and failed |
| `ImplementsProgress` | `OrderInv`: the phase that is run is the first one that is not complete, and there is no outcome before the end |
| `RunWorkspace_proofs!WorkspaceTypeCorrect`, `ClonesAreExclusive`, `ClonesHaveOwners` | `ClonesInv`: a clone under way or held is there and of one run, and one that nobody has is recorded. The two properties are inductive together and with the type invariant, which says that whoever is in the middle of something has a plan |
| `RunningHasAnOwner` | with `Identified`: identifiers are handed out once, so that whoever holds the one of the container of the moment holds that container and not one before it |
| `Secrets_proofs!SecretsTypeCorrect`, `VersionsAudited` | `VersionInv`: what a rotation has found is not newer than the row, whose version is at most its audited rotations plus one, and above 1 exactly when there is one |
| `ReadsAreFresh` | `FreshInv`: a project's name has at most one row, which holds its latest write, and a read holds a value no older than its beginning |
| `AccessesAudited` | `AccessInv`: the values handed out and the reads whose audit row is written are together no more than the audit rows. The pending reads are counted as the cardinality of a set of callers |
| `SmallComponents_proofs!InitRunTypeCorrect`, `ReportsAreHonest`, `RefusedAreConfigured`, `ProjectsAreKept` | one inductive invariant. `Progress`: one step is open, at one of its awaits, and those before it succeeded, or the research sessions that have not ended are. `Listed`: a step that succeeded has listed its files. `Configured`: after the configuration step the directory has its files. `WrittenInv`: in a run that got past set-up only that run has written PROJECT.md |
| `Onboarding_proofs!OnboardingTypeCorrect`, `UpToDateAreIndexed`, `SnapshotsHaveProjects` | `RowsInv` and `RequestsInv`: a row, and what a request has indexed and not yet written, is of the commit it names, or HEAD has left that commit while it was indexed, or the row is `mixed`; `Updated` gives either the row a request meant or a mixed one; a row has its project, and a slug only one |
| `VaultTypeCorrect`, `UserEditsAreKept` | `WritersInv`: what a writer still has to write is a sequence of the writes there are, of which the last of a group end with the group; `EditsInv`: a safe edit is there and nobody is about to write it |
| `ThrottleTypeCorrect`, `BurstsAreBounded`, `RefusalsAreEarned` | `WindowInv`: an entry's count says how many requests its window has let through, and at most the limit came in the `WINDOW - 1` ticks before it. A period is as long as a window, so one that ends in the current window holds no more than these two. The requests of a period are counted as the cardinality of their places in the history |
| `RunEventsTypeCorrect`, `NoneAreSkipped` | `NumbersInv`: no handler is subscribed twice or comes twice in what is left of the loop; a handler that is still in the loop has been given what it is due but for the event at hand, the others all of it. `DeliverThrows` keeps this because the loop goes on behind the handler that throws |
| `LogsArePhased` | `LogInv`: the vault's current phase is that of the last phase event it was given, and every line is in the file of that phase or, without a slug, in the setup file. What was logged stays right because the events after it have greater numbers |
| `CostsAreAddedUp` | `TrackerInv` and `RunningCostInv`: the tracker's entry of a session is what the session's last report says, and the cumulative cost the sum of the entries; replacing an entry changes the sum by the difference |
| `PlanParserTypeCorrect`, `PlansAreParsedByIndent` | `StackInv`: each entry of the stack belongs to the one below it, and every line that opens a block and is followed only by deeper lines is on it, so that what was popped can own no later line. `LinesFit`: every line read fits where it stands. `MembersInv` and `ArraysInv` are the property over the lines read so far |
| `Components_proofs!SideBySide`, `ComponentsTypeCorrect` | a step of the composition is a step of one component and a stutter of the others, so that every theorem of a component holds of `MCComponents` |

The library's induction theorems cannot be used with the provers at hand. What has to
be said of every finite set (that its sum changes with one of its values, that it has a
greatest element) is proved from the well-foundedness of the strict inclusion of the
subsets of a finite set, which is a fact without an operator parameter: a smallest
counterexample is taken and a member removed from it.

Every invariant and action property of a passing run is stated by a theorem, for
every value of the constants. Only model-checked are the liveness properties
(`OrphanIsRecovered`, `EventsSettle`, `RunEnds`), since the
prover has no rules for fairness and ENABLED. The violated properties are
counterexamples found by TLC. The inductive invariants were checked by TLC as invariants
before they were proved.

## 9. What is not modelled

Text: prompts, messages, notes, templates, the values of a frontmatter (coerceValue,
the normalisation of its fields, parseTasks). Time, but for the throttle: sessions and
calls end or fail. Authentication and the HTTP surface. The model providers, Docker,
git and `gsd-tools.cjs`, which is not in the repository, appear through what the code
does with their answers.

- Two InitRunners in one directory at a time: nothing calls it with usable tools yet.
- `save` of TypeORM is its SELECT and its statement for snapshots. For the other rows the
  SELECT is folded into it: those that are saved twice (projects) keep one column here.
- Listeners of the event stream that the pipeline adds are asynchronous; what they do is
  in `WorkflowEvents` (rows) and `VaultSync` (notes), not in `RunEvents`.
- Notes that are written anew or copied every time: nothing reads them back. Two syncs
  that race may leave the older status in one.
- PromotionService, archiveProject, onPlanComplete and BridgePipeline have no caller.
- Phase numbers are taken as `parseFloat` reads them, so that 2.10 comes before 2.9.
- Conversation state: a command may name any plan that exists, which includes whatever
  the map holds.

`PROJECT.json` gives the reason for each component.

## 10. Plan

Left, in this order: the conversation state as a module of its own, composed with the
commands of PlanLifecycle; the hand-over of events from `RunEvents` to the publications
of `WorkflowEvents`; a refinement of a single-step
publication by `WorkflowEvents`.
