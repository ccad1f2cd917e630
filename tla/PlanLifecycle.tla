--------------------------- MODULE PlanLifecycle ---------------------------
(***************************************************************************)
(* The life of a plan, from /new to its archive: PlanService, the worker   *)
(* of the execution.jobs queue, the part of PipelineService that decides   *)
(* the outcome of a run, the startup recovery and the hourly archiving.    *)
(*                                                                         *)
(* Several actors write the same `plans' row: the Telegram command         *)
(* handlers (Cmds), the queue worker of each API process and the recovery  *)
(* that a process runs when it starts (both named by the process, Procs).  *)
(* PlanService reads the row, checks the status it read and updates the    *)
(* row in separate statements, so every operation is split where it        *)
(* awaits.  Only the claim of a job is a transaction; it locks the row.    *)
(*                                                                         *)
(* A job is added under the name of its event, and the worker registers a  *)
(* handler without a name: Bull 4 looks for the handler of the job's name, *)
(* finds none, and fails the job without a call.  Dispatch says what Bull  *)
(* may do with a job: "missing" is what it does with this code, "handler"  *)
(* what the handler was written for.  The operations of the handler are    *)
(* checked with both, so that what holds of them holds in either case.     *)
(***************************************************************************)
EXTENDS Naturals, FiniteSets

CONSTANTS
  Plans,       \* plans
  NoPlan,      \* the absence of a plan
  Procs,       \* API processes; each runs one worker of execution.jobs
  NoProc,      \* the absence of a process
  Cmds,        \* command handlers that may be in flight together
  Home,        \* the process a command handler runs in
  UuidPlans,   \* plans whose conversation identifier the events table accepts
  Dispatch,    \* what Bull may do with a named job: "handler", "missing"
  MaxJobs,     \* bound: execution_queued events saved
  MaxCmds,     \* bound: commands accepted
  MaxCrashes,  \* bound: crashes of a process
  Faults,      \* the services whose calls may fail: "postgres", "redis"
  MaxFaults    \* bound: failed calls

ASSUME ConstantsAssumption ==
  /\ Plans # {} /\ NoPlan \notin Plans
  /\ Procs # {} /\ NoProc \notin Procs
  /\ Cmds \cap Procs = {}
  /\ Home \in [Cmds -> Procs]
  /\ UuidPlans \subseteq Plans
  /\ Dispatch \subseteq {"handler", "missing"}
  /\ MaxJobs \in Nat /\ MaxCmds \in Nat
  /\ MaxCrashes \in Nat /\ MaxFaults \in Nat
  /\ Faults \subseteq {"postgres", "redis"}

VARIABLES
  status,   \* plans.status of each plan; "none" before the row exists
  lock,     \* the process whose claim transaction holds the plan's row lock
  owner,    \* history: the process that claimed the plan last
  starts,   \* history: how many times the plan was claimed
  row,      \* events.status of each execution_queued event
  queue,    \* jobs waiting in execution.jobs
  call,     \* the PlanService call each caller is in the middle of
  wk,       \* where each worker is, and its job
  up,       \* where each process is in its life, or that it is not deployed
  todo,     \* the interrupted plans a starting process has yet to re-queue
  jobLost,  \* history: plans queued whose job was lost before a worker had it
  failLost, \* history: plans whose last failPlan was itself lost
  cmds, crashes, faults  \* what has been used of the bounds

vars == <<status, lock, owner, starts, row, queue, call, wk, up, todo,
          jobLost, failLost, cmds, crashes, faults>>

----------------------------------------------------------------------------
Status == {"none", "draft", "awaiting_approval", "approved_queued",
           "executing", "completed", "failed", "stopped", "archived"}
TERMINAL_STATES == {"completed", "failed", "stopped"}

Jobs == 1..MaxJobs
Callers == Cmds \cup Procs
HomeOf(a) == IF a \in Procs THEN a ELSE Home[a]

NoJob == [id |-> 0, plan |-> NoPlan, stalls |-> 0]
Job == [id : Jobs, plan : Plans, stalls : {0, 1}]
JobOrNone == [id : Jobs \cup {0}, plan : Plans \cup {NoPlan}, stalls : {0, 1}]

NoCall == [pc |-> "idle", op |-> "none", plan |-> NoPlan, job |-> 0]
NoWork == [pc |-> "idle", job |-> NoJob]

(* The statuses each operation accepts, and the one it writes.  /rewrite    *)
(* rejects a plan with failPlan, which does not look at the status.         *)
Ops == {"submit", "approve", "stop", "retry", "rewrite"}
From == [submit  |-> {"draft"},
         approve |-> {"awaiting_approval"},
         stop    |-> {"approved_queued", "executing"},
         retry   |-> {"stopped", "failed"},
         rewrite |-> Status \ {"none"}]
\* Mutant: approval writes an alias that no other operation knows.
Target_Alias == [submit  |-> "awaiting_approval",
                 approve |-> "pending",
                 stop    |-> "stopped",
                 retry   |-> "approved_queued",
                 rewrite |-> "failed"]
Target == [submit  |-> "awaiting_approval",
           approve |-> "approved_queued",
           stop    |-> "stopped",
           retry   |-> "approved_queued",
           rewrite |-> "failed"]

(* An UPDATE waits for the row lock; a call to a service may fail.          *)
Unlocked(p) == lock[p] = NoProc
Alive(q) == up[q] \notin {"absent", "down"}
Fault(service) == /\ service \in Faults
                  /\ faults < MaxFaults
                  /\ faults' = faults + 1

\* The row of an event of p is refused whatever the state of the database.
Unsaveable(p) == p \notin UuidPlans /\ UNCHANGED faults
PublishOk(p) == p \in UuidPlans /\ UNCHANGED faults
PublishRefused(p) == Unsaveable(p) \/ \E s \in Faults : Fault(s)

\* Mutant: an UPDATE that does not wait for the claim transaction.
SetStatus_NoWait(p, s) == status' = [status EXCEPT ![p] = s]

SetStatus(p, s) == /\ Unlocked(p)
                   /\ status' = [status EXCEPT ![p] = s]

----------------------------------------------------------------------------
\* A process that is absent is not deployed.  How much of the bounds is left is
\* any, for an instance to choose from.
Init ==
  /\ status \in [Plans -> {"none", "draft", "awaiting_approval"}]
  /\ lock = [p \in Plans |-> NoProc]
  /\ owner = [p \in Plans |-> NoProc]
  /\ starts = [p \in Plans |-> 0]
  /\ row = [j \in Jobs |-> "none"]
  /\ queue = {}
  /\ call = [a \in Callers |-> NoCall]
  /\ wk = [q \in Procs |-> NoWork]
  /\ up \in [Procs -> {"absent", "down"}]
  /\ todo = [q \in Procs |-> {}]
  /\ jobLost = {} /\ failLost = {}
  /\ cmds \in 0..MaxCmds /\ crashes \in 0..MaxCrashes /\ faults \in 0..MaxFaults

----------------------------------------------------------------------------
(* Command handlers.                                                       *)

\* /new: the row is saved as a draft; the event published next has no effect
\* on the plan, and a failure to publish it is answered with an error.
CreatePlan(p) ==
  /\ \E q \in Procs : up[q] = "up"
  /\ status[p] = "none"
  /\ status' = [status EXCEPT ![p] = "draft"]
  /\ UNCHANGED <<lock, owner, starts, row, queue, call, wk, up, todo,
                 jobLost, failLost, cmds, crashes, faults>>

\* requirePlan and assertStatus: a refused command changes nothing.  The bot is
\* launched when the recovery is over (TelegramModule imports PlanModule, whose
\* onModuleInit is awaited first).
Check(c, op, p) ==
  /\ up[Home[c]] = "up"
  /\ call[c] = NoCall
  /\ status[p] \in From[op]
  /\ cmds < MaxCmds
  /\ cmds' = cmds + 1
  /\ call' = [call EXCEPT ![c] = [pc |-> "write", op |-> op, plan |-> p, job |-> 0]]
  /\ UNCHANGED <<status, lock, owner, starts, row, queue, wk, up, todo,
                 jobLost, failLost, crashes, faults>>

\* The update, by id only: the status read by Check is not read again.  What
\* submit, stop and rewrite publish afterwards does not come back to the plan.
Write(c) ==
  /\ call[c].pc = "write"
  /\ LET p == call[c].plan
         op == call[c].op
     IN \/ /\ SetStatus(p, Target[op])
           /\ call' = [call EXCEPT ![c] =
                IF Target[op] = "approved_queued"
                THEN [pc |-> "save", op |-> op, plan |-> p, job |-> 0] ELSE NoCall]
           /\ UNCHANGED faults
        \/ /\ Fault("postgres")
           /\ call' = [call EXCEPT ![c] = NoCall]
           /\ UNCHANGED status
  /\ UNCHANGED <<lock, owner, starts, row, queue, wk, up, todo,
                 jobLost, failLost, cmds, crashes>>

----------------------------------------------------------------------------
(* The end of a process.  Its calls are gone, its claim transaction is      *)
(* rolled back, and Redis hands its job to a worker again, once (a job that *)
(* stalls a second time is given up).                                       *)
LosesJob(q, p) ==
  \/ \E a \in Callers : /\ HomeOf(a) = q
                        /\ call[a].pc \in {"save", "enqueue"}
                        /\ call[a].plan = p
  \/ wk[q].job.stalls = 1 /\ wk[q].job.plan = p

Stalled(j) == [id |-> j.id, plan |-> j.plan, stalls |-> 1]

Die(q) ==
  /\ up' = [up EXCEPT ![q] = "down"]
  /\ todo' = [todo EXCEPT ![q] = {}]
  /\ call' = [a \in Callers |-> IF HomeOf(a) = q THEN NoCall ELSE call[a]]
  /\ wk' = [wk EXCEPT ![q] = NoWork]
  /\ lock' = [p \in Plans |-> IF lock[p] = q THEN NoProc ELSE lock[p]]
  /\ queue' = IF wk[q].pc = "idle" \/ wk[q].job.stalls = 1 THEN queue
              ELSE queue \cup {Stalled(wk[q].job)}
  /\ jobLost' = jobLost \cup {p \in Plans : LosesJob(q, p)}
  /\ UNCHANGED <<status, owner, starts, row, failLost, cmds>>

Crash(q) ==
  /\ Alive(q)
  /\ crashes < MaxCrashes
  /\ crashes' = crashes + 1
  /\ Die(q)
  /\ UNCHANGED faults

----------------------------------------------------------------------------
(* EventsService.publish of an execution_queued event: the event is saved,  *)
(* then the job is added.  When either fails a command is answered with an  *)
(* error; the recovery's failure makes the start of the process fail.       *)
(* events.conversationId is a uuid column and every event of a plan carries *)
(* the plan's conversation: PostgreSQL refuses each event of a plan whose   *)
(* conversation is not a uuid.                                              *)
PublishFails(a) ==
  \/ /\ a \in Procs
     /\ Die(a)
  \/ /\ a \in Cmds
     /\ call' = [call EXCEPT ![a] = NoCall]
     /\ jobLost' = jobLost \cup {call[a].plan}
     /\ UNCHANGED <<status, lock, owner, starts, row, queue, wk, up, todo,
                    failLost, cmds>>

SaveEvent(a) ==
  /\ call[a].pc = "save"
  /\ call[a].plan \in UuidPlans
  /\ \E j \in Jobs :
       /\ row[j] = "none"
       /\ \A k \in Jobs : row[k] = "none" => j <= k
       /\ row' = [row EXCEPT ![j] = "pending"]
       /\ call' = [call EXCEPT ![a] =
                     [pc |-> "enqueue", op |-> @.op, plan |-> @.plan, job |-> j]]
  /\ UNCHANGED <<status, lock, owner, starts, queue, wk, up, todo,
                 jobLost, failLost, cmds, crashes, faults>>

SaveEventFails(a) ==
  /\ call[a].pc = "save"
  /\ Fault("postgres") \/ Unsaveable(call[a].plan)
  /\ PublishFails(a)
  /\ UNCHANGED crashes

AddJob(a) ==
  /\ call[a].pc = "enqueue"
  /\ queue' = queue \cup
       {[id |-> call[a].job, plan |-> call[a].plan, stalls |-> 0]}
  /\ jobLost' = jobLost \ {call[a].plan}
  /\ call' = [call EXCEPT ![a] = NoCall]
  /\ UNCHANGED <<status, lock, owner, starts, row, wk, up, todo,
                 failLost, cmds, crashes, faults>>

AddJobFails(a) ==
  /\ call[a].pc = "enqueue"
  /\ Fault("redis")
  /\ PublishFails(a)
  /\ UNCHANGED crashes

----------------------------------------------------------------------------
(* Start of a process: onModuleInit re-queues the plans found executing,    *)
(* one by one.  The worker is registered independently and may run first.   *)
Boot(q) ==
  /\ up[q] = "down"
  /\ up' = [up EXCEPT ![q] = "booting"]
  /\ UNCHANGED <<status, lock, owner, starts, row, queue, call, wk, todo,
                 jobLost, failLost, cmds, crashes, faults>>

\* Mutant: the recovery looks for plans that are queued, not executing.
FindInterrupted_Queued(q) ==
  /\ up[q] = "booting"
  /\ up' = [up EXCEPT ![q] = "recovering"]
  /\ todo' = [todo EXCEPT ![q] = {p \in Plans : status[p] = "approved_queued"}]
  /\ UNCHANGED <<status, lock, owner, starts, row, queue, call, wk,
                 jobLost, failLost, cmds, crashes, faults>>

FindInterrupted(q) ==
  /\ up[q] = "booting"
  /\ up' = [up EXCEPT ![q] = "recovering"]
  /\ todo' = [todo EXCEPT ![q] = {p \in Plans : status[p] = "executing"}]
  /\ UNCHANGED <<status, lock, owner, starts, row, queue, call, wk,
                 jobLost, failLost, cmds, crashes, faults>>

\* Mutant: the recovery re-queues the plan without publishing its job.
RecoverPlan_NoJob(q, p) ==
  /\ up[q] = "recovering"
  /\ call[q] = NoCall
  /\ p \in todo[q]
  /\ todo' = [todo EXCEPT ![q] = @ \ {p}]
  /\ SetStatus(p, "approved_queued")
  /\ UNCHANGED <<lock, owner, starts, row, queue, call, wk, up,
                 jobLost, failLost, cmds, crashes, faults>>

RecoverPlan(q, p) ==
  /\ up[q] = "recovering"
  /\ call[q] = NoCall
  /\ p \in todo[q]
  /\ todo' = [todo EXCEPT ![q] = @ \ {p}]
  /\ SetStatus(p, "approved_queued")
  /\ call' = [call EXCEPT ![q] =
                [pc |-> "save", op |-> "recover", plan |-> p, job |-> 0]]
  /\ UNCHANGED <<lock, owner, starts, row, queue, wk, up,
                 jobLost, failLost, cmds, crashes, faults>>

\* A statement or a publication (plan.recovered comes after the job) that
\* fails during the recovery makes the start of the process fail.
StartFails(q) ==
  /\ up[q] \in {"booting", "recovering"}
  /\ call[q] = NoCall
  /\ \E s \in Faults : Fault(s)
  /\ Die(q)
  /\ UNCHANGED crashes

RecoveryDone(q) ==
  /\ up[q] = "recovering"
  /\ call[q] = NoCall
  /\ todo[q] = {}
  /\ up' = [up EXCEPT ![q] = "up"]
  /\ UNCHANGED <<status, lock, owner, starts, row, queue, call, wk, todo,
                 jobLost, failLost, cmds, crashes, faults>>

----------------------------------------------------------------------------
(* The worker of execution.jobs.                                           *)
Goto(q, pc) == wk' = [wk EXCEPT ![q] = [pc |-> pc, job |-> @.job]]

TakeJob(q) ==
  /\ "handler" \in Dispatch
  /\ Alive(q)
  /\ wk[q] = NoWork
  /\ \E j \in queue :
       /\ queue' = queue \ {j}
       /\ wk' = [wk EXCEPT ![q] = [pc |-> "select", job |-> j]]
  /\ UNCHANGED <<status, lock, owner, starts, row, call, up, todo,
                 jobLost, failLost, cmds, crashes, faults>>

\* "Missing process handler for job type": the job fails, is not attempted
\* again, and neither the plan nor the event hears of it.
MissingHandler(q) ==
  /\ "missing" \in Dispatch
  /\ Alive(q)
  /\ wk[q] = NoWork
  /\ \E j \in queue : /\ queue' = queue \ {j}
                      /\ jobLost' = jobLost \cup {j.plan}
  /\ UNCHANGED <<status, lock, owner, starts, row, call, wk, up, todo,
                 failLost, cmds, crashes, faults>>

(* SELECT ... WHERE status = 'approved_queued' FOR UPDATE SKIP LOCKED.  A   *)
(* row that another transaction has locked, if only for one UPDATE, is      *)
(* skipped as if it were not there.                                         *)
Updating(p) ==
  \/ \E c \in Callers : call[c].pc = "write" /\ call[c].plan = p
  \/ \E q \in Procs : /\ wk[q].job.plan = p
                      /\ wk[q].pc \in {"complete", "failResult", "failCatch", "failPlan"}
  \/ \E q \in Procs : p \in todo[q]

\* Mutants: SELECT without FOR UPDATE, and without the condition on the status.
Claimable_NoLock(p) == status[p] = "approved_queued"
Claimable_AnyStatus(p) == Unlocked(p)

Claimable(p) == status[p] = "approved_queued" /\ Unlocked(p)

SelectForUpdate(q) ==
  /\ wk[q].pc = "select"
  /\ LET p == wk[q].job.plan
     IN \/ /\ Claimable(p)
           /\ lock' = [lock EXCEPT ![p] = q]
           /\ Goto(q, "update")
           /\ UNCHANGED faults
        \/ /\ ~Claimable(p) \/ Updating(p)
           /\ Goto(q, "markFailed")
           /\ UNCHANGED <<lock, faults>>
        \/ /\ Fault("postgres")
           /\ Goto(q, "markFailed")
           /\ UNCHANGED lock
  /\ UNCHANGED <<status, owner, starts, row, queue, call, up, todo,
                 jobLost, failLost, cmds, crashes>>

\* The second statement of the transaction, and its commit or rollback.
ClaimPlan(q) ==
  /\ wk[q].pc = "update"
  /\ LET p == wk[q].job.plan
     IN /\ lock' = [lock EXCEPT ![p] = NoProc]
        /\ \/ /\ status' = [status EXCEPT ![p] = "executing"]
              /\ owner' = [owner EXCEPT ![p] = q]
              /\ starts' = [starts EXCEPT ![p] = @ + 1]
              /\ failLost' = failLost \ {p}
              /\ Goto(q, "started")
              /\ UNCHANGED faults
           \/ /\ Fault("postgres")
              /\ Goto(q, "markFailed")
              /\ UNCHANGED <<status, owner, starts, failLost>>
  /\ UNCHANGED <<row, queue, call, up, todo, jobLost, cmds, crashes>>

\* Mutant: an error of the setup is swallowed and the job acknowledged.
SetUpRun_Swallow(q) ==
  /\ wk[q].pc = "started"
  /\ Goto(q, "running") \/ Goto(q, "ack")
  /\ UNCHANGED <<status, lock, owner, starts, row, queue, call, up, todo,
                 jobLost, failLost, cmds, crashes, faults>>

\* The rest of startExecution and the setup of the run (workspace, vault,
\* transports): whatever throws here reaches the worker's catch block.
SetUpRun(q) ==
  /\ wk[q].pc = "started"
  /\ Goto(q, "running") \/ Goto(q, "markFailed")
  /\ UNCHANGED <<status, lock, owner, starts, row, queue, call, up, todo,
                 jobLost, failLost, cmds, crashes, faults>>

\* gsd.run returns success, returns failure or throws.  A /stop does not
\* reach it.
EndRun(q) ==
  /\ wk[q].pc = "running"
  /\ \E pc \in {"complete", "failResult", "failCatch"} : Goto(q, pc)
  /\ UNCHANGED <<status, lock, owner, starts, row, queue, call, up, todo,
                 jobLost, failLost, cmds, crashes, faults>>

\* completePlan inside the try of executeProject: if the update or the
\* publication fails, the catch block fails the plan.
CompletePlan(q) ==
  /\ wk[q].pc = "complete"
  /\ \/ /\ SetStatus(wk[q].job.plan, "completed")
        /\ \/ Goto(q, "ack") /\ PublishOk(wk[q].job.plan)
           \/ Goto(q, "failCatch") /\ PublishRefused(wk[q].job.plan)
     \/ /\ Fault("postgres")
        /\ Goto(q, "failCatch")
        /\ UNCHANGED status
  /\ UNCHANGED <<lock, owner, starts, row, queue, call, up, todo,
                 jobLost, failLost, cmds, crashes>>

\* failPlan in executeProject: after a failed result a failure of failPlan is
\* caught by the same catch block, in the catch block it reaches the worker.
FailRun(q) ==
  /\ wk[q].pc \in {"failResult", "failCatch"}
  /\ LET caught == IF wk[q].pc = "failResult" THEN "failCatch" ELSE "markFailed"
     IN \/ /\ SetStatus(wk[q].job.plan, "failed")
           /\ \/ Goto(q, "ack") /\ PublishOk(wk[q].job.plan)
              \/ Goto(q, caught) /\ PublishRefused(wk[q].job.plan)
        \/ /\ Fault("postgres")
           /\ Goto(q, caught)
           /\ UNCHANGED status
  /\ UNCHANGED <<lock, owner, starts, row, queue, call, up, todo,
                 jobLost, failLost, cmds, crashes>>

\* markProcessed, inside the worker's try.
Acknowledge(q) ==
  /\ wk[q].pc = "ack"
  /\ \/ /\ row' = [row EXCEPT ![wk[q].job.id] = "processed"]
        /\ Goto(q, "done")
        /\ UNCHANGED faults
     \/ /\ Fault("postgres")
        /\ Goto(q, "markFailed")
        /\ UNCHANGED row
  /\ UNCHANGED <<status, lock, owner, starts, queue, call, up, todo,
                 jobLost, failLost, cmds, crashes>>

\* The worker's catch block: markFailed, whose own failure is only logged.
MarkEventFailed(q) ==
  /\ wk[q].pc = "markFailed"
  /\ \/ /\ row' = [row EXCEPT ![wk[q].job.id] = "failed"]
        /\ UNCHANGED faults
     \/ Fault("postgres") /\ UNCHANGED row
  /\ Goto(q, "failPlan")
  /\ UNCHANGED <<status, lock, owner, starts, queue, call, up, todo,
                 jobLost, failLost, cmds, crashes>>

\* ... then failPlan, whatever the reason the job failed for and whatever the
\* plan's status is by now; its own failure is only logged too.
FailPlanOfJob(q) ==
  /\ wk[q].pc = "failPlan"
  /\ LET p == wk[q].job.plan
     IN \/ /\ SetStatus(p, "failed")
           /\ UNCHANGED <<failLost, faults>>
        \/ /\ Fault("postgres")
           /\ failLost' = failLost \cup {p}
           /\ UNCHANGED status
  /\ Goto(q, "done")
  /\ UNCHANGED <<lock, owner, starts, row, queue, call, up, todo,
                 jobLost, cmds, crashes>>

\* The handler has returned or thrown: Redis forgets the job, which is not
\* attempted again.
SettleJob(q) ==
  /\ wk[q].pc = "done"
  /\ wk' = [wk EXCEPT ![q] = NoWork]
  /\ UNCHANGED <<status, lock, owner, starts, row, queue, call, up, todo,
                 jobLost, failLost, cmds, crashes, faults>>

----------------------------------------------------------------------------
\* The hourly cron job: one UPDATE for the plans that have been in a terminal
\* state, untouched, for a week.
ArchiveOldPlans(S) ==
  /\ \E q \in Procs : up[q] = "up"
  /\ S # {}
  /\ \A p \in S : status[p] \in TERMINAL_STATES /\ Unlocked(p)
  /\ status' = [p \in Plans |-> IF p \in S THEN "archived" ELSE status[p]]
  /\ UNCHANGED <<lock, owner, starts, row, queue, call, wk, up, todo,
                 jobLost, failLost, cmds, crashes, faults>>

----------------------------------------------------------------------------
Command == \/ \E p \in Plans : CreatePlan(p)
           \/ \E c \in Cmds, op \in Ops, p \in Plans : Check(c, op, p)
           \/ \E c \in Cmds : Write(c)

Publish(a) == SaveEvent(a) \/ SaveEventFails(a) \/ AddJob(a) \/ AddJobFails(a)

Recover(q) == \/ FindInterrupted(q)
              \/ \E p \in Plans : RecoverPlan(q, p)
              \/ RecoveryDone(q)
              \/ StartFails(q)

\* What the worker does by itself; when a run ends is not up to it.
Serve(q) == \/ TakeJob(q) \/ MissingHandler(q)
            \/ SelectForUpdate(q) \/ ClaimPlan(q) \/ SetUpRun(q)
            \/ CompletePlan(q) \/ FailRun(q)
            \/ Acknowledge(q) \/ MarkEventFailed(q) \/ FailPlanOfJob(q)
            \/ SettleJob(q)
Work(q) == Serve(q) \/ EndRun(q)

Next == \/ Command
        \/ \E a \in Callers : Publish(a)
        \/ \E q \in Procs : Crash(q) \/ Boot(q) \/ Recover(q) \/ Work(q)
        \/ \E S \in SUBSET Plans : ArchiveOldPlans(S)

Spec == Init /\ [][Next]_vars

(* Fairness.  Node keeps scheduling the continuations of the calls in       *)
(* flight, Redis keeps handing jobs to an idle worker, and an operator      *)
(* starts a process that is down.  A run need not end: nothing limits a     *)
(* session of a model or the wait at a gate.  Nobody has to send a command, *)
(* and nothing has to crash, fail or be archived.                           *)
Fairness ==
  /\ \A c \in Cmds : WF_vars(Write(c))
  /\ \A a \in Callers : WF_vars(Publish(a))
  /\ \A q \in Procs : WF_vars(Boot(q)) /\ WF_vars(Recover(q)) /\ WF_vars(Serve(q))

FairSpec == Spec /\ Fairness

----------------------------------------------------------------------------
(* Type invariant.                                                         *)
CallPCs == {"idle", "write", "save", "enqueue"}
Call == [pc : CallPCs, op : Ops \cup {"none", "recover"},
         plan : Plans \cup {NoPlan}, job : Jobs \cup {0}]
WorkPCs == {"idle", "select", "update", "started", "running", "complete",
            "failResult", "failCatch", "ack", "markFailed", "failPlan", "done"}

\* Every variable has its type; a caller that is in the middle of a call, and
\* a worker that is not idle, have a plan.
TypeOK ==
  /\ status \in [Plans -> Status]
  /\ lock \in [Plans -> Procs \cup {NoProc}]
  /\ owner \in [Plans -> Procs \cup {NoProc}]
  /\ starts \in [Plans -> Nat]
  /\ row \in [Jobs -> {"none", "pending", "processed", "failed"}]
  /\ queue \subseteq Job
  /\ call \in [Callers -> Call]
  /\ \A a \in Callers : call[a].pc # "idle" => call[a].plan \in Plans
  /\ \A a \in Callers : call[a].pc = "enqueue" => call[a].job \in Jobs
  /\ \A a \in Callers : call[a].pc = "write" => call[a].op \in Ops
  /\ wk \in [Procs -> [pc : WorkPCs, job : JobOrNone]]
  /\ \A q \in Procs : wk[q].pc # "idle" => wk[q].job \in Job
  /\ up \in [Procs -> {"absent", "down", "booting", "recovering", "up"}]
  /\ todo \in [Procs -> SUBSET Plans]
  /\ jobLost \subseteq Plans /\ failLost \subseteq Plans
  /\ cmds \in Nat /\ crashes \in Nat /\ faults \in Nat

----------------------------------------------------------------------------
(* Safety.                                                                 *)

\* Has q's worker claimed p and not yet written the outcome of the run?
HoldingPCs == {"started", "running", "complete", "failResult", "failCatch",
               "markFailed", "failPlan"}
Runs(q, p) == wk[q].job.plan = p /\ wk[q].pc \in HoldingPCs

\* A plan is `executing' only while the process that claimed it is running it,
\* is down, or has it still to recover after its start: whatever the handlers,
\* the other processes and the crashes do in between, no plan is left
\* executing by a live process that has forgotten it, unless the database
\* refused the worker's last failPlan (which is only logged).
ExecutingIsOwned ==
  \A p \in Plans : status[p] = "executing" =>
    LET q == owner[p]
    IN /\ q \in Procs
       /\ \/ Runs(q, p)
          \/ up[q] \in {"down", "booting"}
          \/ p \in todo[q]
          \/ p \in failLost

\* A plan is `approved_queued' only while something will still move it: a job
\* that waits, a worker that is about to claim or to fail it, or a caller that
\* has written the status and not yet added the job.  The only ways to lose a
\* queued plan are the two histories: its job died with a process, with a
\* failed publication or for want of a handler, or the worker's failPlan was
\* refused.
QueuedHasJob ==
  \A p \in Plans : status[p] = "approved_queued" =>
    \/ \E j \in queue : j.plan = p
    \/ \E q \in Procs : /\ wk[q].job.plan = p
                        /\ wk[q].pc \in {"select", "update", "markFailed", "failPlan"}
    \/ \E a \in Callers : /\ call[a].plan = p
                          /\ call[a].pc \in {"save", "enqueue"}
    \/ p \in jobLost \cup failLost

\* The claim transaction excludes: a row is locked by the one worker that is
\* between its SELECT and its UPDATE, and until then the plan stays queued.
ClaimExcludes ==
  \A p \in Plans : \A q \in Procs :
    lock[p] = q <=> wk[q].pc = "update" /\ wk[q].job.plan = p
ClaimedIsQueued ==
  \A p \in Plans : lock[p] # NoProc => status[p] = "approved_queued"

\* Every run consumes a permit of its own: see ExecutionPermits.
Permits == INSTANCE ExecutionPermits
             WITH permitted <- {p \in Plans : status[p] = "approved_queued"}
PermitSpec == Permits!Spec

----------------------------------------------------------------------------
(* What README.md:36 and .planning/REQUIREMENTS.md:34,39 say, and the code  *)
(* does not do.                                                             *)

\* "PipelineService.executeProject() wires BullMQ -> GSD PhaseRunner": a job
\* leaves the queue only into the hands of the worker's handler.
JobsReachHandler ==
  [][\A j \in queue : j \in queue' \/ \E q \in Procs : wk'[q].job = j]_vars

\* "executing -> completed/failed/stopped -> archived": a plan that completed
\* is not turned into a failed one by a job that comes late.
CompletedIsNotFailed ==
  [][\A p \in Plans : status[p] = "completed" => status'[p] # "failed"]_vars

\* A plan stopped while it executed is not completed afterwards by the run that
\* the /stop was for.
StopHolds ==
  [][\A p \in Plans : status[p] = "stopped" => status'[p] # "completed"]_vars

----------------------------------------------------------------------------
(* Liveness.                                                               *)

\* A plan that is executing with nobody running it does not stay so: the next
\* start of its process finds it and queues it again, whatever other processes,
\* late jobs and commands do meanwhile.  The exception is a failPlan that the
\* database refused, which nothing repeats while the process is up.
Orphaned(p) == status[p] = "executing" /\ ~\E q \in Procs : Runs(q, p)
OrphanIsRecovered ==
  \A p \in Plans : Orphaned(p) ~> ~Orphaned(p) \/ p \in failLost

\* "/approve - Approve plan, trigger execution queue": with no crash and no
\* failing service, a plan that was approved leaves the queue.
ApprovedIsTaken ==
  \A p \in Plans : status[p] = "approved_queued" ~> status[p] # "approved_queued"

\* "executing plans re-queued on startup": a plan that is executing with nobody
\* running it is run again or ended, however often the process crashes and starts.
InterruptedIsRerun ==
  \A p \in Plans :
    Orphaned(p) ~> (\E q \in Procs : Runs(q, p)) \/ status[p] \in TERMINAL_STATES
=============================================================================
