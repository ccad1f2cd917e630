------------------------ MODULE PlanLifecycle_proofs ------------------------
(***************************************************************************)
(* Proofs about PlanLifecycle, for any sets of plans, processes and        *)
(* handlers and any value of the bounds.                                   *)
(***************************************************************************)
EXTENDS PlanLifecycle, TLAPS

CallsHavePlans ==
  \A a \in Callers : /\ call[a].pc # "idle" => call[a].plan \in Plans
                     /\ call[a].pc = "enqueue" => call[a].job \in Jobs
                     /\ call[a].pc = "write" => call[a].op \in Ops

LEMMA DieType ==
  ASSUME TypeOK, NEW q \in Procs, Die(q), faults' \in Nat, crashes' \in Nat
  PROVE  TypeOK'
<1> USE DEF Die
<1>1. call' \in [Callers -> Call]
  BY DEF TypeOK, NoCall, Call, CallPCs, Callers
<1>2. \A a \in Callers : call'[a] = NoCall \/ call'[a] = call[a]
  OBVIOUS
<1>3. CallsHavePlans'
  BY <1>2 DEF TypeOK, CallsHavePlans, NoCall
<1>4. wk' \in [Procs -> [pc : WorkPCs, job : JobOrNone]]
  BY DEF TypeOK, NoWork, WorkPCs, NoJob, JobOrNone
<1>5. \A r \in Procs : wk'[r].pc # "idle" => wk'[r].job \in Job
  BY DEF TypeOK, NoWork
<1>6. queue' \subseteq Job
  BY DEF TypeOK, Job, Stalled
<1>7. jobLost' \subseteq Plans
  BY DEF TypeOK
<1>8. lock' \in [Plans -> Procs \cup {NoProc}]
  BY DEF TypeOK
<1> QED
  BY <1>1, <1>2, <1>3, <1>4, <1>5, <1>6, <1>7, <1>8 DEF TypeOK, CallsHavePlans

(***************************************************************************)
(* Type correctness.                                                       *)
(***************************************************************************)
LEMMA InitType == Init => TypeOK
<1> SUFFICES ASSUME Init PROVE TypeOK
  OBVIOUS
<1> QED
  BY DEF Init, TypeOK, Status, NoCall, Call, CallPCs, NoWork, NoJob, WorkPCs,
         JobOrNone

LEMMA CommandType ==
  ASSUME TypeOK, Command PROVE TypeOK'
<1>1. ASSUME NEW p \in Plans, CreatePlan(p) PROVE TypeOK'
  BY <1>1 DEF TypeOK, CreatePlan, Status
<1>2. ASSUME NEW c \in Cmds, NEW op \in Ops, NEW p \in Plans, Check(c, op, p)
      PROVE TypeOK'
  BY <1>2 DEF TypeOK, Check, Call, CallPCs, Callers
<1>3. ASSUME NEW c \in Cmds, Write(c) PROVE TypeOK'
  <2> DEFINE op == call[c].op
             saved == [pc |-> "save", op |-> op, plan |-> call[c].plan, job |-> 0]
  <2>1. /\ op \in Ops /\ call[c].plan \in Plans
        /\ saved \in Call /\ NoCall \in Call
        /\ Target[op] \in Status
    BY <1>3 DEF Write, TypeOK, Callers, Call, CallPCs, NoCall, Ops, Target, Status
  <2>2. PICK v \in {saved, NoCall} : call' = [call EXCEPT ![c] = v]
    BY <1>3 DEF Write
  <2>3. /\ call' \in [Callers -> Call]
        /\ call' = [a \in Callers |-> IF a = c THEN v ELSE call[a]]
    BY <2>1, <2>2 DEF TypeOK, Callers
  <2>4. CallsHavePlans'
    BY <2>1, <2>2, <2>3 DEF TypeOK, CallsHavePlans, NoCall
  <2> QED
    BY <1>3, <2>1, <2>3, <2>4 DEF TypeOK, CallsHavePlans, Write, SetStatus, Fault
<1> QED
  BY <1>1, <1>2, <1>3 DEF Command

\* Every outcome of a publication leaves a number of faults.
LEMMA FaultType ==
  ASSUME faults \in Nat, NEW p,
         \/ PublishOk(p) \/ PublishRefused(p) \/ \E s \in Faults : Fault(s)
         \/ Fault("postgres") \/ UNCHANGED faults
  PROVE  faults' \in Nat
BY DEF PublishOk, PublishRefused, Unsaveable, Fault

LEMMA PublishType ==
  ASSUME TypeOK, NEW a \in Callers, Publish(a) PROVE TypeOK'
<1>1. CASE SaveEvent(a)
  BY <1>1 DEF TypeOK, SaveEvent, Call, CallPCs
<1>2. ASSUME PublishFails(a), faults' \in Nat, crashes' \in Nat,
             call[a].pc \in {"save", "enqueue"}
      PROVE TypeOK'
  <2>1. CASE a \in Procs /\ Die(a)
    BY <1>2, <2>1, DieType
  <2>2. CASE a \in Cmds /\ ~(a \in Procs /\ Die(a))
    <3>1. /\ call' = [call EXCEPT ![a] = NoCall]
          /\ jobLost' = jobLost \cup {call[a].plan}
          /\ UNCHANGED <<status, lock, owner, starts, row, queue, wk, up, todo,
                         failLost, cmds>>
      BY <1>2, <2>2 DEF PublishFails
    <3>2. call' \in [Callers -> Call]
      BY <3>1 DEF TypeOK, NoCall, Call, CallPCs
    <3>3. \A b \in Callers : call'[b] = NoCall \/ call'[b] = call[b]
      BY <3>1 DEF TypeOK
    <3>4. CallsHavePlans'
      BY <3>3 DEF TypeOK, CallsHavePlans, NoCall
    <3> QED
      BY <1>2, <3>1, <3>2, <3>4 DEF TypeOK, CallsHavePlans
  <2> QED
    BY <1>2, <2>1, <2>2 DEF PublishFails
<1>3. CASE SaveEventFails(a)
  BY <1>2, <1>3 DEF SaveEventFails, Unsaveable, Fault, TypeOK
<1>4. CASE AddJob(a)
  BY <1>4 DEF TypeOK, AddJob, Call, CallPCs, NoCall, Job
<1>5. CASE AddJobFails(a)
  BY <1>2, <1>5 DEF AddJobFails, Fault, TypeOK
<1> QED
  BY <1>1, <1>3, <1>4, <1>5 DEF Publish

LEMMA ProcessType ==
  ASSUME TypeOK, NEW q \in Procs, Crash(q) \/ Boot(q) \/ Recover(q)
  PROVE  TypeOK'
<1>1. CASE Crash(q)
  BY <1>1, DieType DEF Crash, TypeOK
<1>2. CASE Boot(q)
  BY <1>2 DEF Boot, TypeOK
<1>3. CASE FindInterrupted(q)
  BY <1>3 DEF FindInterrupted, TypeOK
<1>4. ASSUME NEW p \in Plans, RecoverPlan(q, p) PROVE TypeOK'
  BY <1>4 DEF RecoverPlan, SetStatus, TypeOK, Status, Call, CallPCs, Callers
<1>5. CASE StartFails(q)
  BY <1>5, DieType DEF StartFails, Fault, TypeOK
<1>6. CASE RecoveryDone(q)
  BY <1>6 DEF RecoveryDone, TypeOK
<1> QED
  BY <1>1, <1>2, <1>3, <1>4, <1>5, <1>6 DEF Recover

\* A step of a busy worker to another busy place keeps the type of wk.
LEMMA GotoType ==
  ASSUME TypeOK, NEW q \in Procs, wk[q].pc # "idle",
         NEW pc \in WorkPCs \ {"idle"}, Goto(q, pc)
  PROVE  /\ wk' \in [Procs -> [pc : WorkPCs, job : JobOrNone]]
         /\ \A r \in Procs : wk'[r].pc # "idle" => wk'[r].job \in Job
<1>1. wk \in [Procs -> [pc : WorkPCs, job : JobOrNone]] /\ wk[q].job \in Job
  BY DEF TypeOK
<1>2. wk' = [wk EXCEPT ![q] = [pc |-> pc, job |-> wk[q].job]]
  BY <1>1 DEF Goto
<1>3. [pc |-> pc, job |-> wk[q].job] \in [pc : WorkPCs, job : JobOrNone]
  BY <1>1
<1> QED
  BY <1>1, <1>2, <1>3 DEF TypeOK

LEMMA WorkType ==
  ASSUME TypeOK, NEW q \in Procs, Work(q) PROVE TypeOK'
<1> DEFINE WkType == /\ wk \in [Procs -> [pc : WorkPCs, job : JobOrNone]]
                     /\ \A r \in Procs : wk[r].pc # "idle" => wk[r].job \in Job
<1> USE DEF TypeOK
<1>1. CASE TakeJob(q)
  BY <1>1 DEF TakeJob, WorkPCs, Job, JobOrNone
<1>2. CASE SelectForUpdate(q)
  <2>1. WkType'
    BY <1>2, GotoType DEF SelectForUpdate, WorkPCs
  <2> QED
    BY <1>2, <2>1 DEF SelectForUpdate, Fault
<1>3. CASE ClaimPlan(q)
  <2>1. WkType'
    BY <1>3, GotoType DEF ClaimPlan, WorkPCs
  <2>2. wk[q].job.plan \in Plans
    BY <1>3 DEF ClaimPlan, Job
  <2>3. starts' \in [Plans -> Nat]
    BY <1>3, <2>2 DEF ClaimPlan
  <2>4. /\ status' = status \/ status' = [status EXCEPT ![wk[q].job.plan] = "executing"]
        /\ owner' = owner \/ owner' = [owner EXCEPT ![wk[q].job.plan] = q]
        /\ lock' = [lock EXCEPT ![wk[q].job.plan] = NoProc]
    BY <1>3 DEF ClaimPlan
  <2>7. "executing" \in Status
    BY DEF Status
  <2>8. /\ status' \in [Plans -> Status]
        /\ owner' \in [Plans -> Procs \cup {NoProc}]
        /\ lock' \in [Plans -> Procs \cup {NoProc}]
    <3>1. status' \in [Plans -> Status]
      BY <2>4, <2>7
    <3>2. owner' \in [Plans -> Procs \cup {NoProc}]
      BY <2>4
    <3>3. lock' \in [Plans -> Procs \cup {NoProc}]
      BY <2>4
    <3> QED
      BY <3>1, <3>2, <3>3
  <2>5. failLost' \subseteq Plans
    <3>1. failLost' = failLost \/ failLost' = failLost \ {wk[q].job.plan}
      BY <1>3 DEF ClaimPlan
    <3> QED
      BY <3>1
  <2>6. faults' \in Nat
    <3>1. faults' = faults \/ faults' = faults + 1
      BY <1>3 DEF ClaimPlan, Fault
    <3> QED
      BY <3>1
  <2> QED
    BY <1>3, <2>1, <2>3, <2>5, <2>6, <2>8 DEF ClaimPlan
<1>4. CASE SetUpRun(q)
  <2>1. WkType'
    BY <1>4, GotoType DEF SetUpRun, WorkPCs
  <2> QED
    BY <1>4, <2>1 DEF SetUpRun
<1>5. CASE EndRun(q)
  <2>1. WkType'
    BY <1>5, GotoType DEF EndRun, WorkPCs
  <2> QED
    BY <1>5, <2>1 DEF EndRun
<1>6. CASE CompletePlan(q)
  <2>1. WkType'
    BY <1>6, GotoType DEF CompletePlan, WorkPCs
  <2> QED
    BY <1>6, <2>1, FaultType DEF CompletePlan, SetStatus, Status
<1>7. CASE FailRun(q)
  <2>1. WkType'
    <3>1. \E pc \in {"ack", "failCatch", "markFailed"} : Goto(q, pc)
      BY <1>7 DEF FailRun
    <3> QED
      BY <1>7, <3>1, GotoType DEF FailRun, WorkPCs
  <2> QED
    BY <1>7, <2>1, FaultType DEF FailRun, SetStatus, Status
<1>8. CASE Acknowledge(q)
  <2>1. WkType'
    BY <1>8, GotoType DEF Acknowledge, WorkPCs
  <2> QED
    BY <1>8, <2>1 DEF Acknowledge, Fault
<1>9. CASE MarkEventFailed(q)
  <2>1. WkType'
    BY <1>9, GotoType DEF MarkEventFailed, WorkPCs
  <2> QED
    BY <1>9, <2>1 DEF MarkEventFailed, Fault
<1>10. CASE FailPlanOfJob(q)
  <2>1. WkType'
    BY <1>10, GotoType DEF FailPlanOfJob, WorkPCs
  <2>2. wk[q].job.plan \in Plans
    BY <1>10 DEF FailPlanOfJob, Job
  <2>3. status' \in [Plans -> Status]
    BY <1>10, <2>2 DEF FailPlanOfJob, SetStatus, Status
  <2>4. failLost' \subseteq Plans /\ faults' \in Nat
    BY <1>10, <2>2, FaultType DEF FailPlanOfJob
  <2> QED
    BY <1>10, <2>1, <2>3, <2>4 DEF FailPlanOfJob
<1>11. CASE SettleJob(q)
  BY <1>11 DEF SettleJob, NoWork, NoJob, WorkPCs, JobOrNone
<1>12. CASE MissingHandler(q)
  <2>1. queue' \subseteq Job /\ jobLost' \subseteq Plans
    BY <1>12 DEF MissingHandler, Job
  <2> QED
    BY <1>12, <2>1 DEF MissingHandler
<1> QED
  BY <1>1, <1>2, <1>3, <1>4, <1>5, <1>6, <1>7, <1>8, <1>9, <1>10, <1>11, <1>12
     DEF Work, Serve

LEMMA NextType == TypeOK /\ [Next]_vars => TypeOK'
<1> SUFFICES ASSUME TypeOK, [Next]_vars PROVE TypeOK'
  OBVIOUS
<1>1. ASSUME NEW S \in SUBSET Plans, ArchiveOldPlans(S) PROVE TypeOK'
  BY <1>1 DEF ArchiveOldPlans, TypeOK, Status
<1>2. CASE UNCHANGED vars
  BY <1>2 DEF vars, TypeOK
<1> QED
  BY <1>1, <1>2, CommandType, PublishType, ProcessType, WorkType DEF Next

\* Every variable keeps its type, whatever the constants.
THEOREM TypeCorrect == Spec => []TypeOK
<1> QED
  BY InitType, NextType, PTL DEF Spec

(***************************************************************************)
(* The claim transaction.  ClaimExcludes is not inductive on its own: that *)
(* a locked plan is queued is what makes the second SELECT skip it.        *)
(***************************************************************************)
ClaimInv == ClaimExcludes /\ ClaimedIsQueued

\* A step that moves no worker into or out of its transaction, and updates
\* unlocked rows only.
LEMMA ClaimFrame ==
  ASSUME TypeOK, ClaimInv, lock' = lock,
         \A r \in Procs : \/ wk'[r] = wk[r]
                          \/ wk[r].pc # "update" /\ wk'[r].pc # "update",
         \A p \in Plans : status'[p] = status[p] \/ lock[p] = NoProc
  PROVE  ClaimInv'
BY DEF ClaimInv, ClaimExcludes, ClaimedIsQueued

LEMMA SetStatusUnlocked ==
  ASSUME TypeOK, NEW p, NEW s, SetStatus(p, s)
  PROVE  \A r \in Plans : status'[r] = status[r] \/ (r = p /\ lock[r] = NoProc)
BY DEF SetStatus, Unlocked, TypeOK

LEMMA DieClaim ==
  ASSUME TypeOK, ClaimInv, NEW q \in Procs, Die(q)
  PROVE  ClaimInv'
<1>1. /\ wk'[q] = NoWork
      /\ \A r \in Procs \ {q} : wk'[r] = wk[r]
      /\ \A p \in Plans : lock'[p] = IF lock[p] = q THEN NoProc ELSE lock[p]
      /\ status' = status
  BY DEF Die, TypeOK
<1>2. ClaimExcludes'
  <2> SUFFICES ASSUME NEW p \in Plans, NEW r \in Procs
               PROVE  lock'[p] = r <=> wk'[r].pc = "update" /\ wk'[r].job.plan = p
    BY DEF ClaimExcludes
  <2>1. NoProc \notin Procs
    BY ConstantsAssumption
  <2> QED
    BY <1>1, <2>1 DEF ClaimInv, ClaimExcludes, NoWork
<1> QED
  BY <1>1, <1>2 DEF ClaimInv, ClaimedIsQueued

LEMMA InitClaim == Init => ClaimInv
BY ConstantsAssumption DEF Init, ClaimInv, ClaimExcludes, ClaimedIsQueued, NoWork

LEMMA WorkClaim ==
  ASSUME TypeOK, ClaimInv, NEW q \in Procs, Work(q)
  PROVE  ClaimInv'
<1>1. CASE TakeJob(q)
  <2>1. wk[q].pc # "update" /\ wk'[q].pc # "update" /\ \A r \in Procs \ {q} : wk'[r] = wk[r]
    BY <1>1 DEF TakeJob, NoWork, TypeOK
  <2> QED
    BY <1>1, <2>1, ClaimFrame DEF TakeJob
<1>2. CASE SelectForUpdate(q)
  <2> DEFINE p == wk[q].job.plan
  <2>1. CASE Claimable(p) /\ lock' = [lock EXCEPT ![p] = q] /\ Goto(q, "update")
    <3>1. /\ wk[q].pc = "select" /\ p \in Plans /\ status' = status
          /\ wk'[q].pc = "update" /\ wk'[q].job.plan = p
          /\ \A r \in Procs \ {q} : wk'[r] = wk[r]
      <4>1. wk[q].pc = "select" /\ status' = status
        BY <1>2 DEF SelectForUpdate
      <4>2. p \in Plans
        BY <4>1 DEF TypeOK, Job
      <4> QED
        BY <2>1, <4>1, <4>2 DEF Goto, TypeOK
    <3>2. /\ status[p] = "approved_queued" /\ lock[p] = NoProc
          /\ lock'[p] = q /\ \A r \in Plans \ {p} : lock'[r] = lock[r]
      BY <2>1, <3>1 DEF Claimable, Unlocked, TypeOK
    <3> QED
      BY <3>1, <3>2, ConstantsAssumption DEF ClaimInv, ClaimExcludes, ClaimedIsQueued
  <2>2. CASE lock' = lock /\ Goto(q, "markFailed")
    <3>1. wk[q].pc # "update" /\ wk'[q].pc # "update"
          /\ \A r \in Procs \ {q} : wk'[r] = wk[r]
      <4>1. wk[q].pc # "update"
        BY <1>2 DEF SelectForUpdate
      <4> QED
        BY <2>2, <4>1 DEF Goto, TypeOK
    <3> QED
      BY <1>2, <2>2, <3>1, ClaimFrame DEF SelectForUpdate
  <2> QED
    BY <1>2, <2>1, <2>2 DEF SelectForUpdate
<1>3. CASE ClaimPlan(q)
  <2> DEFINE p == wk[q].job.plan
  <2>1. /\ wk[q].pc = "update" /\ p \in Plans
        /\ wk'[q].pc # "update" /\ \A r \in Procs \ {q} : wk'[r] = wk[r]
    <3>1. wk[q].pc = "update"
      BY <1>3 DEF ClaimPlan
    <3>2. Goto(q, "started") \/ Goto(q, "markFailed")
      BY <1>3 DEF ClaimPlan
    <3>3. p \in Plans
      BY <3>1 DEF TypeOK, Job
    <3> QED
      BY <3>1, <3>2, <3>3 DEF Goto, TypeOK
  <2>2. /\ lock'[p] = NoProc /\ \A r \in Plans \ {p} : lock'[r] = lock[r]
        /\ \A r \in Plans \ {p} : status'[r] = status[r]
    BY <1>3, <2>1 DEF ClaimPlan, TypeOK
  <2>3. lock[p] = q
    BY <2>1 DEF ClaimInv, ClaimExcludes
  <2> QED
    BY <2>1, <2>2, <2>3, ConstantsAssumption DEF ClaimInv, ClaimExcludes, ClaimedIsQueued
<1>4. ASSUME \/ SetUpRun(q) \/ EndRun(q) \/ CompletePlan(q) \/ FailRun(q)
             \/ Acknowledge(q) \/ MarkEventFailed(q) \/ FailPlanOfJob(q)
      PROVE  ClaimInv'
  <2>1. PICK pc \in {"running", "complete", "failResult", "failCatch", "ack",
                     "markFailed", "failPlan", "done"} : Goto(q, pc)
    BY <1>4 DEF SetUpRun, EndRun, CompletePlan, FailRun, Acknowledge,
                MarkEventFailed, FailPlanOfJob
  <2>2. wk[q].pc # "update" /\ lock' = lock
    BY <1>4 DEF SetUpRun, EndRun, CompletePlan, FailRun, Acknowledge,
                MarkEventFailed, FailPlanOfJob
  <2>3. \A p \in Plans : status'[p] = status[p] \/ lock[p] = NoProc
    <3>1. \/ status' = status
          \/ \E p, s : SetStatus(p, s)
      BY <1>4
      DEF SetUpRun, EndRun, CompletePlan, FailRun, Acknowledge,
          MarkEventFailed, FailPlanOfJob
    <3> QED
      BY <3>1 DEF SetStatus, Unlocked, TypeOK
  <2>4. wk'[q].pc # "update" /\ \A r \in Procs \ {q} : wk'[r] = wk[r]
    BY <2>1 DEF Goto, TypeOK
  <2> QED
    BY <2>2, <2>3, <2>4, ClaimFrame
<1>5. CASE SettleJob(q)
  <2>1. wk[q].pc # "update" /\ wk'[q].pc # "update" /\ \A r \in Procs \ {q} : wk'[r] = wk[r]
    BY <1>5 DEF SettleJob, NoWork, TypeOK
  <2> QED
    BY <1>5, <2>1, ClaimFrame DEF SettleJob
<1>6. CASE MissingHandler(q)
  BY <1>6 DEF MissingHandler, ClaimInv, ClaimExcludes, ClaimedIsQueued
<1> QED
  BY <1>1, <1>2, <1>3, <1>4, <1>5, <1>6 DEF Work, Serve

LEMMA NextClaim == TypeOK /\ ClaimInv /\ [Next]_vars => ClaimInv'
<1> SUFFICES ASSUME TypeOK, ClaimInv, [Next]_vars PROVE ClaimInv'
  OBVIOUS
<1>1. CASE Command
  <2>1. lock' = lock /\ wk' = wk
    BY <1>1 DEF Command, CreatePlan, Check, Write
  <2>2. \A p \in Plans : status'[p] = status[p] \/ lock[p] = NoProc
    <3>1. ASSUME NEW p \in Plans, CreatePlan(p)
          PROVE  \A r \in Plans : status'[r] = status[r] \/ lock[r] = NoProc
      BY <3>1 DEF CreatePlan, ClaimInv, ClaimedIsQueued, TypeOK
    <3>2. ASSUME NEW c \in Cmds, Write(c)
          PROVE  \A r \in Plans : status'[r] = status[r] \/ lock[r] = NoProc
      BY <3>2, SetStatusUnlocked DEF Write
    <3> QED
      BY <1>1, <3>1, <3>2 DEF Command, Check
  <2> QED
    BY <2>1, <2>2, ClaimFrame
<1>2. ASSUME NEW a \in Callers, Publish(a) PROVE ClaimInv'
  <2>1. CASE SaveEvent(a) \/ AddJob(a)
    BY <2>1, ClaimFrame DEF SaveEvent, AddJob
  <2>2. CASE PublishFails(a)
    BY <2>2, DieClaim, ClaimFrame DEF PublishFails
  <2> QED
    BY <1>2, <2>1, <2>2 DEF Publish, SaveEventFails, AddJobFails
<1>3. ASSUME NEW q \in Procs, Crash(q) \/ Boot(q) \/ Recover(q) PROVE ClaimInv'
  <2>1. CASE Crash(q) \/ StartFails(q)
    BY <2>1, DieClaim DEF Crash, StartFails
  <2>2. CASE Boot(q) \/ FindInterrupted(q) \/ RecoveryDone(q)
    BY <2>2, ClaimFrame DEF Boot, FindInterrupted, RecoveryDone
  <2>3. ASSUME NEW p \in Plans, RecoverPlan(q, p) PROVE ClaimInv'
    BY <2>3, ClaimFrame, SetStatusUnlocked DEF RecoverPlan
  <2> QED
    BY <1>3, <2>1, <2>2, <2>3 DEF Recover
<1>4. ASSUME NEW S \in SUBSET Plans, ArchiveOldPlans(S) PROVE ClaimInv'
  BY <1>4, ClaimFrame DEF ArchiveOldPlans, Unlocked
<1>5. CASE UNCHANGED vars
  BY <1>5, ClaimFrame DEF vars
<1> QED
  BY <1>1, <1>2, <1>3, <1>4, <1>5, WorkClaim DEF Next

\* A row is locked by exactly the worker that is between its SELECT and its
\* UPDATE: no two workers run the claim of one plan, however many there are.
THEOREM ClaimsExclude == Spec => []ClaimExcludes
<1>1. ClaimInv => ClaimExcludes
  BY DEF ClaimInv
<1> QED
  BY <1>1, InitType, NextType, InitClaim, NextClaim, PTL DEF Spec

\* No handler, recovery or cron job takes a plan out of the queue under a
\* transaction that claims it.
THEOREM ClaimsAreQueued == Spec => []ClaimedIsQueued
<1>1. ClaimInv => ClaimedIsQueued
  BY DEF ClaimInv
<1> QED
  BY <1>1, InitType, NextType, InitClaim, NextClaim, PTL DEF Spec

(***************************************************************************)
(* PlanLifecycle implements ExecutionPermits.                              *)
(***************************************************************************)
queued == {p \in Plans : status[p] = "approved_queued"}

LEMMA PermitsStutter ==
  ASSUME starts' = starts, queued' = queued
  PROVE  [Permits!Next]_<<queued, starts>>
OBVIOUS

\* An update of one row, other than a claim, grants or withdraws one permit.
LEMMA UpdateIsPermitStep ==
  ASSUME TypeOK, starts' = starts, NEW p \in Plans, NEW s \in Status,
         status' = [status EXCEPT ![p] = s]
  PROVE  [Permits!Next]_<<queued, starts>>
<1>1. CASE s = "approved_queued"
  <2>1. queued' = queued \cup {p}
    BY <1>1 DEF queued, TypeOK
  <2>2. Permits!Grant(p)
    BY <2>1 DEF Permits!Grant, queued
  <2> QED
    BY <2>2 DEF Permits!Next
<1>2. CASE s # "approved_queued"
  <2>1. queued' = queued \ {p}
    BY <1>2 DEF queued, TypeOK
  <2>2. Permits!Withdraw(p)
    BY <2>1 DEF Permits!Withdraw, queued
  <2> QED
    BY <2>2 DEF Permits!Next
<1> QED
  BY <1>1, <1>2

\* The claim transaction uses the permit up: the plan it locked is still queued.
LEMMA ClaimIsPermitStep ==
  ASSUME TypeOK, ClaimInv, NEW q \in Procs, ClaimPlan(q)
  PROVE  [Permits!Next]_<<queued, starts>>
<1>1. PICK p \in Plans : p = wk[q].job.plan
  BY DEF ClaimPlan, TypeOK, Job
<1>2. p \in queued
  <2>1. lock[p] = q
    BY <1>1 DEF ClaimPlan, ClaimInv, ClaimExcludes
  <2> QED
    BY <2>1, ConstantsAssumption DEF ClaimInv, ClaimedIsQueued, queued
<1>3. CASE /\ status' = [status EXCEPT ![p] = "executing"]
           /\ starts' = [starts EXCEPT ![p] = @ + 1]
  <2>1. queued' = queued \ {p}
    BY <1>3 DEF queued, TypeOK
  <2>2. Permits!Start(p)
    BY <1>2, <1>3, <2>1 DEF Permits!Start, queued
  <2> QED
    BY <2>2 DEF Permits!Next
<1>4. CASE UNCHANGED <<status, starts>>
  BY <1>4, PermitsStutter DEF queued
<1> QED
  BY <1>1, <1>3, <1>4 DEF ClaimPlan

LEMMA InitPermits == Init => Permits!Init
<1> SUFFICES ASSUME Init PROVE Permits!Init
  OBVIOUS
<1> QED
  BY DEF Init, Permits!Init

\* What a step other than a claim or the archiving does to the plans' rows.
UpdatesOneRow ==
  /\ starts' = starts
  /\ \/ status' = status
     \/ \E p \in Plans, s \in Status : status' = [status EXCEPT ![p] = s]

LEMMA NextPermits ==
  TypeOK /\ ClaimInv /\ [Next]_vars => [Permits!Next]_<<queued, starts>>
<1> SUFFICES ASSUME TypeOK, ClaimInv, [Next]_vars
             PROVE  [Permits!Next]_<<queued, starts>>
  OBVIOUS
<1>1. ASSUME UpdatesOneRow PROVE [Permits!Next]_<<queued, starts>>
  <2>1. CASE status' = status
    BY <1>1, <2>1, PermitsStutter DEF UpdatesOneRow, queued
  <2>2. CASE \E p \in Plans, s \in Status : status' = [status EXCEPT ![p] = s]
    BY <1>1, <2>2, UpdateIsPermitStep DEF UpdatesOneRow
  <2> QED
    BY <1>1, <2>1, <2>2 DEF UpdatesOneRow
<1>2. CASE Command
  <2>1. ASSUME NEW p \in Plans, CreatePlan(p) PROVE UpdatesOneRow
    BY <2>1 DEF CreatePlan, UpdatesOneRow, Status
  <2>2. ASSUME NEW c \in Cmds, Write(c) PROVE UpdatesOneRow
    <3>1. call[c].plan \in Plans /\ Target[call[c].op] \in Status
      BY <2>2 DEF Write, TypeOK, Callers, Target, Ops, Status
    <3> QED
      BY <2>2, <3>1 DEF Write, SetStatus, UpdatesOneRow
  <2> QED
    BY <1>1, <1>2, <2>1, <2>2 DEF Command, Check, UpdatesOneRow
<1>3. ASSUME NEW a \in Callers, Publish(a) PROVE UpdatesOneRow
  BY <1>3 DEF Publish, SaveEvent, SaveEventFails, AddJob, AddJobFails,
              PublishFails, Die, UpdatesOneRow
<1>4. ASSUME NEW q \in Procs, Crash(q) \/ Boot(q) \/ Recover(q) PROVE UpdatesOneRow
  <2>1. ASSUME NEW p \in Plans, RecoverPlan(q, p) PROVE UpdatesOneRow
    BY <2>1 DEF RecoverPlan, SetStatus, UpdatesOneRow, Status
  <2> QED
    BY <1>4, <2>1 DEF Crash, Boot, Recover, FindInterrupted, RecoveryDone,
                      StartFails, Die, UpdatesOneRow
<1>5. ASSUME NEW q \in Procs, Work(q) PROVE ClaimPlan(q) \/ UpdatesOneRow
  <2>1. ASSUME wk[q].pc # "idle", NEW s \in Status, SetStatus(wk[q].job.plan, s),
               starts' = starts
        PROVE  UpdatesOneRow
    <3>1. wk[q].job.plan \in Plans
      BY <2>1 DEF TypeOK, Job
    <3> QED
      BY <2>1, <3>1 DEF SetStatus, UpdatesOneRow
  <2>2. CASE TakeJob(q) \/ MissingHandler(q) \/ SelectForUpdate(q) \/ SetUpRun(q)
             \/ EndRun(q) \/ Acknowledge(q) \/ MarkEventFailed(q) \/ SettleJob(q)
    BY <2>2 DEF TakeJob, MissingHandler, SelectForUpdate, SetUpRun, EndRun,
                Acknowledge, MarkEventFailed, SettleJob, UpdatesOneRow
  <2>3. CASE CompletePlan(q) \/ FailRun(q) \/ FailPlanOfJob(q)
    <3>1. wk[q].pc # "idle" /\ starts' = starts
      BY <2>3 DEF CompletePlan, FailRun, FailPlanOfJob
    <3>2. \/ status' = status
          \/ \E s \in {"completed", "failed"} : SetStatus(wk[q].job.plan, s)
      BY <2>3 DEF CompletePlan, FailRun, FailPlanOfJob
    <3> QED
      BY <2>1, <3>1, <3>2 DEF UpdatesOneRow, Status
  <2> QED
    BY <1>5, <2>2, <2>3 DEF Work, Serve
<1>6. ASSUME NEW S \in SUBSET Plans, ArchiveOldPlans(S)
      PROVE  [Permits!Next]_<<queued, starts>>
  <2>1. queued' = queued
    BY <1>6 DEF ArchiveOldPlans, TERMINAL_STATES, queued
  <2> QED
    BY <1>6, <2>1, PermitsStutter DEF ArchiveOldPlans
<1>7. CASE UNCHANGED vars
  BY <1>1, <1>7 DEF vars, UpdatesOneRow
<1> QED
  BY <1>1, <1>2, <1>3, <1>4, <1>5, <1>6, <1>7, ClaimIsPermitStep DEF Next

\* A plan starts only on a permit that nobody has used: an approval, a retry or
\* a recovery starts it at most once, however many handlers, processes and
\* duplicate jobs there are.
THEOREM Implements == Spec => PermitSpec
<1>1. queued = {p \in Plans : status[p] = "approved_queued"}
  BY DEF queued
<1> QED
  BY InitPermits, NextPermits, InitType, NextType, InitClaim, NextClaim, PTL
  DEF Spec, PermitSpec, Permits!Spec, queued

(***************************************************************************)
(* ExecutingIsOwned is inductive with the type invariant.                  *)
(***************************************************************************)
Owned(p) == LET q == owner[p]
            IN /\ q \in Procs
               /\ \/ Runs(q, p)
                  \/ up[q] \in {"down", "booting"}
                  \/ p \in todo[q]
                  \/ p \in failLost

\* A step that starts no plan, and takes from no plan the place it is held in.
LEMMA OwnedFrame ==
  ASSUME ExecutingIsOwned, owner' = owner, failLost \subseteq failLost',
         NEW p \in Plans, status'[p] = "executing" => status[p] = "executing",
         \A q \in Procs :
           /\ Runs(q, p) => Runs(q, p)' \/ up'[q] = "down" \/ p \in failLost'
           /\ up[q] \in {"down", "booting"} =>
                up'[q] \in {"down", "booting"} \/ p \in todo'[q]
           /\ p \in todo[q] => p \in todo'[q] \/ up'[q] = "down"
  PROVE  status'[p] = "executing" => Owned(p)'
BY DEF ExecutingIsOwned, Owned

LEMMA DieOwned ==
  ASSUME TypeOK, ExecutingIsOwned, NEW d \in Procs, Die(d), NEW p \in Plans
  PROVE  status'[p] = "executing" => Owned(p)'
<1>1. /\ owner' = owner /\ failLost' = failLost /\ status' = status
      /\ up'[d] = "down"
      /\ \A q \in Procs \ {d} : /\ wk'[q] = wk[q] /\ up'[q] = up[q]
                                /\ todo'[q] = todo[q]
  BY DEF Die, TypeOK
<1> QED
  BY <1>1, OwnedFrame DEF Runs

LEMMA WorkOwned ==
  ASSUME TypeOK, ExecutingIsOwned, NEW w \in Procs, Work(w), NEW p \in Plans
  PROVE  status'[p] = "executing" => Owned(p)'
<1> USE DEF TypeOK, Goto
<1>1. CASE TakeJob(w)
  <2>1. \A q \in Procs : Runs(q, p) => Runs(q, p)'
    BY <1>1 DEF TakeJob, Runs, HoldingPCs, NoWork
  <2> QED
    BY <1>1, <2>1, OwnedFrame DEF TakeJob
<1>2. CASE SelectForUpdate(w)
  <2>1. \A q \in Procs : Runs(q, p) => Runs(q, p)'
    BY <1>2 DEF SelectForUpdate, Runs, HoldingPCs
  <2> QED
    BY <1>2, <2>1, OwnedFrame DEF SelectForUpdate
<1>3. CASE ClaimPlan(w)
  <2>1. PICK r \in Plans : r = wk[w].job.plan
    BY <1>3 DEF ClaimPlan, Job
  <2>2. CASE Goto(w, "markFailed") /\ UNCHANGED <<status, owner, failLost>>
    <3>1. \A q \in Procs : Runs(q, p) => Runs(q, p)'
      BY <1>3, <2>2 DEF Runs, HoldingPCs
    <3> QED
      BY <1>3, <2>2, <3>1, OwnedFrame DEF ClaimPlan
  <2>3. CASE /\ status' = [status EXCEPT ![r] = "executing"]
             /\ owner' = [owner EXCEPT ![r] = w]
             /\ failLost' = failLost \ {r}
             /\ Goto(w, "started")
    <3>1. CASE p = r
      BY <2>1, <2>3, <3>1 DEF Owned, Runs, HoldingPCs
    <3>2. CASE p # r
      <4>1. \A q \in Procs : Runs(q, p) => Runs(q, p)'
        BY <1>3, <2>1, <2>3, <3>2 DEF ClaimPlan, Runs, HoldingPCs
      <4> QED
        BY <1>3, <2>1, <2>3, <3>2, <4>1 DEF ClaimPlan, ExecutingIsOwned, Owned
    <3> QED
      BY <3>1, <3>2
  <2> QED
    BY <1>3, <2>1, <2>2, <2>3 DEF ClaimPlan
<1>4. CASE SetUpRun(w) \/ EndRun(w) \/ Acknowledge(w) \/ MarkEventFailed(w)
  <2>1. PICK pc \in HoldingPCs \cup {"done"} :
          Goto(w, pc) /\ (wk[w].pc \in HoldingPCs => pc # "done")
    BY <1>4 DEF SetUpRun, EndRun, Acknowledge, MarkEventFailed, HoldingPCs
  <2>2. \A q \in Procs : Runs(q, p) => Runs(q, p)'
    BY <2>1 DEF Runs, HoldingPCs
  <2> QED
    BY <1>4, <2>2, OwnedFrame DEF SetUpRun, EndRun, Acknowledge, MarkEventFailed
<1>5. CASE CompletePlan(w) \/ FailRun(w) \/ FailPlanOfJob(w)
  <2>1. /\ owner' = owner /\ up' = up /\ todo' = todo
        /\ failLost \subseteq failLost'
        /\ status'[p] = "executing" => status[p] = "executing"
    BY <1>5 DEF CompletePlan, FailRun, FailPlanOfJob, SetStatus
  <2>2. status'[p] = "executing" =>
          \A q \in Procs : Runs(q, p) => Runs(q, p)' \/ p \in failLost'
    BY <1>5 DEF CompletePlan, FailRun, FailPlanOfJob, SetStatus, Runs, HoldingPCs
  <2> QED
    BY <2>1, <2>2, OwnedFrame
<1>6. CASE SettleJob(w)
  <2>1. \A q \in Procs : Runs(q, p) => Runs(q, p)'
    BY <1>6 DEF SettleJob, Runs, HoldingPCs
  <2> QED
    BY <1>6, <2>1, OwnedFrame DEF SettleJob
<1>7. CASE MissingHandler(w)
  <2>1. \A q \in Procs : Runs(q, p) => Runs(q, p)'
    BY <1>7 DEF MissingHandler, Runs, HoldingPCs
  <2> QED
    BY <1>7, <2>1, OwnedFrame DEF MissingHandler
<1> QED
  BY <1>1, <1>2, <1>3, <1>4, <1>5, <1>6, <1>7 DEF Work, Serve

LEMMA RecoverOwned ==
  ASSUME TypeOK, ExecutingIsOwned, NEW b \in Procs, Boot(b) \/ Recover(b),
         NEW p \in Plans
  PROVE  status'[p] = "executing" => Owned(p)'
<1> USE DEF TypeOK
<1>1. CASE Boot(b)
  BY <1>1, OwnedFrame DEF Boot, Runs
<1>2. CASE FindInterrupted(b)
  BY <1>2 DEF FindInterrupted, ExecutingIsOwned, Owned, Runs
<1>3. ASSUME NEW r \in Plans, RecoverPlan(b, r)
      PROVE  status'[p] = "executing" => Owned(p)'
  BY <1>3 DEF RecoverPlan, SetStatus, ExecutingIsOwned, Owned, Runs
<1>4. CASE RecoveryDone(b)
  BY <1>4 DEF RecoveryDone, ExecutingIsOwned, Owned, Runs
<1>5. CASE StartFails(b)
  BY <1>5, DieOwned DEF StartFails
<1> QED
  BY <1>1, <1>2, <1>3, <1>4, <1>5 DEF Recover

LEMMA NextOwned == TypeOK /\ ExecutingIsOwned /\ [Next]_vars => ExecutingIsOwned'
<1> SUFFICES ASSUME TypeOK, ExecutingIsOwned, [Next]_vars, NEW p \in Plans
             PROVE  status'[p] = "executing" => Owned(p)'
  BY DEF ExecutingIsOwned, Owned
<1>1. ASSUME /\ UNCHANGED <<owner, failLost, wk, up, todo>>
             /\ status'[p] = "executing" => status[p] = "executing"
      PROVE  status'[p] = "executing" => Owned(p)'
  BY <1>1, OwnedFrame DEF Runs
<1>2. CASE Command
  <2>1. UNCHANGED <<owner, failLost, wk, up, todo>>
    BY <1>2 DEF Command, CreatePlan, Check, Write
  <2>2. status'[p] = "executing" => status[p] = "executing"
    <3>1. ASSUME NEW c \in Cmds, Write(c)
          PROVE  status'[p] = "executing" => status[p] = "executing"
      <4>1. call[c].plan \in Plans /\ Target[call[c].op] # "executing"
        BY <3>1 DEF Write, TypeOK, Callers, Target, Ops
      <4> QED
        BY <3>1, <4>1 DEF Write, SetStatus, TypeOK
    <3> QED
      BY <1>2, <3>1 DEF Command, CreatePlan, Check, TypeOK
  <2> QED
    BY <1>1, <2>1, <2>2
<1>3. ASSUME NEW a \in Callers, Publish(a)
      PROVE  status'[p] = "executing" => Owned(p)'
  <2>1. CASE SaveEvent(a) \/ AddJob(a)
    BY <1>1, <2>1 DEF SaveEvent, AddJob
  <2>2. CASE PublishFails(a)
    BY <1>1, <2>2, DieOwned DEF PublishFails
  <2> QED
    BY <1>3, <2>1, <2>2 DEF Publish, SaveEventFails, AddJobFails
<1>4. ASSUME NEW q \in Procs, Crash(q) PROVE status'[p] = "executing" => Owned(p)'
  BY <1>4, DieOwned DEF Crash
<1>5. ASSUME NEW S \in SUBSET Plans, ArchiveOldPlans(S)
      PROVE  status'[p] = "executing" => Owned(p)'
  BY <1>1, <1>5 DEF ArchiveOldPlans
<1>6. CASE UNCHANGED vars
  BY <1>1, <1>6 DEF vars
<1> QED
  BY <1>2, <1>3, <1>4, <1>5, <1>6, RecoverOwned, WorkOwned DEF Next

\* No plan is left executing by a process that is up and has forgotten it,
\* unless the database refused the worker's last failPlan.
THEOREM ExecutingOwned == Spec => []ExecutingIsOwned
<1>1. Init => ExecutingIsOwned
  BY DEF Init, ExecutingIsOwned
<1> QED
  BY <1>1, InitType, NextType, NextOwned, PTL DEF Spec

(***************************************************************************)
(* QueuedHasJob is inductive with the type invariant.                      *)
(***************************************************************************)
ClaimingPCs == {"select", "update", "markFailed", "failPlan"}
InQueue(p) == \E j \in queue : j.plan = p
InWorker(q, p) == wk[q].job.plan = p /\ wk[q].pc \in ClaimingPCs
InCall(a, p) == call[a].plan = p /\ call[a].pc \in {"save", "enqueue"}
Pending(p) == \/ InQueue(p)
              \/ \E q \in Procs : InWorker(q, p)
              \/ \E a \in Callers : InCall(a, p)
              \/ p \in jobLost \cup failLost

LEMMA DiePending ==
  ASSUME TypeOK, NEW d \in Procs, Die(d), NEW p \in Plans, Pending(p)
  PROVE  Pending(p)'
<1>1. CASE InQueue(p)
  BY <1>1 DEF Die, InQueue, Pending
<1>2. ASSUME NEW q \in Procs, InWorker(q, p) PROVE Pending(p)'
  <2>1. CASE q # d
    BY <1>2, <2>1 DEF Die, InWorker, Pending, TypeOK
  <2>2. CASE q = d /\ wk[d].job.stalls = 1
    BY <1>2, <2>2 DEF Die, LosesJob, InWorker, Pending
  <2>3. CASE q = d /\ wk[d].job.stalls # 1
    <3>1. queue' = queue \cup {Stalled(wk[d].job)} /\ Stalled(wk[d].job).plan = p
      BY <1>2, <2>3 DEF Die, Stalled, InWorker, ClaimingPCs
    <3> QED
      BY <3>1 DEF InQueue, Pending
  <2> QED
    BY <2>1, <2>2, <2>3
<1>3. ASSUME NEW a \in Callers, InCall(a, p) PROVE Pending(p)'
  <2>1. CASE HomeOf(a) = d
    BY <1>3, <2>1 DEF Die, LosesJob, InCall, Pending
  <2>2. CASE HomeOf(a) # d
    BY <1>3, <2>2 DEF Die, InCall, Pending
  <2> QED
    BY <2>1, <2>2
<1>4. CASE p \in jobLost \cup failLost
  BY <1>4 DEF Die, Pending
<1> QED
  BY <1>1, <1>2, <1>3, <1>4 DEF Pending

\* The worker: a job leaves the queue with it, and leaves it with a status.
LEMMA WorkPending ==
  ASSUME TypeOK, NEW w \in Procs, Work(w), NEW p \in Plans,
         status[p] = "approved_queued" => Pending(p),
         status'[p] = "approved_queued"
  PROVE  Pending(p)'
<1> USE DEF TypeOK, Goto
<1>1. status[p] = "approved_queued"
  BY DEF Work, Serve, TakeJob, MissingHandler, SelectForUpdate, ClaimPlan, SetUpRun,
         EndRun, CompletePlan, FailRun, Acknowledge, MarkEventFailed, FailPlanOfJob,
         SettleJob, SetStatus
<1>2. call' = call /\ jobLost \subseteq jobLost'
  BY DEF Work, Serve, TakeJob, MissingHandler, SelectForUpdate, ClaimPlan, SetUpRun,
         EndRun, CompletePlan, FailRun, Acknowledge, MarkEventFailed, FailPlanOfJob,
         SettleJob
<1>3. ASSUME queue' = queue, failLost \subseteq failLost',
             \A q \in Procs : InWorker(q, p) => InWorker(q, p)' \/ p \in failLost'
      PROVE  Pending(p)'
  BY <1>1, <1>2, <1>3 DEF Pending, InQueue, InCall
<1>4. CASE TakeJob(w)
  <2>1. PICK j \in queue : /\ queue' = queue \ {j}
                           /\ wk' = [wk EXCEPT ![w] = [pc |-> "select", job |-> j]]
    BY <1>4 DEF TakeJob
  <2>2. \A q \in Procs : InWorker(q, p) => InWorker(q, p)'
    BY <1>4, <2>1 DEF TakeJob, NoWork, InWorker, ClaimingPCs
  <2>3. j.plan = p => InWorker(w, p)'
    BY <2>1 DEF InWorker, ClaimingPCs
  <2>4. call' = call /\ jobLost' = jobLost /\ failLost' = failLost
    BY <1>4 DEF TakeJob
  <2>5. InQueue(p) => InQueue(p)' \/ InWorker(w, p)'
    BY <2>1, <2>3 DEF InQueue
  <2>6. Pending(p)
    BY <1>1
  <2>7. \A a \in Callers : InCall(a, p) => InCall(a, p)'
    BY <2>4 DEF InCall
  <2> HIDE DEF TypeOK
  <2> QED
    BY <2>2, <2>4, <2>5, <2>6, <2>7 DEF Pending
<1>5. CASE SelectForUpdate(w)
  <2>1. \A q \in Procs : InWorker(q, p) => InWorker(q, p)'
    <3>1. PICK pc \in {"update", "markFailed"} : Goto(w, pc)
      BY <1>5 DEF SelectForUpdate
    <3>2. wk'[w] = [pc |-> pc, job |-> wk[w].job] /\ \A q \in Procs \ {w} : wk'[q] = wk[q]
      BY <3>1
    <3> QED
      BY <3>2 DEF InWorker, ClaimingPCs
  <2>2. queue' = queue /\ failLost' = failLost
    BY <1>5 DEF SelectForUpdate
  <2> QED
    BY <1>3, <2>1, <2>2
<1>6. CASE ClaimPlan(w)
  <2>1. PICK r \in Plans : r = wk[w].job.plan
    BY <1>6 DEF ClaimPlan, Job
  <2>2. CASE Goto(w, "markFailed") /\ failLost' = failLost
    <3>1. \A q \in Procs : InWorker(q, p) => InWorker(q, p)'
      BY <1>6, <2>2 DEF InWorker, ClaimingPCs
    <3> QED
      BY <1>3, <1>6, <2>2, <3>1 DEF ClaimPlan
  <2>3. CASE /\ status' = [status EXCEPT ![r] = "executing"]
             /\ failLost' = failLost \ {r} /\ Goto(w, "started")
    <3>1. p # r
      BY <2>3
    <3>2. \A q \in Procs : InWorker(q, p) => InWorker(q, p)'
      <4>1. wk[w].job.plan # p
        BY <2>1, <3>1
      <4>2. \A q \in Procs \ {w} : wk'[q] = wk[q]
        BY <2>3
      <4> QED
        BY <4>1, <4>2 DEF InWorker
    <3>3. queue' = queue /\ call' = call /\ jobLost' = jobLost
      BY <1>6 DEF ClaimPlan
    <3>4. p \in jobLost \cup failLost => p \in jobLost' \cup failLost'
      BY <2>3, <3>1, <3>3
    <3>5. Pending(p)
      BY <1>1
    <3>6. /\ InQueue(p) => InQueue(p)'
          /\ \A a \in Callers : InCall(a, p) => InCall(a, p)'
      BY <3>3 DEF InQueue, InCall
    <3> HIDE DEF TypeOK
    <3> QED
      BY <3>2, <3>4, <3>5, <3>6 DEF Pending
  <2> QED
    BY <1>6, <2>1, <2>2, <2>3 DEF ClaimPlan
<1>7. CASE \/ SetUpRun(w) \/ EndRun(w) \/ CompletePlan(w) \/ FailRun(w)
           \/ Acknowledge(w) \/ MarkEventFailed(w)
  <2>1. \A q \in Procs : InWorker(q, p) => InWorker(q, p)'
    BY <1>7 DEF SetUpRun, EndRun, CompletePlan, FailRun, Acknowledge,
                MarkEventFailed, InWorker, ClaimingPCs
  <2>2. queue' = queue /\ failLost' = failLost
    BY <1>7 DEF SetUpRun, EndRun, CompletePlan, FailRun, Acknowledge, MarkEventFailed
  <2> QED
    BY <1>3, <2>1, <2>2
<1>8. CASE FailPlanOfJob(w)
  <2>1. \A q \in Procs : InWorker(q, p) => InWorker(q, p)' \/ p \in failLost'
    BY <1>8 DEF FailPlanOfJob, SetStatus, InWorker
  <2> QED
    BY <1>3, <1>8, <2>1 DEF FailPlanOfJob
<1>9. CASE SettleJob(w)
  <2>1. \A q \in Procs : InWorker(q, p) => InWorker(q, p)'
    BY <1>9 DEF SettleJob, InWorker, ClaimingPCs
  <2> QED
    BY <1>3, <1>9, <2>1 DEF SettleJob
<1>10. CASE MissingHandler(w)
  <2>1. PICK j \in queue : /\ queue' = queue \ {j}
                           /\ jobLost' = jobLost \cup {j.plan}
    BY <1>10 DEF MissingHandler
  <2>2. wk' = wk /\ failLost' = failLost
    BY <1>10 DEF MissingHandler
  <2> QED
    BY <1>1, <1>2, <2>1, <2>2 DEF Pending, InQueue, InCall, InWorker
<1> QED
  BY <1>4, <1>5, <1>6, <1>7, <1>8, <1>9, <1>10 DEF Work, Serve

\* A publication that gets no further is recorded; one that does adds the job.
LEMMA PublishPending ==
  ASSUME TypeOK, NEW b \in Callers, Publish(b), NEW p \in Plans, Pending(p)
  PROVE  Pending(p)'
<1>1. CASE SaveEvent(b)
  <2>1. \A a \in Callers : InCall(a, p) => InCall(a, p)'
    BY <1>1 DEF SaveEvent, InCall, TypeOK
  <2> QED
    BY <1>1, <2>1 DEF SaveEvent, Pending, InQueue, InWorker
<1>2. CASE AddJob(b)
  <2>1. PICK e : /\ e = [id |-> call[b].job, plan |-> call[b].plan, stalls |-> 0]
                 /\ queue' = queue \cup {e}
    BY <1>2 DEF AddJob
  <2>2. CASE call[b].plan = p
    <3>1. e \in queue' /\ e.plan = p
      BY <2>1, <2>2
    <3> QED
      BY <3>1 DEF Pending, InQueue
  <2>3. CASE call[b].plan # p
    <3>1. \A a \in Callers : InCall(a, p) => InCall(a, p)'
      BY <1>2, <2>3 DEF AddJob, InCall, TypeOK
    <3> QED
      BY <1>2, <2>1, <2>3, <3>1 DEF AddJob, Pending, InQueue, InWorker
  <2> QED
    BY <2>2, <2>3
<1>3. ASSUME b \in Cmds, call' = [call EXCEPT ![b] = NoCall],
             jobLost' = jobLost \cup {call[b].plan},
             UNCHANGED <<queue, wk, failLost>>
      PROVE  Pending(p)'
  <2>1. \A a \in Callers : InCall(a, p) => InCall(a, p)' \/ p \in jobLost'
    BY <1>3 DEF InCall, TypeOK
  <2> QED
    BY <1>3, <2>1 DEF Pending, InQueue, InWorker
<1> QED
  BY <1>1, <1>2, <1>3, DiePending
  DEF Publish, SaveEventFails, AddJobFails, PublishFails

LEMMA NextPending == TypeOK /\ QueuedHasJob /\ [Next]_vars => QueuedHasJob'
<1> SUFFICES ASSUME TypeOK, [Next]_vars, NEW p \in Plans,
                    status[p] = "approved_queued" => Pending(p),
                    status'[p] = "approved_queued"
             PROVE  Pending(p)'
  BY DEF QueuedHasJob, Pending, InQueue, InWorker, InCall, ClaimingPCs
<1>1. ASSUME UNCHANGED <<status, queue, wk, call, jobLost, failLost>>
      PROVE  Pending(p)'
  BY <1>1 DEF Pending, InQueue, InWorker, InCall
<1>2. CASE Command
  <2>1. CASE \E r \in Plans : CreatePlan(r)
    BY <2>1 DEF CreatePlan, TypeOK, Pending, InQueue, InWorker, InCall
  <2>2. ASSUME NEW c \in Cmds, NEW op \in Ops, NEW r \in Plans, Check(c, op, r)
        PROVE  Pending(p)'
    <3>1. \A a \in Callers : InCall(a, p) => InCall(a, p)'
      BY <2>2 DEF Check, NoCall, InCall, TypeOK
    <3> QED
      BY <2>2, <3>1 DEF Check, Pending, InQueue, InWorker
  <2>3. ASSUME NEW c \in Cmds, Write(c) PROVE Pending(p)'
    <3>1. c \in Callers /\ call[c].pc = "write"
      BY <2>3 DEF Write, Callers
    <3>2. UNCHANGED <<queue, wk, jobLost, failLost>>
      BY <2>3 DEF Write
    <3>3. \A a \in Callers : InCall(a, p) => InCall(a, p)'
      BY <2>3, <3>1 DEF Write, InCall, TypeOK
    <3>4. status[p] = "approved_queued" \/ InCall(c, p)'
      <4>1. CASE status'[p] = status[p]
        BY <4>1
      <4>2. CASE status'[p] # status[p]
        <5>1. call[c].plan = p /\ Target[call[c].op] = "approved_queued"
          BY <2>3, <4>2 DEF Write, SetStatus, TypeOK
        <5> QED
          BY <2>3, <3>1, <4>2, <5>1 DEF Write, InCall, TypeOK
      <4> QED
        BY <4>1, <4>2
    <3> QED
      BY <3>1, <3>2, <3>3, <3>4 DEF Pending, InQueue, InWorker
  <2> QED
    BY <1>2, <2>1, <2>2, <2>3 DEF Command
<1>3. ASSUME NEW a \in Callers, Publish(a) PROVE Pending(p)'
  <2>1. status' = status
    BY <1>3 DEF Publish, SaveEvent, AddJob, SaveEventFails, AddJobFails,
                PublishFails, Die
  <2> QED
    BY <1>3, <2>1, PublishPending
<1>4. ASSUME NEW q \in Procs, Crash(q) \/ Boot(q) \/ Recover(q) PROVE Pending(p)'
  <2>1. CASE Crash(q) \/ StartFails(q)
    BY <2>1, DiePending DEF Crash, StartFails, Die
  <2>2. CASE Boot(q) \/ FindInterrupted(q) \/ RecoveryDone(q)
    BY <1>1, <2>2 DEF Boot, FindInterrupted, RecoveryDone
  <2>3. ASSUME NEW r \in Plans, RecoverPlan(q, r) PROVE Pending(p)'
    <3>1. /\ q \in Callers
          /\ status'[p] = status[p] \/ p = r
          /\ UNCHANGED <<queue, wk, jobLost, failLost>>
      BY <2>3 DEF RecoverPlan, SetStatus, Callers, TypeOK
    <3>2. \A a \in Callers : InCall(a, p) => InCall(a, p)'
      BY <2>3 DEF RecoverPlan, NoCall, InCall, TypeOK
    <3>3. InCall(q, r)'
      BY <2>3, <3>1 DEF RecoverPlan, InCall, TypeOK
    <3> QED
      BY <3>1, <3>2, <3>3 DEF Pending, InQueue, InWorker
  <2> QED
    BY <1>4, <2>1, <2>2, <2>3 DEF Recover
<1>5. ASSUME NEW S \in SUBSET Plans, ArchiveOldPlans(S) PROVE Pending(p)'
  <2>1. status'[p] = status[p]
    BY <1>5 DEF ArchiveOldPlans
  <2> QED
    BY <1>5, <2>1 DEF ArchiveOldPlans, Pending, InQueue, InWorker, InCall
<1>6. CASE UNCHANGED vars
  BY <1>1, <1>6 DEF vars
<1> QED
  BY <1>2, <1>3, <1>4, <1>5, <1>6, WorkPending DEF Next

\* A queued plan always has something that will still move it, and the only
\* ways to lose it are a crash or a failed call between two named steps.
THEOREM QueuedKeepsJob == Spec => []QueuedHasJob
<1>1. Init => QueuedHasJob
  BY DEF Init, QueuedHasJob
<1> QED
  BY <1>1, InitType, NextType, NextPending, PTL DEF Spec
=============================================================================
