------------------------- MODULE RunWorkspace_proofs -------------------------
(***************************************************************************)
(* Proofs about RunWorkspace, for any plans, projects, workers, handlers     *)
(* and bounds.                                                              *)
(***************************************************************************)
EXTENDS RunWorkspace, TLAPS

(***************************************************************************)
(* The inductive invariant, in parts that the steps disturb separately.    *)
(***************************************************************************)
RunRecord == [pc : RunPCs, plan : Plans \cup {NoPlan}, cloned : BOOLEAN,
              held : Ids \cup {0}, found : Ids \cup {0}]
StopRecord == [pc : {"idle", "find", "stop", "findAgain", "remove"},
               project : Projects \cup {NoPlan}, found : Ids \cup {0}]

\* A worker that is idle has nothing, one that has not cloned yet has no clone,
\* and the steps that name a container have one to name.
Consistent(r) ==
  /\ r \in RunRecord
  /\ r.pc # "idle" => r.plan \in Plans
  /\ r.pc = "idle" => r = NoRun
  /\ r.pc \in {"clone", "cloning"} => ~r.cloned
  /\ r.pc \in {"reuse", "start", "inspect", "stop"} => r.found # 0
  /\ r.pc = "find" => r.held # 0

ConsistentStop(s) ==
  /\ s \in StopRecord
  /\ s.pc # "idle" => s.project \in Projects
  /\ s.pc \in {"stop", "remove"} => s.found # 0

RunType == /\ run \in [Workers -> RunRecord]
           /\ \A w \in Workers : Consistent(run[w])
StopperType == /\ stopper \in [Stoppers -> StopRecord]
               /\ \A h \in Stoppers : ConsistentStop(stopper[h])
CloneType == /\ clone \in [Plans -> {"absent", "partial", "whole"}]
             /\ leftover \subseteq Plans
ContainerType ==
  /\ container \in [Projects -> [id : Ids \cup {0},
                                 state : {"none", "created", "running", "exited"}]]
  /\ leaked \subseteq Ids
SpentType == spent \in [runs : Nat, stops : Nat, deaths : Nat, refusals : Nat, containers : Nat]

WorkspaceTypeInv == RunType /\ StopperType /\ CloneType /\ ContainerType /\ SpentType

LEMMA WorkspaceTypeParts == WorkspaceTypeInv => WorkspaceTypeOK
BY DEF WorkspaceTypeInv, RunType, StopperType, CloneType, ContainerType, SpentType, WorkspaceTypeOK,
       RunRecord, StopRecord, Consistent, ConsistentStop

(***************************************************************************)
(* Steps of one run.                                                       *)
(***************************************************************************)

\* The run of one worker changes.
LEMMA RunChanges ==
  ASSUME RunType, NEW w \in Workers, NEW r, Consistent(r), run' = [run EXCEPT ![w] = r]
  PROVE  RunType'
<1>1. r \in RunRecord
  BY DEF Consistent
<1>2. run' \in [Workers -> RunRecord]
  BY <1>1 DEF RunType
<1>3. ASSUME NEW v \in Workers PROVE Consistent(run'[v])
  <2>1. CASE v = w
    BY <2>1 DEF RunType
  <2>2. CASE v # w
    BY <2>2 DEF RunType
  <2> QED
    BY <2>1, <2>2
<1> QED
  BY <1>2, <1>3 DEF RunType, Consistent

LEMMA IdleRun == Consistent(NoRun)
BY DEF Consistent, NoRun, RunRecord, RunPCs, Ids

LEMMA GiveUpType ==
  ASSUME RunType, NEW w \in Workers, GiveUp(w)
  PROVE  RunType'
BY IdleRun, RunChanges DEF GiveUp

\* The run goes on to an await at which nothing in particular is known.
LEMMA GoOnType ==
  ASSUME RunType, NEW w \in Workers, run[w].pc # "idle", NEW pc \in RunPCs, GoOn(w, pc),
         pc \in {"cloning", "reuse", "start", "inspect", "stop", "find"} =>
           Consistent([run[w] EXCEPT !.pc = pc]),
         pc \notin {"idle", "clone"}
  PROVE  RunType'
<1>0. run[w] \in RunRecord /\ run[w].plan \in Plans
  BY DEF RunType, Consistent
<1>1. Consistent([run[w] EXCEPT !.pc = pc])
  BY <1>0 DEF Consistent, RunRecord, RunPCs
<1>2. run' = [run EXCEPT ![w] = [run[w] EXCEPT !.pc = pc]]
  BY DEF GoOn
<1> QED
  BY <1>1, <1>2, RunChanges

LEMMA StepRunType ==
  ASSUME WorkspaceTypeInv, WorkspaceNext
  PROVE  RunType'
<1>0. RunType
  BY DEF WorkspaceTypeInv
<1>a. ASSUME NEW w \in Workers PROVE run[w] \in RunRecord /\ Consistent(run[w])
  BY <1>0 DEF RunType
<1>1. ASSUME NEW w \in Workers, NEW p \in Plans, StartRun(w, p) PROVE RunType'
  <2>1. PICK snapshot \in BOOLEAN : run' = [run EXCEPT ![w] =
          [NoRun EXCEPT !.pc = IF snapshot THEN "clone" ELSE "list", !.plan = p]]
    BY <1>1 DEF StartRun
  <2>2. Consistent([NoRun EXCEPT !.pc = IF snapshot THEN "clone" ELSE "list", !.plan = p])
    BY DEF Consistent, NoRun, RunRecord, RunPCs, Ids
  <2> QED
    BY <1>0, <2>1, <2>2, RunChanges
<1>2. ASSUME NEW w \in Workers, BeginClone(w) PROVE RunType'
  <2>1. run[w].pc = "clone"
    BY <1>2 DEF BeginClone
  <2>2. Consistent([run[w] EXCEPT !.pc = "cloning"])
    BY <1>a, <2>1 DEF Consistent, RunRecord, RunPCs
  <2>3. GoOn(w, "cloning") \/ GiveUp(w)
    BY <1>2 DEF BeginClone
  <2>4. "cloning" \in RunPCs
    BY DEF RunPCs
  <2> QED
    BY <1>0, <2>1, <2>2, <2>3, <2>4, GoOnType, GiveUpType
<1>3. ASSUME NEW w \in Workers, EndClone(w) PROVE RunType'
  <2>1. run[w].pc = "cloning"
    BY <1>3 DEF EndClone
  <2>2. Consistent([run[w] EXCEPT !.pc = "list", !.cloned = TRUE])
    BY <1>a, <2>1 DEF Consistent, RunRecord, RunPCs
  <2>3. \/ run' = [run EXCEPT ![w] = [run[w] EXCEPT !.pc = "list", !.cloned = TRUE]]
        \/ GiveUp(w)
    BY <1>3 DEF EndClone
  <2> QED
    BY <1>0, <2>2, <2>3, GiveUpType, RunChanges
<1>4. ASSUME NEW w \in Workers, ListExisting(w) PROVE RunType'
  <2>1. PICK id \in Ids \cup {0} : run' = [run EXCEPT ![w] =
          [run[w] EXCEPT !.pc = IF id = 0 THEN "create" ELSE "reuse", !.found = id]]
    BY <1>4 DEF ListExisting
  <2>2. run[w].pc = "list"
    BY <1>4 DEF ListExisting
  <2>3. Consistent([run[w] EXCEPT !.pc = IF id = 0 THEN "create" ELSE "reuse", !.found = id])
    BY <1>a, <2>2 DEF Consistent, RunRecord, RunPCs
  <2> QED
    BY <1>0, <2>1, <2>3, RunChanges
<1>5. ASSUME NEW w \in Workers, Reuse(w) \/ Inspect(w) PROVE RunType'
  <2>1. run[w].pc \in {"reuse", "inspect"}
    BY <1>5 DEF Reuse, Inspect
  <2>2. Consistent([run[w] EXCEPT !.pc = "prepare", !.held = run[w].found])
    BY <1>a, <2>1 DEF Consistent, RunRecord, RunPCs
  <2>3. \/ run' = [run EXCEPT ![w] = [run[w] EXCEPT !.pc = "prepare", !.held = run[w].found]]
        \/ GoOn(w, "prepare")
    BY <1>5 DEF Reuse, Inspect
  <2>4. "prepare" \in RunPCs
    BY DEF RunPCs
  <2> QED
    BY <1>0, <2>1, <2>2, <2>3, <2>4, GoOnType, RunChanges
<1>6. ASSUME NEW w \in Workers, Create(w) PROVE RunType'
  <2>1. run[w].pc = "create" /\ "prepare" \in RunPCs
    BY <1>6 DEF Create, RunPCs
  <2> DEFINE id == spent.containers + 1
  <2>2. CASE run' = [run EXCEPT ![w] = [run[w] EXCEPT !.pc = "start", !.found = id]] /\ id \in Ids
    <3>1. id # 0
      BY <2>2 DEF Ids
    <3>2. Consistent([run[w] EXCEPT !.pc = "start", !.found = id])
      BY <1>a, <2>1, <2>2, <3>1 DEF Consistent, RunRecord, RunPCs
    <3> QED
      BY <1>0, <2>2, <3>2, RunChanges
  <2>3. CASE GoOn(w, "prepare")
    BY <1>0, <2>1, <2>3, GoOnType
  <2> QED
    BY <1>6, <2>2, <2>3 DEF Create
<1>7. ASSUME NEW w \in Workers, Start(w) PROVE RunType'
  <2>1. run[w].pc = "start" /\ "prepare" \in RunPCs /\ "inspect" \in RunPCs
    BY <1>7 DEF Start, RunPCs
  <2>2. Consistent([run[w] EXCEPT !.pc = "inspect"])
    BY <1>a, <2>1 DEF Consistent, RunRecord, RunPCs
  <2>3. GoOn(w, "inspect") \/ GoOn(w, "prepare")
    BY <1>7 DEF Start
  <2> QED
    BY <1>0, <2>1, <2>2, <2>3, GoOnType
<1>8. ASSUME NEW w \in Workers, Prepare(w) PROVE RunType'
  <2>1. run[w].pc = "prepare" /\ "running" \in RunPCs
    BY <1>8 DEF Prepare, RunPCs
  <2>2. GoOn(w, "running") \/ GiveUp(w)
    BY <1>8 DEF Prepare
  <2> QED
    BY <1>0, <2>1, <2>2, GoOnType, GiveUpType
<1>9. ASSUME NEW w \in Workers, EndRun(w) PROVE RunType'
  <2>1. run[w].pc = "running" /\ "find" \in RunPCs /\ "remove" \in RunPCs
    BY <1>9 DEF EndRun, RunPCs
  <2>2. run[w].held # 0 => Consistent([run[w] EXCEPT !.pc = "find"])
    BY <1>a, <2>1 DEF Consistent, RunRecord, RunPCs
  <2>3. \/ run[w].held # 0 /\ GoOn(w, "find")
        \/ GoOn(w, "remove")
    BY <1>9 DEF EndRun
  <2> QED
    BY <1>0, <2>1, <2>2, <2>3, GoOnType
<1>10. ASSUME NEW w \in Workers, FindToStop(w) PROVE RunType'
  <2>1. PICK id \in Ids \cup {0} : run' = [run EXCEPT ![w] =
          [run[w] EXCEPT !.pc = IF id = 0 THEN "remove" ELSE "stop", !.found = id]]
    BY <1>10 DEF FindToStop
  <2>2. run[w].pc = "find"
    BY <1>10 DEF FindToStop
  <2>3. Consistent([run[w] EXCEPT !.pc = IF id = 0 THEN "remove" ELSE "stop", !.found = id])
    BY <1>a, <2>2 DEF Consistent, RunRecord, RunPCs
  <2> QED
    BY <1>0, <2>1, <2>3, RunChanges
<1>11. ASSUME NEW w \in Workers, StopFound(w) PROVE RunType'
  BY <1>0, <1>11, GoOnType DEF StopFound, RunPCs
<1>12. ASSUME NEW w \in Workers, RemoveClone(w) \/ WorkerDies(w) PROVE RunType'
  BY <1>0, <1>12, GiveUpType DEF RemoveClone, WorkerDies
<1>13. CASE UNCHANGED run
  BY <1>0, <1>13 DEF RunType
<1>14. ASSUME NEW h \in Stoppers, StopCommand(h) \/ \E j \in Projects : BeginStop(h, j)
       PROVE  RunType'
  BY <1>13, <1>14 DEF StopCommand, Find, StopByCommand, RemoveByCommand, BeginStop
<1> QED
  BY <1>1, <1>2, <1>3, <1>4, <1>5, <1>6, <1>7, <1>8, <1>9, <1>10, <1>11, <1>12, <1>14
     DEF WorkspaceNext, SetUp, CleanUp

(***************************************************************************)
(* Steps of /stop.                                                         *)
(***************************************************************************)
LEMMA StopperChanges ==
  ASSUME StopperType, NEW h \in Stoppers, NEW s, ConsistentStop(s),
         stopper' = [stopper EXCEPT ![h] = s]
  PROVE  StopperType'
<1>1. s \in StopRecord
  BY DEF ConsistentStop
<1>2. stopper' \in [Stoppers -> StopRecord]
  BY <1>1 DEF StopperType
<1>3. ASSUME NEW g \in Stoppers PROVE ConsistentStop(stopper'[g])
  <2>1. CASE g = h
    BY <2>1 DEF StopperType
  <2>2. CASE g # h
    BY <2>2 DEF StopperType
  <2> QED
    BY <2>1, <2>2
<1> QED
  BY <1>2, <1>3 DEF StopperType, ConsistentStop

LEMMA IdleStop == ConsistentStop(NoStop)
BY DEF ConsistentStop, NoStop, StopRecord, Ids

LEMMA StepStopperType ==
  ASSUME WorkspaceTypeInv, WorkspaceNext
  PROVE  StopperType'
<1>0. StopperType
  BY DEF WorkspaceTypeInv
<1>a. ASSUME NEW h \in Stoppers PROVE stopper[h] \in StopRecord /\ ConsistentStop(stopper[h])
  BY <1>0 DEF StopperType
<1>1. ASSUME NEW h \in Stoppers, NEW j \in Projects, BeginStop(h, j) PROVE StopperType'
  <2>1. ConsistentStop([pc |-> "find", project |-> j, found |-> 0])
    BY DEF ConsistentStop, StopRecord
  <2> QED
    BY <1>0, <1>1, <2>1, StopperChanges DEF BeginStop
<1>2. ASSUME NEW h \in Stoppers, Find(h) PROVE StopperType'
  <2>1. stopper[h].pc \in {"find", "findAgain"}
    BY <1>2 DEF Find
  <2>2. PICK id \in Ids \cup {0} :
          stopper' =
            IF id # 0
            THEN [stopper EXCEPT ![h] = [stopper[h] EXCEPT
                   !.pc = IF stopper[h].pc = "find" THEN "stop" ELSE "remove", !.found = id]]
            ELSE IF stopper[h].pc = "find"
                 THEN [stopper EXCEPT ![h] = [stopper[h] EXCEPT !.pc = "findAgain"]]
            ELSE [stopper EXCEPT ![h] = NoStop]
    BY <1>2 DEF Find
  <2>3. id # 0 => ConsistentStop([stopper[h] EXCEPT
                   !.pc = IF stopper[h].pc = "find" THEN "stop" ELSE "remove", !.found = id])
    BY <1>a, <2>1 DEF ConsistentStop, StopRecord
  <2>4. ConsistentStop([stopper[h] EXCEPT !.pc = "findAgain"])
    BY <1>a, <2>1 DEF ConsistentStop, StopRecord
  <2> QED
    BY <1>0, <2>2, <2>3, <2>4, IdleStop, StopperChanges
<1>3. ASSUME NEW h \in Stoppers, StopByCommand(h) PROVE StopperType'
  <2>1. stopper[h].pc = "stop"
    BY <1>3 DEF StopByCommand
  <2>2. ConsistentStop([stopper[h] EXCEPT !.pc = "findAgain"])
    BY <1>a, <2>1 DEF ConsistentStop, StopRecord
  <2>3. \/ stopper' = [stopper EXCEPT ![h] = [stopper[h] EXCEPT !.pc = "findAgain"]]
        \/ stopper' = [stopper EXCEPT ![h] = NoStop]
    BY <1>3 DEF StopByCommand
  <2> QED
    BY <1>0, <2>2, <2>3, IdleStop, StopperChanges
<1>4. ASSUME NEW h \in Stoppers, RemoveByCommand(h) PROVE StopperType'
  BY <1>0, <1>4, IdleStop, StopperChanges DEF RemoveByCommand
<1>5. CASE UNCHANGED stopper
  BY <1>0, <1>5 DEF StopperType
<1>6. ASSUME NEW w \in Workers, \/ \E p \in Plans : StartRun(w, p)
                                \/ SetUp(w) \/ CleanUp(w) \/ WorkerDies(w)
      PROVE  StopperType'
  BY <1>5, <1>6
     DEF SetUp, CleanUp, WorkerDies, StartRun, BeginClone, EndClone, ListExisting, Reuse, Create,
         Start, Inspect, Prepare, EndRun, FindToStop, StopFound, RemoveClone
<1> QED
  BY <1>1, <1>2, <1>3, <1>4, <1>6 DEF WorkspaceNext, StopCommand

(***************************************************************************)
(* What is on the host.                                                    *)
(***************************************************************************)
LEMMA StepSpentType ==
  ASSUME WorkspaceTypeInv, WorkspaceNext
  PROVE  SpentType'
<1>0. SpentType
  BY DEF WorkspaceTypeInv
<1>1. CASE Granted
  BY <1>0, <1>1 DEF SpentType, Granted
<1>2. CASE Refused
  BY <1>0, <1>2 DEF SpentType, Refused
<1>3. ASSUME NEW w \in Workers, SetUp(w) PROVE SpentType'
  <2>1. CASE Create(w)
    BY <1>0, <1>1, <1>2, <2>1 DEF Create, SpentType
  <2>2. CASE BeginClone(w) \/ EndClone(w) \/ Reuse(w) \/ Start(w) \/ Inspect(w) \/ Prepare(w)
    BY <1>1, <1>2, <2>2 DEF BeginClone, EndClone, Reuse, Start, Inspect, Prepare
  <2>3. CASE ListExisting(w)
    BY <1>1, <1>2, <2>3 DEF ListExisting, Found
  <2> QED
    BY <1>3, <2>1, <2>2, <2>3 DEF SetUp
<1>4. ASSUME NEW w \in Workers, CleanUp(w) PROVE SpentType'
  BY <1>0, <1>1, <1>2, <1>4
     DEF CleanUp, EndRun, FindToStop, Found, StopFound, RemoveClone, SpentType
<1>5. ASSUME NEW h \in Stoppers, StopCommand(h) PROVE SpentType'
  BY <1>1, <1>2, <1>5 DEF StopCommand, Find, Found, StopByCommand, RemoveByCommand
<1>6. ASSUME NEW w \in Workers, NEW p \in Plans, StartRun(w, p) PROVE SpentType'
  BY <1>0, <1>6 DEF StartRun, SpentType
<1>7. ASSUME NEW h \in Stoppers, NEW j \in Projects, BeginStop(h, j) PROVE SpentType'
  BY <1>0, <1>7 DEF BeginStop, SpentType
<1>8. ASSUME NEW w \in Workers, WorkerDies(w) PROVE SpentType'
  BY <1>0, <1>8 DEF WorkerDies, SpentType
<1> QED
  BY <1>3, <1>4, <1>5, <1>6, <1>7, <1>8 DEF WorkspaceNext

\* The plan and the project of a worker that is not idle.
LEMMA BusyClone ==
  ASSUME WorkspaceTypeInv, NEW w \in Workers, run[w].pc # "idle"
  PROVE  /\ run[w].plan \in Plans /\ JobOf(w) \in Projects
         /\ run[w].held \in Ids \cup {0} /\ run[w].found \in Ids \cup {0}
         /\ run[w].cloned \in BOOLEAN
<1>1. Consistent(run[w])
  BY DEF WorkspaceTypeInv, RunType
<1> QED
  BY <1>1, WorkspaceAssumption DEF Consistent, RunRecord, JobOf

LEMMA StepCloneType ==
  ASSUME WorkspaceTypeInv, WorkspaceNext
  PROVE  CloneType'
<1>0. CloneType
  BY DEF WorkspaceTypeInv
<1>1. ASSUME NEW w \in Workers, BeginClone(w) PROVE CloneType'
  BY <1>0, <1>1, BusyClone DEF BeginClone, CloneType
<1>2. ASSUME NEW w \in Workers, EndClone(w) PROVE CloneType'
  BY <1>0, <1>2, BusyClone DEF EndClone, CloneType
<1>3. ASSUME NEW w \in Workers, Prepare(w) PROVE CloneType'
  BY <1>0, <1>3, BusyClone DEF Prepare, CloneType
<1>4. ASSUME NEW w \in Workers, RemoveClone(w) PROVE CloneType'
  BY <1>0, <1>4, BusyClone DEF RemoveClone, CloneType
<1>5. ASSUME NEW w \in Workers, WorkerDies(w) PROVE CloneType'
  <2>1. run[w].plan \in Plans \/ (run[w].cloned = FALSE /\ run[w].pc = "idle")
    <3>1. Consistent(run[w])
      BY DEF WorkspaceTypeInv, RunType
    <3> QED
      BY <3>1 DEF Consistent, NoRun
  <2> QED
    BY <1>0, <1>5, <2>1 DEF WorkerDies, CloneType
<1>6. CASE UNCHANGED <<clone, leftover>>
  BY <1>0, <1>6 DEF CloneType
<1>7. ASSUME NEW w \in Workers, \/ \E p \in Plans : StartRun(w, p)
                                \/ ListExisting(w) \/ Reuse(w) \/ Create(w) \/ Start(w)
                                \/ Inspect(w) \/ EndRun(w) \/ FindToStop(w) \/ StopFound(w)
      PROVE  CloneType'
  BY <1>6, <1>7 DEF StartRun, ListExisting, Reuse, Create, Start, Inspect, EndRun, FindToStop,
                    StopFound
<1>8. ASSUME NEW h \in Stoppers, StopCommand(h) \/ \E j \in Projects : BeginStop(h, j)
      PROVE  CloneType'
  BY <1>6, <1>8 DEF StopCommand, Find, StopByCommand, RemoveByCommand, BeginStop
<1> QED
  BY <1>1, <1>2, <1>3, <1>4, <1>5, <1>7, <1>8 DEF WorkspaceNext, SetUp, CleanUp

LEMMA StepContainerType ==
  ASSUME WorkspaceTypeInv, WorkspaceNext
  PROVE  ContainerType'
<1>0. ContainerType
  BY DEF WorkspaceTypeInv
<1> DEFINE Box == [id : Ids \cup {0}, state : {"none", "created", "running", "exited"}]
<1>a. ASSUME NEW j \in Projects, NEW b \in Box, container' = [container EXCEPT ![j] = b],
             leaked' \subseteq Ids
      PROVE  ContainerType'
  BY <1>0, <1>a DEF ContainerType
<1>b. ASSUME NEW j \in Projects, NEW state \in {"created", "running", "exited"},
             container' = [container EXCEPT ![j].state = state], leaked' \subseteq Ids
      PROVE  ContainerType'
  <2>1. container[j] \in Box
    BY <1>0 DEF ContainerType
  <2>2. [container[j] EXCEPT !.state = state] \in Box
    BY <2>1
  <2>3. container' = [container EXCEPT ![j] = [container[j] EXCEPT !.state = state]]
    BY <1>b
  <2> QED
    BY <1>a, <1>b, <2>2, <2>3
<1>c. CASE container' = container /\ leaked' \subseteq Ids
  BY <1>0, <1>c DEF ContainerType
<1>d. leaked \subseteq Ids
  BY <1>0 DEF ContainerType
<1>1. ASSUME NEW w \in Workers, Create(w) PROVE ContainerType'
  <2>1. run[w].pc # "idle" /\ UNCHANGED leaked
    BY <1>1 DEF Create
  <2>2. JobOf(w) \in Projects
    BY <2>1, BusyClone
  <2> DEFINE id == spent.containers + 1
  <2>3. CASE id \in Ids /\ container' = [container EXCEPT ![JobOf(w)] = [id |-> id, state |-> "created"]]
    <3>1. [id |-> id, state |-> "created"] \in Box
      BY <2>3
    <3> QED
      BY <1>a, <1>d, <2>1, <2>2, <2>3, <3>1
  <2> QED
    BY <1>1, <1>c, <1>d, <2>1, <2>3 DEF Create
<1>2. ASSUME NEW w \in Workers, Start(w) PROVE ContainerType'
  <2>1. run[w].pc # "idle" /\ UNCHANGED leaked
    BY <1>2 DEF Start
  <2>2. JobOf(w) \in Projects
    BY <2>1, BusyClone
  <2> QED
    BY <1>2, <1>b, <1>c, <1>d, <2>1, <2>2 DEF Start
<1>3. ASSUME NEW w \in Workers, Inspect(w) \/ Prepare(w) \/ FindToStop(w) PROVE ContainerType'
  <2>1. run[w].pc # "idle"
    BY <1>3 DEF Inspect, Prepare, FindToStop
  <2>2. /\ run[w].held \in Ids \cup {0} /\ run[w].found \in Ids \cup {0}
        /\ run[w].pc = "inspect" => run[w].found # 0
        /\ run[w].pc = "find" => run[w].held # 0
    BY <2>1, BusyClone DEF WorkspaceTypeInv, RunType, Consistent
  <2> QED
    BY <1>3, <1>c, <1>d, <2>2 DEF Inspect, Prepare, FindToStop
<1>4. ASSUME NEW w \in Workers, StopFound(w) PROVE ContainerType'
  <2>1. run[w].pc = "stop"
    BY <1>4 DEF StopFound
  <2>2. JobOf(w) \in Projects /\ run[w].found \in Ids
    BY <2>1, BusyClone DEF WorkspaceTypeInv, RunType, Consistent
  <2> QED
    BY <1>4, <1>b, <1>c, <1>d, <2>2 DEF StopFound, Stop
<1>5. ASSUME NEW w \in Workers, WorkerDies(w) PROVE ContainerType'
  <2>1. run[w].held \in Ids \cup {0} /\ run[w].found \in Ids \cup {0}
    BY DEF WorkspaceTypeInv, RunType, Consistent, RunRecord
  <2> QED
    BY <1>5, <1>c, <1>d, <2>1 DEF WorkerDies
<1>6. ASSUME NEW h \in Stoppers, StopByCommand(h) PROVE ContainerType'
  <2>1. stopper[h].project \in Projects
    BY <1>6 DEF StopByCommand, WorkspaceTypeInv, StopperType, ConsistentStop
  <2> QED
    BY <1>6, <1>b, <1>c, <1>d, <2>1 DEF StopByCommand, Stop
<1>7. ASSUME NEW h \in Stoppers, RemoveByCommand(h) PROVE ContainerType'
  <2>1. stopper[h].project \in Projects
    BY <1>7 DEF RemoveByCommand, WorkspaceTypeInv, StopperType, ConsistentStop
  <2>2. NoContainer \in Box
    BY DEF NoContainer
  <2> QED
    BY <1>7, <1>a, <1>c, <1>d, <2>1, <2>2 DEF RemoveByCommand
<1>8. ASSUME NEW w \in Workers, \/ \E p \in Plans : StartRun(w, p)
                                \/ BeginClone(w) \/ EndClone(w) \/ ListExisting(w) \/ Reuse(w)
                                \/ EndRun(w) \/ RemoveClone(w)
      PROVE  ContainerType'
  BY <1>8, <1>c, <1>d DEF StartRun, BeginClone, EndClone, ListExisting, Reuse, EndRun, RemoveClone
<1>9. ASSUME NEW h \in Stoppers, Find(h) \/ \E j \in Projects : BeginStop(h, j)
      PROVE  ContainerType'
  BY <1>9, <1>c, <1>d DEF Find, BeginStop
<1> QED
  BY <1>1, <1>2, <1>3, <1>4, <1>5, <1>6, <1>7, <1>8, <1>9
     DEF WorkspaceNext, SetUp, CleanUp, StopCommand

LEMMA WorkspaceInitType == WorkspaceInit => WorkspaceTypeInv
BY IdleRun, IdleStop, WorkspaceAssumption
   DEF WorkspaceInit, WorkspaceTypeInv, RunType, StopperType, CloneType, ContainerType, SpentType,
       NoContainer, Consistent, ConsistentStop

LEMMA WorkspaceNextType == WorkspaceTypeInv /\ [WorkspaceNext]_workspaceVars => WorkspaceTypeInv'
<1>1. CASE UNCHANGED workspaceVars
  BY <1>1 DEF workspaceVars, WorkspaceTypeInv, RunType, StopperType, CloneType, ContainerType, SpentType
<1> QED
  BY <1>1, StepRunType, StepStopperType, StepCloneType, StepContainerType, StepSpentType
     DEF WorkspaceTypeInv

\* Type correctness: every variable keeps its type, and whoever is in the middle
\* of something has a plan or a project.
THEOREM WorkspaceTypeCorrect == WorkspaceSpec => []WorkspaceTypeOK
<1>1. WorkspaceSpec => []WorkspaceTypeInv
  BY WorkspaceInitType, WorkspaceNextType, PTL DEF WorkspaceSpec
<1> QED
  BY <1>1, WorkspaceTypeParts, PTL

(***************************************************************************)
(* The clone.                                                              *)
(***************************************************************************)
ClonesInv == CloneExclusive /\ CloneHasOwner

\* Steps that make, finish, give up and remove no clone.
LEMMA SameClones ==
  ASSUME WorkspaceTypeInv, ClonesInv, clone' = clone, leftover' = leftover,
         \A v \in Workers, p \in Plans :
           HasClone(v, p) => HasClone(v, p)' /\ run'[v].cloned = run[v].cloned,
         \A v \in Workers, p \in Plans : HasClone(v, p)' => HasClone(v, p)
  PROVE  ClonesInv'
BY DEF ClonesInv, CloneExclusive, CloneHasOwner

\* A run that goes on keeps its clone, if it has one.
LEMMA GoingOn ==
  ASSUME WorkspaceTypeInv, ClonesInv, NEW w \in Workers, NEW r,
         run' = [run EXCEPT ![w] = r], UNCHANGED <<clone, leftover>>,
         r.plan = run[w].plan, r.cloned = run[w].cloned,
         r.pc = "cloning" <=> run[w].pc = "cloning"
  PROVE  ClonesInv'
<1>1. /\ run'[w] = r
      /\ \A v \in Workers \ {w} : run'[v] = run[v]
  BY DEF WorkspaceTypeInv, RunType
<1> QED
  BY <1>1, SameClones DEF HasClone

\* A worker without a clone starts or gives up.
LEMMA WithoutClone ==
  ASSUME WorkspaceTypeInv, ClonesInv, NEW w \in Workers, NEW r,
         run' = [run EXCEPT ![w] = r], UNCHANGED <<clone, leftover>>,
         ~run[w].cloned, run[w].pc # "cloning", ~r.cloned, r.pc # "cloning"
  PROVE  ClonesInv'
<1>1. /\ run'[w] = r
      /\ \A v \in Workers \ {w} : run'[v] = run[v]
  BY DEF WorkspaceTypeInv, RunType
<1> QED
  BY <1>1, SameClones DEF HasClone

LEMMA CloneSteps ==
  ASSUME WorkspaceTypeInv, ClonesInv, NEW w \in Workers,
         BeginClone(w) \/ EndClone(w) \/ Prepare(w) \/ RemoveClone(w) \/ WorkerDies(w)
  PROVE  ClonesInv'
<1> DEFINE p == run[w].plan
<1>0. /\ run \in [Workers -> RunRecord] /\ Consistent(run[w])
      /\ clone \in [Plans -> {"absent", "partial", "whole"}]
  BY DEF WorkspaceTypeInv, RunType, CloneType
<1>1. run[w].pc # "idle" => p \in Plans
  BY <1>0 DEF Consistent
<1>2. ASSUME NEW r, run' = [run EXCEPT ![w] = r]
      PROVE  run'[w] = r /\ \A v \in Workers \ {w} : run'[v] = run[v]
  BY <1>0, <1>2
\* Whoever changes the directory of a plan has it to itself, before and after.
<1>3. ASSUME NEW v \in Workers \ {w}, NEW q \in Plans, q # p \/ HasClone(w, p) \/ clone[p] = "absent",
             HasClone(v, q)
      PROVE  q # p
  BY <1>1, <1>3 DEF ClonesInv, CloneExclusive, HasClone
<1>4. CASE BeginClone(w)
  <2>1. run[w].pc = "clone" /\ ~run[w].cloned /\ p \in Plans
    BY <1>0, <1>1, <1>4 DEF BeginClone, Consistent
  <2>2. CASE clone[p] = "absent" /\ clone' = [clone EXCEPT ![p] = "partial"] /\ GoOn(w, "cloning")
    <3>1. leftover' = leftover
      BY <1>4 DEF BeginClone
    <3>2. /\ run'[w].plan = p /\ run'[w].pc = "cloning" /\ ~run'[w].cloned
          /\ \A v \in Workers \ {w} : run'[v] = run[v]
      <4>1. run' = [run EXCEPT ![w] = [run[w] EXCEPT !.pc = "cloning"]]
        BY <2>2 DEF GoOn
      <4> QED
        BY <1>0, <1>2, <2>1, <4>1 DEF RunRecord
    <3>3. /\ clone'[p] = "partial"
          /\ \A q \in Plans \ {p} : clone'[q] = clone[q]
      BY <1>0, <2>1, <2>2
    <3> QED
      BY <1>3, <2>1, <2>2, <3>1, <3>2, <3>3 DEF ClonesInv, CloneExclusive, CloneHasOwner, HasClone
  <2>3. CASE GiveUp(w) /\ UNCHANGED clone
    <3>1. ~NoRun.cloned /\ NoRun.pc # "cloning"
      BY DEF NoRun
    <3>2. UNCHANGED <<clone, leftover>> /\ run' = [run EXCEPT ![w] = NoRun]
      BY <1>4, <2>3 DEF BeginClone, GiveUp
    <3> QED
      BY <2>1, <3>1, <3>2, WithoutClone
  <2> QED
    BY <1>4, <2>2, <2>3 DEF BeginClone
<1>5. CASE EndClone(w)
  <2>1. run[w].pc = "cloning" /\ p \in Plans /\ HasClone(w, p) /\ leftover' = leftover
    BY <1>1, <1>5 DEF EndClone, HasClone
  <2>2. CASE /\ clone' = [clone EXCEPT ![p] = "whole"]
             /\ run' = [run EXCEPT ![w].pc = "list", ![w].cloned = TRUE]
    <3>1. /\ run'[w].plan = p /\ run'[w].pc = "list" /\ run'[w].cloned
          /\ \A v \in Workers \ {w} : run'[v] = run[v]
      BY <1>0, <2>2 DEF RunRecord
    <3>2. /\ clone'[p] = "whole"
          /\ \A q \in Plans \ {p} : clone'[q] = clone[q]
      BY <1>0, <2>1, <2>2
    <3> QED
      BY <1>3, <2>1, <3>1, <3>2 DEF ClonesInv, CloneExclusive, CloneHasOwner, HasClone
  <2>3. CASE clone' = [clone EXCEPT ![p] = "absent"] /\ GiveUp(w)
    <3>1. run'[w] = NoRun /\ \A v \in Workers \ {w} : run'[v] = run[v]
      BY <1>2, <2>3 DEF GiveUp
    <3>2. /\ clone'[p] = "absent"
          /\ \A q \in Plans \ {p} : clone'[q] = clone[q]
      BY <1>0, <2>1, <2>3
    <3> QED
      BY <1>3, <2>1, <3>1, <3>2 DEF ClonesInv, CloneExclusive, CloneHasOwner, HasClone, NoRun
  <2> QED
    BY <1>5, <2>2, <2>3 DEF EndClone
<1>6. CASE Prepare(w)
  <2>1. run[w].pc = "prepare" /\ p \in Plans /\ clone' = clone
    BY <1>1, <1>6 DEF Prepare
  <2>2. CASE GoOn(w, "running") /\ UNCHANGED leftover
    <3>1. run' = [run EXCEPT ![w] = [run[w] EXCEPT !.pc = "running"]]
      BY <2>2 DEF GoOn
    <3> QED
      BY <1>0, <2>1, <2>2, <3>1, GoingOn DEF RunRecord
  <2>3. CASE GiveUp(w) /\ leftover' = IF run[w].cloned THEN leftover \cup {p} ELSE leftover
    <3>1. run'[w] = NoRun /\ \A v \in Workers \ {w} : run'[v] = run[v]
      BY <1>2, <2>3 DEF GiveUp
    <3> QED
      BY <2>1, <2>3, <3>1 DEF ClonesInv, CloneExclusive, CloneHasOwner, HasClone, NoRun
  <2> QED
    BY <1>6, <2>2, <2>3 DEF Prepare
<1>7. CASE RemoveClone(w)
  <2>1. /\ run[w].pc = "remove" /\ p \in Plans
        /\ run'[w] = NoRun /\ \A v \in Workers \ {w} : run'[v] = run[v]
    BY <1>1, <1>2, <1>7 DEF RemoveClone, GiveUp
  <2>2. CASE clone' = clone /\ ~run[w].cloned /\ leftover' = leftover
    BY <2>1, <2>2 DEF ClonesInv, CloneExclusive, CloneHasOwner, HasClone, NoRun
  <2>3. CASE /\ run[w].cloned
             /\ \/ clone' = [clone EXCEPT ![p] = "absent"] /\ leftover' = leftover
                \/ clone' = [clone EXCEPT ![p] = "partial"] /\ leftover' = leftover \cup {p}
    <3>1. \A q \in Plans \ {p} : clone'[q] = clone[q]
      BY <1>0, <2>3
    <3>2. \/ clone'[p] = "absent" /\ leftover' = leftover
          \/ p \in leftover' /\ leftover \subseteq leftover'
      BY <1>0, <2>1, <2>3
    <3>3. HasClone(w, p)
      BY <2>3 DEF HasClone
    <3> QED
      BY <1>3, <2>1, <3>1, <3>2, <3>3 DEF ClonesInv, CloneExclusive, CloneHasOwner, HasClone, NoRun
  <2> QED
    BY <1>7, <2>2, <2>3 DEF RemoveClone
<1>8. CASE WorkerDies(w)
  <2>1. run'[w] = NoRun /\ \A v \in Workers \ {w} : run'[v] = run[v]
    BY <1>2, <1>8 DEF WorkerDies, GiveUp
  <2>2. CASE ~(run[w].cloned \/ run[w].pc = "cloning")
    <3>1. clone' = clone /\ leftover' = leftover
      BY <1>8, <2>2 DEF WorkerDies
    <3> QED
      BY <2>1, <2>2, <3>1 DEF ClonesInv, CloneExclusive, CloneHasOwner, HasClone, NoRun
  <2>3. CASE run[w].cloned \/ run[w].pc = "cloning"
    <3>1. HasClone(w, p) /\ p \in Plans
      BY <1>0, <1>1, <2>3 DEF HasClone, Consistent, NoRun
    <3>2. leftover' = leftover \cup {p}
      BY <1>8, <2>3 DEF WorkerDies
    <3>3. \A q \in Plans \ {p} : clone'[q] = clone[q]
      BY <1>0, <1>8, <3>1 DEF WorkerDies
    <3> QED
      BY <1>3, <2>1, <3>1, <3>2, <3>3 DEF ClonesInv, CloneExclusive, CloneHasOwner, HasClone, NoRun
  <2> QED
    BY <2>2, <2>3
<1> QED
  BY <1>4, <1>5, <1>6, <1>7, <1>8

LEMMA InitClone == WorkspaceInit => ClonesInv
BY WorkspaceAssumption
   DEF WorkspaceInit, ClonesInv, CloneExclusive, CloneHasOwner, HasClone, NoRun

LEMMA NextClone == WorkspaceTypeInv /\ ClonesInv /\ [WorkspaceNext]_workspaceVars => ClonesInv'
<1> SUFFICES ASSUME WorkspaceTypeInv, ClonesInv, [WorkspaceNext]_workspaceVars PROVE ClonesInv'
  OBVIOUS
<1>0. ASSUME NEW w \in Workers PROVE run[w] \in RunRecord
  BY DEF WorkspaceTypeInv, RunType
<1>1. CASE UNCHANGED <<clone, run, leftover>>
  BY <1>1 DEF ClonesInv, CloneExclusive, CloneHasOwner, HasClone
<1>2. ASSUME NEW w \in Workers, NEW p \in Plans, StartRun(w, p) PROVE ClonesInv'
  <2>1. PICK snapshot \in BOOLEAN : run' = [run EXCEPT ![w] =
          [NoRun EXCEPT !.pc = IF snapshot THEN "clone" ELSE "list", !.plan = p]]
    BY <1>2 DEF StartRun
  <2>2. run[w] = NoRun /\ UNCHANGED <<clone, leftover>>
    BY <1>2 DEF StartRun
  <2> DEFINE r == [NoRun EXCEPT !.pc = IF snapshot THEN "clone" ELSE "list", !.plan = p]
  <2>3. ~run[w].cloned /\ run[w].pc # "cloning"
    BY <2>2 DEF NoRun
  <2>4. ~r.cloned /\ r.pc # "cloning"
    BY DEF NoRun
  <2> HIDE DEF r
  <2>5. run' = [run EXCEPT ![w] = r]
    BY <2>1 DEF r
  <2> QED
    BY <2>2, <2>3, <2>4, <2>5, WithoutClone
<1>3. ASSUME NEW w \in Workers, NEW pc, GoOn(w, pc), pc # "cloning", run[w].pc # "cloning",
             UNCHANGED <<clone, leftover>>
      PROVE  ClonesInv'
  <2>1. run' = [run EXCEPT ![w] = [run[w] EXCEPT !.pc = pc]]
    BY <1>3 DEF GoOn
  <2> QED
    BY <1>0, <1>3, <2>1, GoingOn DEF RunRecord
<1>4. ASSUME NEW w \in Workers, ListExisting(w) \/ FindToStop(w) PROVE ClonesInv'
  <2>1. ASSUME NEW pc, NEW id, pc # "cloning",
               run' = [run EXCEPT ![w] = [run[w] EXCEPT !.pc = pc, !.found = id]]
        PROVE  ClonesInv'
    <3>1. run[w].pc # "cloning" /\ UNCHANGED <<clone, leftover>>
      BY <1>4 DEF ListExisting, FindToStop
    <3> QED
      BY <1>0, <2>1, <3>1, GoingOn DEF RunRecord
  <2>2. CASE ListExisting(w)
    <3>1. PICK id \in Ids \cup {0} :
            run' = [run EXCEPT ![w] =
              [run[w] EXCEPT !.pc = IF id = 0 THEN "create" ELSE "reuse", !.found = id]]
      BY <2>2 DEF ListExisting
    <3>2. (IF id = 0 THEN "create" ELSE "reuse") # "cloning"
      OBVIOUS
    <3> DEFINE pc == IF id = 0 THEN "create" ELSE "reuse"
    <3> HIDE DEF pc
    <3> QED
      BY <2>1, <3>1, <3>2 DEF pc
  <2>3. CASE FindToStop(w)
    <3>1. PICK id \in Ids \cup {0} :
            run' = [run EXCEPT ![w] =
              [run[w] EXCEPT !.pc = IF id = 0 THEN "remove" ELSE "stop", !.found = id]]
      BY <2>3 DEF FindToStop
    <3>2. (IF id = 0 THEN "remove" ELSE "stop") # "cloning"
      OBVIOUS
    <3> DEFINE pc == IF id = 0 THEN "remove" ELSE "stop"
    <3> HIDE DEF pc
    <3> QED
      BY <2>1, <3>1, <3>2 DEF pc
  <2> QED
    BY <1>4, <2>2, <2>3
<1>5. ASSUME NEW w \in Workers, Reuse(w) \/ Inspect(w) PROVE ClonesInv'
  <2>1. \/ run' = [run EXCEPT ![w] = [run[w] EXCEPT !.pc = "prepare", !.held = run[w].found]]
        \/ GoOn(w, "prepare")
    BY <1>5 DEF Reuse, Inspect
  <2>2. run[w].pc # "cloning" /\ UNCHANGED <<clone, leftover>>
    BY <1>5 DEF Reuse, Inspect
  <2> QED
    BY <1>0, <1>3, <2>1, <2>2, GoingOn DEF RunRecord
<1>6. ASSUME NEW w \in Workers, Create(w) PROVE ClonesInv'
  <2>1. \/ \E id : run' = [run EXCEPT ![w] = [run[w] EXCEPT !.pc = "start", !.found = id]]
        \/ GoOn(w, "prepare")
    BY <1>6 DEF Create
  <2>2. run[w].pc # "cloning" /\ UNCHANGED <<clone, leftover>>
    BY <1>6 DEF Create
  <2> QED
    BY <1>0, <1>3, <2>1, <2>2, GoingOn DEF RunRecord
<1>7. ASSUME NEW w \in Workers, Start(w) \/ EndRun(w) \/ StopFound(w) PROVE ClonesInv'
  <2>1. PICK pc \in {"inspect", "prepare", "find", "remove"} : GoOn(w, pc)
    BY <1>7 DEF Start, EndRun, StopFound
  <2>2. run[w].pc # "cloning" /\ UNCHANGED <<clone, leftover>>
    BY <1>7 DEF Start, EndRun, StopFound
  <2> QED
    BY <1>3, <2>1, <2>2
<1>8. ASSUME NEW h \in Stoppers, StopCommand(h) \/ \E j \in Projects : BeginStop(h, j)
      PROVE  ClonesInv'
  BY <1>1, <1>8 DEF StopCommand, Find, StopByCommand, RemoveByCommand, BeginStop
<1> QED
  BY <1>1, <1>2, <1>4, <1>5, <1>6, <1>7, <1>8, CloneSteps
     DEF WorkspaceNext, SetUp, CleanUp, workspaceVars

\* A run that works in a clone has it to itself and whole until it removes it.
THEOREM ClonesAreExclusive == WorkspaceSpec => []CloneExclusive
<1>1. WorkspaceSpec => [](WorkspaceTypeInv /\ ClonesInv)
  BY WorkspaceInitType, WorkspaceNextType, InitClone, NextClone, PTL DEF WorkspaceSpec
<1> QED
  BY <1>1, PTL DEF ClonesInv

\* A directory under volumes/runs has a run that will remove it, or nobody ever
\* will.
THEOREM ClonesHaveOwners == WorkspaceSpec => []CloneHasOwner
<1>1. WorkspaceSpec => [](WorkspaceTypeInv /\ ClonesInv)
  BY WorkspaceInitType, WorkspaceNextType, InitClone, NextClone, PTL DEF WorkspaceSpec
<1> QED
  BY <1>1, PTL DEF ClonesInv

(***************************************************************************)
(* The container.                                                          *)
(***************************************************************************)

\* Containers have identifiers of their own, and whoever remembers one remembers
\* it of the project it belongs to.
Boxes ==
  /\ \A j \in Projects : /\ container[j].id <= spent.containers
                         /\ container[j].state = "none" <=> container[j].id = 0
  /\ \A i, j \in Projects :
       container[i].id # 0 /\ container[i].id = container[j].id => i = j
Remembers(found, j) ==
  /\ found <= spent.containers
  /\ \A i \in Projects : found # 0 /\ container[i].id = found => i = j
Identified ==
  /\ Boxes
  /\ \A w \in Workers : Remembers(run[w].found, JobOf(w))
  /\ \A h \in Stoppers : Remembers(stopper[h].found, stopper[h].project)

\* No container is created or removed.
SameBoxes ==
  /\ spent'.containers = spent.containers
  /\ \A j \in Projects : /\ container'[j].id = container[j].id
                         /\ container'[j].state = "none" <=> container[j].state = "none"

LEMMA Counted == WorkspaceTypeInv /\ (Granted \/ Refused) => spent'.containers = spent.containers
BY DEF WorkspaceTypeInv, SpentType, Granted, Refused

LEMMA RunRemembers ==
  ASSUME WorkspaceTypeInv, Identified, SameBoxes, NEW w \in Workers, NEW r,
         run' = [run EXCEPT ![w] = r], UNCHANGED stopper,
         \/ r.found = 0
         \/ /\ r.plan = run[w].plan /\ JobOf(w) \in Projects
            /\ r.found = run[w].found \/ r.found = container[JobOf(w)].id
  PROVE  Identified'
<1>1. run'[w] = r /\ \A v \in Workers \ {w} : run'[v] = run[v]
  BY DEF WorkspaceTypeInv, RunType
<1>2. Boxes'
  BY DEF Identified, Boxes, SameBoxes
<1>3. ASSUME NEW v \in Workers PROVE Remembers(run[v].found, JobOf(v))'
  <2>1. CASE v # w
    BY <1>1, <2>1 DEF Identified, Remembers, SameBoxes, JobOf
  <2>2. CASE v = w
    <3>1. CASE r.found = 0
      BY <1>1, <2>2, <3>1 DEF Remembers, SameBoxes, WorkspaceTypeInv, SpentType
    <3>2. CASE r.plan = run[w].plan /\ r.found = run[w].found
      BY <1>1, <2>2, <3>2 DEF Identified, Remembers, SameBoxes, JobOf
    <3>3. CASE /\ r.plan = run[w].plan /\ JobOf(w) \in Projects
               /\ r.found = container[JobOf(w)].id
      BY <1>1, <2>2, <3>3 DEF Identified, Boxes, Remembers, SameBoxes, JobOf
    <3> QED
      BY <3>1, <3>2, <3>3
  <2> QED
    BY <2>1, <2>2
<1>4. ASSUME NEW h \in Stoppers PROVE Remembers(stopper[h].found, stopper[h].project)'
  BY DEF Identified, Remembers, SameBoxes
<1> QED
  BY <1>2, <1>3, <1>4 DEF Identified

LEMMA StopRemembers ==
  ASSUME WorkspaceTypeInv, Identified, SameBoxes, NEW h \in Stoppers, NEW s,
         stopper' = [stopper EXCEPT ![h] = s], UNCHANGED run,
         \/ s.found = 0
         \/ /\ s.project = stopper[h].project /\ stopper[h].project \in Projects
            /\ s.found = stopper[h].found \/ s.found = container[stopper[h].project].id
  PROVE  Identified'
<1>1. stopper'[h] = s /\ \A g \in Stoppers \ {h} : stopper'[g] = stopper[g]
  BY DEF WorkspaceTypeInv, StopperType
<1>2. Boxes'
  BY DEF Identified, Boxes, SameBoxes
<1>3. ASSUME NEW v \in Workers PROVE Remembers(run[v].found, JobOf(v))'
  BY DEF Identified, Remembers, SameBoxes, JobOf
<1>4. ASSUME NEW g \in Stoppers PROVE Remembers(stopper[g].found, stopper[g].project)'
  <2>1. CASE g # h
    BY <1>1, <2>1 DEF Identified, Remembers, SameBoxes
  <2>2. CASE g = h
    <3>1. CASE s.found = 0
      BY <1>1, <2>2, <3>1 DEF Remembers, SameBoxes, WorkspaceTypeInv, SpentType
    <3>2. CASE s.project = stopper[h].project /\ s.found = stopper[h].found
      BY <1>1, <2>2, <3>2 DEF Identified, Remembers, SameBoxes
    <3>3. CASE /\ s.project = stopper[h].project /\ stopper[h].project \in Projects
               /\ s.found = container[stopper[h].project].id
      BY <1>1, <2>2, <3>3 DEF Identified, Boxes, Remembers, SameBoxes
    <3> QED
      BY <3>1, <3>2, <3>3
  <2> QED
    BY <2>1, <2>2
<1> QED
  BY <1>2, <1>3, <1>4 DEF Identified

\* Docker stops a container, starts one or leaves them alone.
LEMMA StateChanges ==
  ASSUME WorkspaceTypeInv, Identified, spent'.containers = spent.containers, NEW j \in Projects,
         NEW state \in {"created", "running", "exited"},
         \/ container' = container
         \/ container[j].id # 0 /\ container' = [container EXCEPT ![j].state = state]
  PROVE  SameBoxes
<1>1. container \in [Projects -> [id : Ids \cup {0},
                                 state : {"none", "created", "running", "exited"}]]
  BY DEF WorkspaceTypeInv, ContainerType
<1>2. CASE container' = container
  BY <1>2 DEF SameBoxes
<1>3. CASE container[j].id # 0 /\ container' = [container EXCEPT ![j].state = state]
  <2>1. container'[j].id = container[j].id /\ container'[j].state = state
    BY <1>1, <1>3
  <2>2. \A i \in Projects \ {j} : container'[i] = container[i]
    BY <1>1, <1>3
  <2>3. container[j].state # "none"
    BY <1>3 DEF Identified, Boxes
  <2> QED
    BY <2>1, <2>2, <2>3 DEF SameBoxes
<1> QED
  BY <1>2, <1>3

LEMMA StopSame ==
  ASSUME WorkspaceTypeInv, Identified, NEW j \in Projects, NEW id \in Ids, Stop(j, id),
         spent'.containers = spent.containers
  PROVE  SameBoxes
<1>1. id # 0
  BY DEF Ids
<1> QED
  BY <1>1, StateChanges DEF Stop

LEMMA InitIdentified == WorkspaceInit => Identified
BY DEF WorkspaceInit, Identified, Boxes, Remembers, NoContainer, NoRun, NoStop

LEMMA GoOnRemembers ==
  ASSUME WorkspaceTypeInv, Identified, SameBoxes, UNCHANGED stopper,
         NEW w \in Workers, run[w].pc # "idle", NEW pc, GoOn(w, pc) \/ GiveUp(w)
  PROVE  Identified'
<1>1. run[w] \in RunRecord
  BY DEF WorkspaceTypeInv, RunType
<1>2. CASE GoOn(w, pc)
  <2>1. run' = [run EXCEPT ![w] = [run[w] EXCEPT !.pc = pc]]
    BY <1>2 DEF GoOn
  <2> QED
    BY <1>1, <2>1, BusyClone, RunRemembers DEF RunRecord
<1>3. CASE GiveUp(w)
  <2>1. NoRun.found = 0
    BY DEF NoRun
  <2> QED
    BY <1>3, <2>1, RunRemembers DEF GiveUp
<1> QED
  BY <1>2, <1>3

LEMMA WorkerIdentified ==
  ASSUME WorkspaceTypeInv, Identified, NEW w \in Workers,
         (\E p \in Plans : StartRun(w, p)) \/ SetUp(w) \/ CleanUp(w) \/ WorkerDies(w)
  PROVE  Identified'
<1>0. run[w] \in RunRecord /\ Consistent(run[w])
  BY DEF WorkspaceTypeInv, RunType
<1>a. ASSUME container' = container, spent'.containers = spent.containers PROVE SameBoxes
  BY <1>a DEF SameBoxes
<1>1. ASSUME NEW p \in Plans, StartRun(w, p) PROVE Identified'
  <2>1. PICK snapshot \in BOOLEAN : run' = [run EXCEPT ![w] =
          [NoRun EXCEPT !.pc = IF snapshot THEN "clone" ELSE "list", !.plan = p]]
    BY <1>1 DEF StartRun
  <2> DEFINE r == [NoRun EXCEPT !.pc = IF snapshot THEN "clone" ELSE "list", !.plan = p]
  <2>2. r.found = 0
    BY DEF NoRun
  <2> HIDE DEF r
  <2>3. run' = [run EXCEPT ![w] = r]
    BY <2>1 DEF r
  <2>4. spent'.containers = spent.containers /\ UNCHANGED <<container, stopper>>
    BY <1>1 DEF StartRun, WorkspaceTypeInv, SpentType
  <2> QED
    BY <1>a, <2>2, <2>3, <2>4, RunRemembers
<1>2. CASE BeginClone(w) \/ Prepare(w) \/ EndRun(w) \/ RemoveClone(w)
  <2>1. PICK pc \in {"cloning", "running", "find", "remove"} : GoOn(w, pc) \/ GiveUp(w)
    BY <1>2 DEF BeginClone, Prepare, EndRun, RemoveClone
  <2>2. run[w].pc # "idle" /\ UNCHANGED <<container, stopper>>
    BY <1>2 DEF BeginClone, Prepare, EndRun, RemoveClone
  <2>3. Granted \/ Refused
    BY <1>2 DEF BeginClone, Prepare, EndRun, RemoveClone, Granted
  <2> QED
    BY <1>a, <2>1, <2>2, <2>3, Counted, GoOnRemembers
<1>3. CASE EndClone(w)
  <2>1. \/ run' = [run EXCEPT ![w] = [run[w] EXCEPT !.pc = "list", !.cloned = TRUE]]
        \/ GiveUp(w)
    BY <1>3 DEF EndClone
  <2>2. run[w].pc # "idle" /\ UNCHANGED <<container, stopper>> /\ (Granted \/ Refused)
    BY <1>3 DEF EndClone
  <2>3. SameBoxes
    BY <1>a, <2>2, Counted
  <2> QED
    BY <1>0, <2>1, <2>2, <2>3, BusyClone, GoOnRemembers, RunRemembers DEF RunRecord
<1>4. CASE ListExisting(w) \/ FindToStop(w)
  <2>1. /\ run[w].pc # "idle" /\ UNCHANGED <<container, stopper>>
        /\ Granted \/ Refused
    BY <1>4 DEF ListExisting, FindToStop, Found
  <2>2. SameBoxes
    BY <1>a, <2>1, Counted
  <2>3. ASSUME NEW pc, NEW id, id \in {0, container[JobOf(w)].id},
               run' = [run EXCEPT ![w] = [run[w] EXCEPT !.pc = pc, !.found = id]]
        PROVE  Identified'
    BY <1>0, <2>1, <2>2, <2>3, BusyClone, RunRemembers DEF RunRecord
  <2>4. CASE ListExisting(w)
    <3>1. PICK id \in {0, container[JobOf(w)].id} :
            run' = [run EXCEPT ![w] =
              [run[w] EXCEPT !.pc = IF id = 0 THEN "create" ELSE "reuse", !.found = id]]
      BY <2>4 DEF ListExisting, Found
    <3> DEFINE pc == IF id = 0 THEN "create" ELSE "reuse"
    <3> HIDE DEF pc
    <3> QED
      BY <2>3, <3>1 DEF pc
  <2>5. CASE FindToStop(w)
    <3>1. PICK id \in {0, container[JobOf(w)].id} :
            run' = [run EXCEPT ![w] =
              [run[w] EXCEPT !.pc = IF id = 0 THEN "remove" ELSE "stop", !.found = id]]
      BY <2>5 DEF FindToStop, Found
    <3> DEFINE pc == IF id = 0 THEN "remove" ELSE "stop"
    <3> HIDE DEF pc
    <3> QED
      BY <2>3, <3>1 DEF pc
  <2> QED
    BY <1>4, <2>4, <2>5
<1>5. CASE Reuse(w) \/ Inspect(w)
  <2>1. /\ run[w].pc # "idle" /\ UNCHANGED <<container, stopper>>
        /\ Granted \/ Refused
    BY <1>5 DEF Reuse, Inspect
  <2>2. SameBoxes
    BY <1>a, <2>1, Counted
  <2>3. \/ run' = [run EXCEPT ![w] = [run[w] EXCEPT !.pc = "prepare", !.held = run[w].found]]
        \/ GoOn(w, "prepare")
    BY <1>5 DEF Reuse, Inspect
  <2> QED
    BY <1>0, <2>1, <2>2, <2>3, BusyClone, GoOnRemembers, RunRemembers DEF RunRecord
<1>6. CASE Create(w)
  <2> DEFINE id == spent.containers + 1
  <2>1. run[w].pc # "idle" /\ UNCHANGED stopper
    BY <1>6 DEF Create
  <2>2. JobOf(w) \in Projects /\ run[w].plan \in Plans
    BY <2>1, BusyClone
  <2>3. CASE UNCHANGED container /\ GoOn(w, "prepare") /\ (Granted \/ Refused)
    BY <1>a, <2>1, <2>3, Counted, GoOnRemembers
  <2>4. CASE /\ container[JobOf(w)] = NoContainer
             /\ container' = [container EXCEPT ![JobOf(w)] = [id |-> id, state |-> "created"]]
             /\ spent' = [spent EXCEPT !.containers = id]
             /\ run' = [run EXCEPT ![w].pc = "start", ![w].found = id]
    <3>1. spent'.containers = id /\ spent.containers \in Nat
      BY <2>4 DEF WorkspaceTypeInv, SpentType
    <3>2. /\ container'[JobOf(w)] = [id |-> id, state |-> "created"]
          /\ \A j \in Projects \ {JobOf(w)} : container'[j] = container[j]
      BY <2>2, <2>4 DEF WorkspaceTypeInv, ContainerType
    <3>3. /\ run'[w].found = id /\ run'[w].plan = run[w].plan
          /\ \A v \in Workers \ {w} : run'[v] = run[v]
      BY <1>0, <2>4 DEF WorkspaceTypeInv, RunType, RunRecord
    <3>4. \A j \in Projects : container[j].id \in Nat /\ container[j].id <= spent.containers
      BY WorkspaceAssumption DEF Identified, Boxes, WorkspaceTypeInv, ContainerType, Ids
    <3>5. Boxes'
      BY <3>1, <3>2, <3>4 DEF Identified, Boxes
    <3>6. ASSUME NEW found \in Nat, NEW j, Remembers(found, j) PROVE Remembers(found, j)'
      BY <3>1, <3>2, <3>4, <3>6 DEF Remembers
    <3>7. ASSUME NEW v \in Workers PROVE Remembers(run[v].found, JobOf(v))'
      <4>1. CASE v = w
        BY <3>1, <3>2, <3>3, <3>4, <4>1 DEF Remembers, JobOf
      <4>2. CASE v # w
        <5>1. run'[v] = run[v] /\ run[v].found \in Nat
          BY <3>3, <4>2, WorkspaceAssumption DEF WorkspaceTypeInv, RunType, RunRecord, Ids
        <5>2. Remembers(run[v].found, JobOf(v))
          BY DEF Identified
        <5> QED
          BY <3>6, <5>1, <5>2 DEF Remembers, JobOf
      <4> QED
        BY <4>1, <4>2
    <3>8. ASSUME NEW h \in Stoppers PROVE Remembers(stopper[h].found, stopper[h].project)'
      <4>1. stopper'[h] = stopper[h] /\ stopper[h].found \in Nat
        BY <2>1, WorkspaceAssumption DEF WorkspaceTypeInv, StopperType, StopRecord, Ids
      <4>2. Remembers(stopper[h].found, stopper[h].project)
        BY DEF Identified
      <4> QED
        BY <3>6, <4>1, <4>2 DEF Remembers
    <3> QED
      BY <3>5, <3>7, <3>8 DEF Identified
  <2> QED
    BY <1>6, <2>3, <2>4 DEF Create
<1>7. CASE Start(w)
  <2>1. /\ run[w].pc = "start" /\ UNCHANGED stopper
        /\ Granted \/ Refused
    BY <1>7 DEF Start
  <2>2. run[w].found # 0 /\ JobOf(w) \in Projects
    BY <1>0, <2>1, BusyClone DEF Consistent
  <2>3. \/ container' = container
        \/ /\ container[JobOf(w)].id # 0
           /\ container' = [container EXCEPT ![JobOf(w)].state = "running"]
    BY <1>7, <2>2 DEF Start
  <2>4. SameBoxes
    BY <2>1, <2>2, <2>3, Counted, StateChanges
  <2>5. PICK pc \in {"inspect", "prepare"} : GoOn(w, pc)
    BY <1>7 DEF Start
  <2> QED
    BY <2>1, <2>4, <2>5, GoOnRemembers
<1>8. CASE StopFound(w)
  <2>1. /\ run[w].pc = "stop" /\ UNCHANGED stopper /\ GoOn(w, "remove")
        /\ Granted \/ Refused
        /\ Stop(JobOf(w), run[w].found) \/ UNCHANGED container
    BY <1>8 DEF StopFound
  <2>2. run[w].found \in Ids /\ JobOf(w) \in Projects
    BY <1>0, <2>1, BusyClone DEF Consistent
  <2>3. SameBoxes
    BY <1>a, <2>1, <2>2, Counted, StopSame
  <2> QED
    BY <2>1, <2>3, GoOnRemembers
<1>9. CASE WorkerDies(w)
  <2>1. /\ GiveUp(w) /\ UNCHANGED <<container, stopper>>
        /\ spent'.containers = spent.containers
    BY <1>9 DEF WorkerDies, WorkspaceTypeInv, SpentType
  <2>2. NoRun.found = 0
    BY DEF NoRun
  <2> QED
    BY <1>a, <2>1, <2>2, RunRemembers DEF GiveUp
<1> QED
  BY <1>1, <1>2, <1>3, <1>4, <1>5, <1>6, <1>7, <1>8, <1>9 DEF SetUp, CleanUp

LEMMA StopperIdentified ==
  ASSUME WorkspaceTypeInv, Identified, NEW h \in Stoppers,
         StopCommand(h) \/ \E j \in Projects : BeginStop(h, j)
  PROVE  Identified'
<1>0. stopper[h] \in StopRecord /\ ConsistentStop(stopper[h])
  BY DEF WorkspaceTypeInv, StopperType
<1>a. ASSUME container' = container, spent'.containers = spent.containers PROVE SameBoxes
  BY <1>a DEF SameBoxes
<1>b. NoStop.found = 0
  BY DEF NoStop
<1>1. ASSUME NEW j \in Projects, BeginStop(h, j) PROVE Identified'
  <2>1. spent'.containers = spent.containers /\ UNCHANGED <<container, run>>
    BY <1>1 DEF BeginStop, WorkspaceTypeInv, SpentType
  <2> DEFINE s == [pc |-> "find", project |-> j, found |-> 0]
  <2>2. s.found = 0
    OBVIOUS
  <2> HIDE DEF s
  <2>3. stopper' = [stopper EXCEPT ![h] = s]
    BY <1>1 DEF BeginStop, s
  <2> QED
    BY <1>a, <2>1, <2>2, <2>3, StopRemembers
<1>2. CASE Find(h)
  <2>1. /\ stopper[h].pc \in {"find", "findAgain"} /\ UNCHANGED <<container, run>>
        /\ Granted \/ Refused
    BY <1>2 DEF Find, Found
  <2>2. SameBoxes
    BY <1>a, <2>1, Counted
  <2>3. stopper[h].project \in Projects
    BY <1>0, <2>1 DEF ConsistentStop
  <2>4. PICK id \in {0, container[stopper[h].project].id} :
          stopper' =
            IF id # 0
            THEN [stopper EXCEPT ![h] = [stopper[h] EXCEPT
                   !.pc = IF stopper[h].pc = "find" THEN "stop" ELSE "remove", !.found = id]]
            ELSE IF stopper[h].pc = "find"
                 THEN [stopper EXCEPT ![h] = [stopper[h] EXCEPT !.pc = "findAgain"]]
            ELSE [stopper EXCEPT ![h] = NoStop]
    BY <1>2 DEF Find, Found
  <2>5. ASSUME NEW pc, stopper' = [stopper EXCEPT ![h] = [stopper[h] EXCEPT !.pc = pc, !.found = id]]
        PROVE  Identified'
    BY <1>0, <2>1, <2>2, <2>3, <2>4, <2>5, StopRemembers DEF StopRecord
  <2>6. CASE id # 0
    <3> DEFINE pc == IF stopper[h].pc = "find" THEN "stop" ELSE "remove"
    <3> HIDE DEF pc
    <3> QED
      BY <2>4, <2>5, <2>6 DEF pc
  <2>7. CASE stopper' = [stopper EXCEPT ![h] = [stopper[h] EXCEPT !.pc = "findAgain"]]
    BY <1>0, <2>1, <2>2, <2>3, <2>7, StopRemembers DEF StopRecord
  <2>8. CASE stopper' = [stopper EXCEPT ![h] = NoStop]
    BY <1>b, <2>1, <2>2, <2>8, StopRemembers
  <2> QED
    BY <2>4, <2>6, <2>7, <2>8
<1>3. CASE StopByCommand(h)
  <2>1. /\ stopper[h].pc = "stop" /\ UNCHANGED run
        /\ Granted \/ Refused
        /\ Stop(stopper[h].project, stopper[h].found) \/ UNCHANGED container
        /\ \/ stopper' = [stopper EXCEPT ![h] = [stopper[h] EXCEPT !.pc = "findAgain"]]
           \/ stopper' = [stopper EXCEPT ![h] = NoStop]
    BY <1>3 DEF StopByCommand
  <2>2. stopper[h].found \in Ids /\ stopper[h].project \in Projects
    BY <1>0, <2>1 DEF ConsistentStop, StopRecord
  <2>3. SameBoxes
    BY <1>a, <2>1, <2>2, Counted, StopSame
  <2> QED
    BY <1>0, <1>b, <2>1, <2>2, <2>3, StopRemembers DEF StopRecord
<1>4. CASE RemoveByCommand(h)
  <2> DEFINE j == stopper[h].project
  <2>1. /\ stopper[h].pc = "remove" /\ UNCHANGED run
        /\ stopper' = [stopper EXCEPT ![h] = NoStop]
        /\ spent'.containers = spent.containers
    BY <1>4, Counted DEF RemoveByCommand
  <2>2. stopper[h].found \in Ids /\ j \in Projects
    BY <1>0, <2>1 DEF ConsistentStop, StopRecord
  <2>3. CASE UNCHANGED container
    BY <1>a, <1>b, <2>1, <2>3, StopRemembers
  <2>4. CASE container' = [container EXCEPT ![j] = NoContainer]
    <3>1. /\ container'[j] = NoContainer
          /\ \A i \in Projects \ {j} : container'[i] = container[i]
      BY <2>2, <2>4 DEF WorkspaceTypeInv, ContainerType
    <3>2. spent.containers \in Nat
      BY DEF WorkspaceTypeInv, SpentType
    <3>3. Boxes'
      BY <2>1, <3>1, <3>2 DEF Identified, Boxes, NoContainer
    <3>4. ASSUME NEW found, NEW i, Remembers(found, i) PROVE Remembers(found, i)'
      BY <2>1, <3>1, <3>4 DEF Remembers, NoContainer
    <3>5. ASSUME NEW v \in Workers PROVE Remembers(run[v].found, JobOf(v))'
      <4>1. Remembers(run[v].found, JobOf(v))
        BY DEF Identified
      <4>2. run'[v] = run[v]
        BY <2>1
      <4> QED
        BY <3>4, <4>1, <4>2 DEF Remembers, JobOf
    <3>6. ASSUME NEW g \in Stoppers PROVE Remembers(stopper[g].found, stopper[g].project)'
      <4>1. CASE g = h
        BY <1>b, <2>1, <3>2, <4>1 DEF Remembers, WorkspaceTypeInv, StopperType
      <4>2. CASE g # h
        <5>1. stopper'[g] = stopper[g]
          BY <2>1, <4>2 DEF WorkspaceTypeInv, StopperType
        <5>2. Remembers(stopper[g].found, stopper[g].project)
          BY DEF Identified
        <5> QED
          BY <3>4, <5>1, <5>2 DEF Remembers
      <4> QED
        BY <4>1, <4>2
    <3> QED
      BY <3>3, <3>5, <3>6 DEF Identified
  <2> QED
    BY <1>4, <2>3, <2>4 DEF RemoveByCommand
<1> QED
  BY <1>1, <1>2, <1>3, <1>4 DEF StopCommand

LEMMA NextIdentified == WorkspaceTypeInv /\ Identified /\ [WorkspaceNext]_workspaceVars => Identified'
<1>1. CASE UNCHANGED workspaceVars
  BY <1>1 DEF workspaceVars, Identified, Boxes, Remembers, JobOf
<1> QED
  BY <1>1, WorkerIdentified, StopperIdentified DEF WorkspaceNext

\* Whoever remembers an identifier that a container has remembers the project of
\* that container.
LEMMA Recalls ==
  ASSUME WorkspaceTypeInv, Identified
  PROVE  /\ \A w \in Workers, j \in Projects :
              run[w].found # 0 /\ container[j].id = run[w].found => JobOf(w) = j
         /\ \A h \in Stoppers, j \in Projects :
              stopper[h].found # 0 /\ container[j].id = stopper[h].found =>
                stopper[h].project = j
         /\ \A j \in Projects : container[j].state = "running" => container[j].id \in Ids
<1>1. ASSUME NEW j \in Projects, container[j].state = "running" PROVE container[j].id \in Ids
  <2>1. container[j].id # 0
    BY <1>1 DEF Identified, Boxes
  <2> QED
    BY <2>1 DEF WorkspaceTypeInv, ContainerType
<1> QED
  BY <1>1 DEF Identified, Remembers

\* Containers keep their identifiers, none starts to run, and whoever owns one
\* goes on owning it or gives it up for lost.
LEMMA KeepsOwners ==
  ASSUME RunningHasOwner,
         \A j \in Projects : container'[j].state = "running" =>
           /\ container[j] = container'[j]
           /\ \A w \in Workers : Owns(w, j) => Owns(w, j)' \/ container[j].id \in leaked'
           /\ container[j].id \in leaked => container[j].id \in leaked'
  PROVE  RunningHasOwner'
BY DEF RunningHasOwner

LEMMA WorkerOwns ==
  ASSUME WorkspaceTypeInv, Identified, RunningHasOwner, NEW w \in Workers,
         (\E p \in Plans : StartRun(w, p)) \/ SetUp(w) \/ CleanUp(w) \/ WorkerDies(w)
  PROVE  RunningHasOwner'
<1>0. run[w] \in RunRecord /\ Consistent(run[w])
  BY DEF WorkspaceTypeInv, RunType
\* Only the run of w changes, and no container starts to run.
<1>a. ASSUME \A v \in Workers \ {w} : run'[v] = run[v],
             container' = container, leaked \subseteq leaked',
             \A j \in Projects : container[j].state = "running" /\ Owns(w, j) =>
               Owns(w, j)' \/ container[j].id \in leaked'
      PROVE  RunningHasOwner'
  <2>1. \A v \in Workers \ {w}, j \in Projects : Owns(v, j) => Owns(v, j)'
    BY <1>a DEF Owns, JobOf
  <2> QED
    BY <1>a, <2>1, KeepsOwners
<1>b. ASSUME NEW r, run' = [run EXCEPT ![w] = r]
      PROVE  run'[w] = r /\ \A v \in Workers \ {w} : run'[v] = run[v]
  BY <1>b DEF WorkspaceTypeInv, RunType
<1>c. ASSUME NEW pc, GoOn(w, pc)
      PROVE  /\ run'[w].pc = pc /\ run'[w].plan = run[w].plan
             /\ run'[w].held = run[w].held /\ run'[w].found = run[w].found
             /\ \A v \in Workers \ {w} : run'[v] = run[v]
  BY <1>0, <1>c DEF GoOn, WorkspaceTypeInv, RunType, RunRecord
<1>d. ASSUME GiveUp(w) PROVE \A v \in Workers \ {w} : run'[v] = run[v]
  BY <1>b, <1>d DEF GiveUp
<1>2. ASSUME NEW p \in Plans, StartRun(w, p) PROVE RunningHasOwner'
  <2>1. run[w].pc = "idle" /\ UNCHANGED <<container, leaked>>
    <3>1. run[w] = NoRun /\ UNCHANGED <<container, leaked>>
      BY <1>2 DEF StartRun
    <3> QED
      BY <3>1 DEF NoRun
  <2>2. \A j \in Projects : ~Owns(w, j)
    BY <2>1 DEF Owns
  <2>3. \A v \in Workers \ {w} : run'[v] = run[v]
    <3>1. PICK snapshot \in BOOLEAN : run' = [run EXCEPT ![w] =
            [NoRun EXCEPT !.pc = IF snapshot THEN "clone" ELSE "list", !.plan = p]]
      BY <1>2 DEF StartRun
    <3> QED
      BY <1>b, <3>1
  <2> QED
    BY <1>a, <2>1, <2>2, <2>3
<1>3. CASE BeginClone(w)
  BY <1>3, <1>a, <1>c, <1>d DEF BeginClone, Owns
<1>4. CASE EndClone(w) \/ ListExisting(w)
  <2>1. /\ run[w].pc \in {"cloning", "list"} /\ UNCHANGED <<container, leaked>>
        /\ \E r : run' = [run EXCEPT ![w] = r]
    BY <1>4 DEF EndClone, ListExisting, GiveUp
  <2> QED
    BY <1>a, <1>b, <2>1 DEF Owns
<1>5. CASE Reuse(w)
  <2>1. /\ run[w].pc = "reuse" /\ UNCHANGED <<container, leaked>>
        /\ \A v \in Workers \ {w} : run'[v] = run[v]
    BY <1>5, <1>b, <1>c DEF Reuse
  <2> QED
    BY <1>a, <2>1 DEF Owns
<1>6. CASE Create(w)
  <2>1. run[w].pc = "create" /\ UNCHANGED leaked /\ JobOf(w) \in Projects
    BY <1>6, BusyClone DEF Create
  <2>2. CASE UNCHANGED container /\ GoOn(w, "prepare")
    BY <1>a, <1>c, <2>1, <2>2 DEF Owns
  <2>3. CASE /\ container[JobOf(w)] = NoContainer
             /\ \E id : container' = [container EXCEPT ![JobOf(w)] = [id |-> id, state |-> "created"]]
             /\ \E r : run' = [run EXCEPT ![w] = r]
    <3>1. \A v \in Workers \ {w} : run'[v] = run[v]
      BY <1>b, <2>3
    <3>2. /\ container'[JobOf(w)].state = "created"
          /\ \A j \in Projects \ {JobOf(w)} : container'[j] = container[j]
      BY <2>1, <2>3 DEF WorkspaceTypeInv, ContainerType
    <3>3. ASSUME NEW j \in Projects, container'[j].state = "running", NEW v \in Workers, Owns(v, j)
          PROVE  Owns(v, j)'
      <4>1. v # w
        BY <2>1, <3>3 DEF Owns
      <4>2. container'[j] = container[j]
        BY <3>2, <3>3
      <4> QED
        BY <3>1, <3>3, <4>1, <4>2 DEF Owns, JobOf
    <3> QED
      BY <2>1, <3>2, <3>3, KeepsOwners
  <2> QED
    BY <1>6, <2>2, <2>3 DEF Create
<1>7. CASE Start(w)
  <2>1. /\ run[w].pc = "start" /\ UNCHANGED leaked
        /\ run[w].plan \in Plans /\ JobOf(w) \in Projects
    BY <1>7, BusyClone DEF Start
  <2>2. CASE UNCHANGED container /\ GoOn(w, "prepare")
    BY <1>a, <1>c, <2>1, <2>2 DEF Owns
  <2>3. CASE /\ container[JobOf(w)].id = run[w].found /\ GoOn(w, "inspect")
             /\ container' = [container EXCEPT ![JobOf(w)].state = "running"]
    <3>1. /\ container'[JobOf(w)].id = run[w].found
          /\ \A j \in Projects \ {JobOf(w)} : container'[j] = container[j]
      BY <2>1, <2>3 DEF WorkspaceTypeInv, ContainerType
    <3>2. Owns(w, JobOf(w))'
      BY <1>c, <2>1, <2>3, <3>1 DEF Owns, JobOf
    <3>3. ASSUME NEW j \in Projects \ {JobOf(w)}, NEW v \in Workers, Owns(v, j)
          PROVE  Owns(v, j)'
      <4>1. v # w
        BY <3>3 DEF Owns
      <4> QED
        BY <1>c, <2>3, <3>1, <3>3, <4>1 DEF Owns, JobOf
    <3>4. JobOf(w)' = JobOf(w)
      BY <1>c, <2>3 DEF JobOf
    <3> QED
      BY <2>1, <3>1, <3>2, <3>3, <3>4 DEF RunningHasOwner
  <2> QED
    BY <1>7, <2>2, <2>3 DEF Start
<1>8. CASE Inspect(w)
  <2>1. run[w].pc = "inspect" /\ UNCHANGED container /\ run[w].plan \in Plans
    BY <1>8, BusyClone DEF Inspect
  <2>2. CASE UNCHANGED leaked /\ run' = [run EXCEPT ![w].pc = "prepare", ![w].held = run[w].found]
    <3>1. /\ run'[w].pc = "prepare" /\ run'[w].plan = run[w].plan
          /\ run'[w].held = run[w].found
          /\ \A v \in Workers \ {w} : run'[v] = run[v]
      BY <1>0, <2>2 DEF WorkspaceTypeInv, RunType, RunRecord
    <3>2. \A j \in Projects : Owns(w, j) => Owns(w, j)'
      BY <2>1, <3>1 DEF Owns, JobOf
    <3> QED
      BY <1>a, <2>1, <2>2, <3>1, <3>2
  <2>3. CASE container[JobOf(w)].id # run[w].found /\ GoOn(w, "prepare") /\ UNCHANGED leaked
    <3>1. \A j \in Projects : ~Owns(w, j)
      BY <2>1, <2>3 DEF Owns
    <3> QED
      BY <1>a, <1>c, <2>1, <2>3, <3>1
  <2>4. CASE GoOn(w, "prepare") /\ leaked' = leaked \cup {run[w].found}
    <3>1. \A j \in Projects : Owns(w, j) => container[j].id \in leaked'
      BY <2>1, <2>4 DEF Owns
    <3> QED
      BY <1>a, <1>c, <2>1, <2>4, <3>1
  <2> QED
    BY <1>8, <2>2, <2>3, <2>4 DEF Inspect
<1>9. CASE Prepare(w)
  <2>1. run[w].pc = "prepare" /\ UNCHANGED container
    BY <1>9 DEF Prepare
  <2>2. CASE GoOn(w, "running") /\ UNCHANGED leaked
    <3>1. \A j \in Projects : Owns(w, j) => Owns(w, j)'
      BY <1>c, <2>1, <2>2 DEF Owns, JobOf
    <3> QED
      BY <1>a, <1>c, <2>1, <2>2, <3>1
  <2>3. CASE GiveUp(w) /\ leaked' = leaked \cup ({run[w].held} \ {0})
    <3>1. \A j \in Projects : container[j].state = "running" /\ Owns(w, j) =>
            container[j].id \in leaked'
      BY <2>1, <2>3, Recalls DEF Owns, Ids
    <3> QED
      BY <1>a, <1>d, <2>1, <2>3, <3>1
  <2> QED
    BY <1>9, <2>2, <2>3 DEF Prepare
<1>10. CASE EndRun(w)
  <2>1. run[w].pc = "running" /\ UNCHANGED <<container, leaked>>
    BY <1>10 DEF EndRun
  <2>2. CASE GoOn(w, "find")
    <3>1. \A j \in Projects : Owns(w, j) => Owns(w, j)'
      BY <1>c, <2>1, <2>2 DEF Owns, JobOf
    <3> QED
      BY <1>a, <1>c, <2>1, <2>2, <3>1
  <2>3. CASE run[w].held = 0 /\ GoOn(w, "remove")
    <3>1. \A j \in Projects : container[j].state = "running" => ~Owns(w, j)
      BY <2>1, <2>3, Recalls DEF Owns, Ids
    <3> QED
      BY <1>a, <1>c, <2>1, <2>3, <3>1
  <2> QED
    BY <1>10, <2>2, <2>3 DEF EndRun
<1>11. CASE FindToStop(w)
  <2>1. run[w].pc = "find" /\ UNCHANGED container /\ run[w].plan \in Plans
    BY <1>11, BusyClone DEF FindToStop
  <2>2. PICK id \in {0, container[JobOf(w)].id} :
          /\ run' = [run EXCEPT ![w].pc = IF id = 0 THEN "remove" ELSE "stop",
                                ![w].found = id]
          /\ leaked' = IF id = 0 THEN leaked \cup {run[w].held} ELSE leaked
    BY <1>11 DEF FindToStop, Found
  <2>3. /\ run'[w].pc = (IF id = 0 THEN "remove" ELSE "stop")
        /\ run'[w].plan = run[w].plan /\ run'[w].found = id
        /\ \A v \in Workers \ {w} : run'[v] = run[v]
    BY <1>0, <2>2 DEF WorkspaceTypeInv, RunType, RunRecord
  <2>4. ASSUME NEW j \in Projects, Owns(w, j)
        PROVE  Owns(w, j)' \/ container[j].id \in leaked'
    <3>1. JobOf(w) = j /\ container[j].id = run[w].held
      BY <2>1, <2>4 DEF Owns
    <3>2. CASE id = 0
      BY <2>2, <3>1, <3>2
    <3>3. CASE id # 0
      BY <2>1, <2>2, <2>3, <3>1, <3>3 DEF Owns, JobOf
    <3> QED
      BY <3>2, <3>3
  <2>5. leaked \subseteq leaked'
    BY <2>2
  <2> QED
    BY <1>a, <2>1, <2>3, <2>4, <2>5
<1>12. CASE StopFound(w)
  <2>1. run[w].pc = "stop" /\ GoOn(w, "remove") /\ run[w].found # 0 /\ JobOf(w) \in Projects
    BY <1>0, <1>12, BusyClone DEF StopFound, Consistent
  <2>2. CASE UNCHANGED container /\ leaked' = leaked \cup {run[w].found}
    <3>1. \A j \in Projects : Owns(w, j) => container[j].id \in leaked'
      BY <2>1, <2>2 DEF Owns
    <3> QED
      BY <1>a, <1>c, <2>1, <2>2, <3>1
  <2>3. CASE Stop(JobOf(w), run[w].found)
    <3>1. ASSUME NEW j \in Projects, container'[j].state = "running"
          PROVE  container[j] = container'[j] /\ container[j].id # run[w].found
      BY <2>1, <2>3, <3>1, Recalls DEF Stop, WorkspaceTypeInv, ContainerType
    <3>2. ASSUME NEW j \in Projects, container'[j].state = "running", NEW v \in Workers, Owns(v, j)
          PROVE  Owns(v, j)'
      <4>1. v # w
        BY <2>1, <3>1, <3>2 DEF Owns
      <4>2. run'[v] = run[v] /\ container'[j] = container[j]
        BY <1>c, <2>1, <3>1, <3>2, <4>1
      <4> QED
        BY <3>2, <4>2 DEF Owns, JobOf
    <3>3. leaked' = leaked \ {run[w].found}
      BY <2>3 DEF Stop
    <3> QED
      BY <3>1, <3>2, <3>3, KeepsOwners
  <2> QED
    BY <1>12, <2>2, <2>3 DEF StopFound
<1>13. CASE RemoveClone(w)
  BY <1>13, <1>a, <1>d DEF RemoveClone, Owns
<1>14. CASE WorkerDies(w)
  <2>1. /\ GiveUp(w) /\ UNCHANGED container
        /\ leaked' = leaked \cup ({run[w].held, run[w].found} \ {0})
    BY <1>14 DEF WorkerDies
  <2>2. \A j \in Projects : container[j].state = "running" /\ Owns(w, j) =>
          container[j].id \in leaked'
    BY <2>1, Recalls DEF Owns, Ids
  <2> QED
    BY <1>a, <1>d, <2>1, <2>2
<1> QED
  BY <1>2, <1>3, <1>4, <1>5, <1>6, <1>7, <1>8, <1>9, <1>10, <1>11, <1>12, <1>13, <1>14
     DEF SetUp, CleanUp

LEMMA StopperOwns ==
  ASSUME WorkspaceTypeInv, Identified, RunningHasOwner, NEW h \in Stoppers,
         StopCommand(h) \/ \E j \in Projects : BeginStop(h, j)
  PROVE  RunningHasOwner'
<1>0. stopper[h] \in StopRecord /\ ConsistentStop(stopper[h]) /\ UNCHANGED run
  BY DEF WorkspaceTypeInv, StopperType, StopCommand, Find, StopByCommand, RemoveByCommand, BeginStop
<1>a. ASSUME \A j \in Projects : container'[j].state = "running" =>
               container[j] = container'[j] /\ (container[j].id \in leaked => container[j].id \in leaked')
      PROVE  RunningHasOwner'
  <2>1. ASSUME NEW j \in Projects, container'[j] = container[j], NEW v \in Workers, Owns(v, j)
        PROVE  Owns(v, j)'
    BY <1>0, <2>1 DEF Owns, JobOf
  <2> QED
    BY <1>a, <2>1, KeepsOwners
<1>1. CASE UNCHANGED <<container, leaked>>
  BY <1>1, <1>a
<1>2. CASE StopByCommand(h)
  <2>1. CASE Stop(stopper[h].project, stopper[h].found)
    <3>1. stopper[h].found # 0 /\ stopper[h].project \in Projects
      BY <1>0, <1>2 DEF StopByCommand, ConsistentStop
    <3>2. ASSUME NEW j \in Projects, container'[j].state = "running"
          PROVE  container[j] = container'[j] /\ container[j].id # stopper[h].found
      BY <2>1, <3>1, <3>2, Recalls DEF Stop, WorkspaceTypeInv, ContainerType
    <3> QED
      BY <1>a, <2>1, <3>2 DEF Stop
  <2> QED
    BY <1>1, <1>2, <2>1 DEF StopByCommand
<1>3. CASE RemoveByCommand(h)
  <2> DEFINE j == stopper[h].project
  <2>1. stopper[h].found # 0 /\ j \in Projects
    BY <1>0, <1>3 DEF RemoveByCommand, ConsistentStop
  <2>2. CASE /\ container' = IF container[j].id = stopper[h].found
                             THEN [container EXCEPT ![j] = NoContainer] ELSE container
             /\ leaked' = leaked \ {stopper[h].found}
    <3>1. ASSUME NEW i \in Projects, container'[i].state = "running"
          PROVE  container[i] = container'[i] /\ container[i].id # stopper[h].found
      BY <2>1, <2>2, <3>1, Recalls DEF NoContainer, WorkspaceTypeInv, ContainerType
    <3> QED
      BY <1>a, <2>2, <3>1
  <2> QED
    BY <1>1, <1>3, <2>2 DEF RemoveByCommand
<1>4. CASE Find(h) \/ \E j \in Projects : BeginStop(h, j)
  BY <1>1, <1>4 DEF Find, BeginStop
<1> QED
  BY <1>2, <1>3, <1>4 DEF StopCommand

LEMMA NextOwns ==
  WorkspaceTypeInv /\ Identified /\ RunningHasOwner /\ [WorkspaceNext]_workspaceVars => RunningHasOwner'
<1>1. CASE UNCHANGED workspaceVars
  BY <1>1 DEF workspaceVars, RunningHasOwner, Owns, JobOf
<1> QED
  BY <1>1, WorkerOwns, StopperOwns DEF WorkspaceNext

LEMMA InitOwns == WorkspaceInit => RunningHasOwner
BY DEF WorkspaceInit, RunningHasOwner, NoContainer

\* No container runs for nobody, except those whose owner died or was refused by
\* Docker, whatever /stop removes and whoever shares the name.
THEOREM RunningHasAnOwner == WorkspaceSpec => []RunningHasOwner
<1>1. WorkspaceSpec => [](WorkspaceTypeInv /\ Identified /\ RunningHasOwner)
  BY WorkspaceInitType, WorkspaceNextType, InitIdentified, NextIdentified, InitOwns, NextOwns, PTL
     DEF WorkspaceSpec
<1> QED
  BY <1>1, PTL
=============================================================================
