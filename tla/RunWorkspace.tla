---------------------------- MODULE RunWorkspace ----------------------------
(***************************************************************************)
(* What a run of a plan takes from the host and has to give back: the      *)
(* clone volumes/runs/<planId> (EphemeralWorkspaceService) and the          *)
(* container bridge-ai-<projectId> (DockerService), from the set-up of      *)
(* executeProject to its finally block, next to the clean-up that /stop     *)
(* does by itself.                                                          *)
(*                                                                         *)
(* Both are named after the plan or the project and not after the run.      *)
(* The worker of each process has one run at a time, but two workers may    *)
(* have the same plan (stopped and retried, or recovered by the start of    *)
(* another process), so a run may start whenever a worker is idle.          *)
(***************************************************************************)
EXTENDS Naturals, FiniteSets

CONSTANTS
  Plans,          \* plans
  Projects,       \* projects
  ProjectOf,      \* the project of each plan
  Workers,        \* execution workers, one in each process
  Stoppers,       \* /stop handlers that may be in flight together
  NoPlan,         \* the absence of a plan or a project
  MaxRuns,        \* bound: runs started
  MaxStops,       \* bound: /stop commands
  MaxDeaths,      \* bound: processes that die
  MaxRefusals,    \* bound: failed calls to Docker, git or the file system
  MaxContainers   \* bound: containers created

ASSUME WorkspaceAssumption ==
  /\ ProjectOf \in [Plans -> Projects]
  /\ NoPlan \notin Plans \cup Projects
  /\ MaxRuns \in Nat /\ MaxStops \in Nat /\ MaxDeaths \in Nat
  /\ MaxRefusals \in Nat /\ MaxContainers \in Nat

VARIABLES
  clone,      \* runs/<plan> on disk: absent, being cloned or left half-way, whole
  container,  \* the container that has the name of each project
  run,        \* the run of each worker, by the await it has reached
  stopper,    \* the same for each /stop handler
  leftover,   \* history: plans whose directory nobody will remove
  leaked,     \* history: containers whose last owner did not stop them
  spent       \* what has been used of the bounds

workspaceVars == <<clone, container, run, stopper, leftover, leaked, spent>>

----------------------------------------------------------------------------
Ids == 1..MaxContainers
NoContainer == [id |-> 0, state |-> "none"]
NoRun == [pc |-> "idle", plan |-> NoPlan, cloned |-> FALSE, held |-> 0, found |-> 0]
NoStop == [pc |-> "idle", project |-> NoPlan, found |-> 0]

WorkspaceInit ==
  /\ clone = [p \in Plans |-> "absent"]
  /\ container = [j \in Projects |-> NoContainer]
  /\ run = [w \in Workers |-> NoRun]
  /\ stopper = [h \in Stoppers |-> NoStop]
  /\ leftover = {} /\ leaked = {}
  /\ spent = [runs |-> 0, stops |-> 0, deaths |-> 0, refusals |-> 0, containers |-> 0]

\* A call that fails.
Refused == /\ spent.refusals < MaxRefusals
           /\ spent' = [spent EXCEPT !.refusals = @ + 1]
Granted == UNCHANGED spent

JobOf(w) == ProjectOf[run[w].plan]
GoOn(w, pc) == run' = [run EXCEPT ![w].pc = pc]
GiveUp(w) == run' = [run EXCEPT ![w] = NoRun]

(* getContainerByName: a listing that fails is answered like an empty one.  *)
Found(j, id) == \/ id = container[j].id /\ Granted
                \/ id = 0 /\ Refused

\* Docker stops the container `id', if it is still the one of project j (404
\* otherwise) and runs (304 otherwise).
Stop(j, id) ==
  /\ container' = IF container[j].id = id /\ container[j].state = "running"
                  THEN [container EXCEPT ![j].state = "exited"] ELSE container
  /\ leaked' = leaked \ {id}

----------------------------------------------------------------------------
(* Set-up: executeProject up to its try block.                             *)

\* The plan has been claimed.  With a snapshot of its project the run works in
\* a clone, else in volumes/workspaces/<project>, which stays.
StartRun(w, p) ==
  /\ run[w] = NoRun
  /\ spent.runs < MaxRuns
  /\ spent' = [spent EXCEPT !.runs = @ + 1]
  /\ \E snapshot \in BOOLEAN :
       run' = [run EXCEPT ![w] =
         [NoRun EXCEPT !.pc = IF snapshot THEN "clone" ELSE "list", !.plan = p]]
  /\ UNCHANGED <<clone, container, stopper, leftover, leaked>>

\* Mutant: the clone is made inside the try block, whose finally removes it.
BeginClone_InTry(w) ==
  /\ run[w].pc = "clone"
  /\ IF clone[run[w].plan] = "absent"
     THEN /\ clone' = [clone EXCEPT ![run[w].plan] = "partial"]
          /\ GoOn(w, "cloning")
     ELSE /\ run' = [run EXCEPT ![w].pc = "remove", ![w].cloned = TRUE]
          /\ UNCHANGED clone
  /\ UNCHANGED <<container, stopper, leftover, leaked, spent>>

\* git clone does not enter a directory that is there and not empty: the run
\* fails, outside the try block, and what is there stays.
BeginClone(w) ==
  /\ run[w].pc = "clone"
  /\ \/ /\ clone[run[w].plan] = "absent"
        /\ clone' = [clone EXCEPT ![run[w].plan] = "partial"]
        /\ GoOn(w, "cloning") /\ Granted
     \/ /\ clone[run[w].plan] # "absent"
        /\ GiveUp(w) /\ Granted /\ UNCHANGED clone
     \/ GiveUp(w) /\ Refused /\ UNCHANGED clone
  /\ UNCHANGED <<container, stopper, leftover, leaked>>

\* A clone that fails removes what it made.
EndClone(w) ==
  /\ run[w].pc = "cloning"
  /\ \/ /\ clone' = [clone EXCEPT ![run[w].plan] = "whole"]
        /\ run' = [run EXCEPT ![w].pc = "list", ![w].cloned = TRUE]
        /\ Granted
     \/ /\ clone' = [clone EXCEPT ![run[w].plan] = "absent"]
        /\ GiveUp(w) /\ Refused
  /\ UNCHANGED <<container, stopper, leftover, leaked>>

\* createContainer: reuse the container of that name, in whatever state it is.
ListExisting(w) ==
  /\ run[w].pc = "list"
  /\ \E id \in Ids \cup {0} :
       /\ Found(JobOf(w), id)
       /\ run' = [run EXCEPT ![w].pc = IF id = 0 THEN "create" ELSE "reuse",
                             ![w].found = id]
  /\ UNCHANGED <<clone, container, stopper, leftover, leaked>>

\* inspect gives the identifier, unless the container has gone since (/stop).
\* Any error of createContainer is logged and the run goes on without one.
Reuse(w) ==
  /\ run[w].pc = "reuse"
  /\ \/ /\ container[JobOf(w)].id = run[w].found /\ Granted
        /\ run' = [run EXCEPT ![w].pc = "prepare", ![w].held = run[w].found]
     \/ /\ container[JobOf(w)].id # run[w].found /\ Granted
        /\ GoOn(w, "prepare")
     \/ GoOn(w, "prepare") /\ Refused
  /\ UNCHANGED <<clone, container, stopper, leftover, leaked>>

\* The name may be taken by now (409), or since a listing that failed.
Create(w) ==
  /\ run[w].pc = "create"
  /\ LET id == spent.containers + 1
     IN \/ /\ container[JobOf(w)] = NoContainer /\ id \in Ids
           /\ container' = [container EXCEPT ![JobOf(w)] = [id |-> id, state |-> "created"]]
           /\ spent' = [spent EXCEPT !.containers = id]
           /\ run' = [run EXCEPT ![w].pc = "start", ![w].found = id]
        \/ /\ container[JobOf(w)] # NoContainer /\ Granted
           /\ GoOn(w, "prepare") /\ UNCHANGED container
        \/ GoOn(w, "prepare") /\ Refused /\ UNCHANGED container
  /\ UNCHANGED <<clone, stopper, leftover, leaked>>

\* A container that does not start stays, created, for the next run to reuse.
Start(w) ==
  /\ run[w].pc = "start"
  /\ \/ /\ container[JobOf(w)].id = run[w].found /\ Granted
        /\ container' = [container EXCEPT ![JobOf(w)].state = "running"]
        /\ GoOn(w, "inspect")
     \/ /\ container[JobOf(w)].id # run[w].found /\ Granted
        /\ GoOn(w, "prepare") /\ UNCHANGED container
     \/ GoOn(w, "prepare") /\ Refused /\ UNCHANGED container
  /\ UNCHANGED <<clone, stopper, leftover, leaked>>

\* Without the answer to inspect the run does not know that it has a container.
Inspect(w) ==
  /\ run[w].pc = "inspect"
  /\ \/ /\ container[JobOf(w)].id = run[w].found /\ Granted
        /\ run' = [run EXCEPT ![w].pc = "prepare", ![w].held = run[w].found]
        /\ UNCHANGED leaked
     \/ /\ container[JobOf(w)].id # run[w].found /\ Granted
        /\ GoOn(w, "prepare") /\ UNCHANGED leaked
     \/ /\ GoOn(w, "prepare") /\ Refused
        /\ leaked' = leaked \cup {run[w].found}
  /\ UNCHANGED <<clone, container, stopper, leftover>>

\* The vault and the slug of the project: still outside the try block, so that
\* an error leaves the clone and the container behind.
Prepare(w) ==
  /\ run[w].pc = "prepare"
  /\ \/ /\ GoOn(w, "running") /\ Granted
        /\ UNCHANGED <<leftover, leaked>>
     \/ /\ GiveUp(w) /\ Refused
        /\ leftover' = IF run[w].cloned THEN leftover \cup {run[w].plan} ELSE leftover
        /\ leaked' = leaked \cup ({run[w].held} \ {0})
  /\ UNCHANGED <<clone, container, stopper>>

----------------------------------------------------------------------------
(* The end of a run, whatever came of it: the finally block.               *)

\* Mutant: the container is stopped after a successful run only.
EndRun_SuccessOnly(w) ==
  /\ run[w].pc = "running"
  /\ \E success \in BOOLEAN :
       GoOn(w, IF success /\ run[w].held # 0 THEN "find" ELSE "remove")
  /\ UNCHANGED <<clone, container, stopper, leftover, leaked, spent>>

EndRun(w) ==
  /\ run[w].pc = "running"
  /\ GoOn(w, IF run[w].held # 0 THEN "find" ELSE "remove")
  /\ UNCHANGED <<clone, container, stopper, leftover, leaked, spent>>

\* stopContainer looks for the name again: what it finds may be the container
\* of another run of the project.
FindToStop(w) ==
  /\ run[w].pc = "find"
  /\ \E id \in Ids \cup {0} :
       /\ Found(JobOf(w), id)
       /\ run' = [run EXCEPT ![w].pc = IF id = 0 THEN "remove" ELSE "stop",
                             ![w].found = id]
       /\ leaked' = IF id = 0 THEN leaked \cup {run[w].held} ELSE leaked
  /\ UNCHANGED <<clone, container, stopper, leftover>>

\* Mutant: cleanupContainer does not catch, and the error leaves the finally.
StopFound_Throws(w) ==
  /\ run[w].pc = "stop"
  /\ \/ Stop(JobOf(w), run[w].found) /\ Granted /\ GoOn(w, "remove")
     \/ /\ Refused /\ GiveUp(w)
        /\ leaked' = leaked \cup {run[w].found}
        /\ UNCHANGED container
  /\ UNCHANGED <<clone, stopper, leftover>>

StopFound(w) ==
  /\ run[w].pc = "stop"
  /\ GoOn(w, "remove")
  /\ \/ Stop(JobOf(w), run[w].found) /\ Granted
     \/ /\ Refused
        /\ leaked' = leaked \cup {run[w].found}
        /\ UNCHANGED container
  /\ UNCHANGED <<clone, stopper, leftover>>

\* cleanupRun; a removal that fails half-way is logged.
RemoveClone(w) ==
  /\ run[w].pc = "remove"
  /\ GiveUp(w)
  /\ \/ /\ clone' = IF run[w].cloned THEN [clone EXCEPT ![run[w].plan] = "absent"]
                    ELSE clone
        /\ Granted /\ UNCHANGED leftover
     \/ /\ run[w].cloned /\ Refused
        /\ clone' = [clone EXCEPT ![run[w].plan] = "partial"]
        /\ leftover' = leftover \cup {run[w].plan}
  /\ UNCHANGED <<container, stopper, leaked>>

----------------------------------------------------------------------------
(* /stop: stopContainer and removeContainer of the plan's project, while    *)
(* the run of the plan, or of another plan of the project, goes on.         *)
BeginStop(h, j) ==
  /\ stopper[h] = NoStop
  /\ spent.stops < MaxStops
  /\ spent' = [spent EXCEPT !.stops = @ + 1]
  /\ stopper' = [stopper EXCEPT ![h] = [pc |-> "find", project |-> j, found |-> 0]]
  /\ UNCHANGED <<clone, container, run, leftover, leaked>>

Find(h) ==
  /\ stopper[h].pc \in {"find", "findAgain"}
  /\ \E id \in Ids \cup {0} :
       /\ Found(stopper[h].project, id)
       /\ stopper' =
            IF id # 0
            THEN [stopper EXCEPT ![h].pc = IF @ = "find" THEN "stop" ELSE "remove",
                                 ![h].found = id]
            ELSE IF stopper[h].pc = "find" THEN [stopper EXCEPT ![h].pc = "findAgain"]
            ELSE [stopper EXCEPT ![h] = NoStop]
  /\ UNCHANGED <<clone, container, run, leftover, leaked>>

\* An error of Docker other than 304 and 404 skips the removal.
StopByCommand(h) ==
  /\ stopper[h].pc = "stop"
  /\ \/ /\ Stop(stopper[h].project, stopper[h].found) /\ Granted
        /\ stopper' = [stopper EXCEPT ![h].pc = "findAgain"]
     \/ /\ Refused
        /\ stopper' = [stopper EXCEPT ![h] = NoStop]
        /\ UNCHANGED <<container, leaked>>
  /\ UNCHANGED <<clone, run, leftover>>

RemoveByCommand(h) ==
  /\ stopper[h].pc = "remove"
  /\ stopper' = [stopper EXCEPT ![h] = NoStop]
  /\ LET j == stopper[h].project
     IN \/ /\ container' = IF container[j].id = stopper[h].found
                           THEN [container EXCEPT ![j] = NoContainer] ELSE container
           /\ leaked' = leaked \ {stopper[h].found} /\ Granted
        \/ Refused /\ UNCHANGED <<container, leaked>>
  /\ UNCHANGED <<clone, run, leftover>>

----------------------------------------------------------------------------
\* The process of a worker dies: nothing of its run is cleaned up, then or
\* later.  A git that was cloning may still finish.
WorkerDies(w) ==
  /\ run[w] # NoRun
  /\ spent.deaths < MaxDeaths
  /\ spent' = [spent EXCEPT !.deaths = @ + 1]
  /\ GiveUp(w)
  /\ clone' \in IF run[w].pc = "cloning"
                THEN {clone, [clone EXCEPT ![run[w].plan] = "whole"]} ELSE {clone}
  /\ leftover' = IF run[w].cloned \/ run[w].pc = "cloning"
                 THEN leftover \cup {run[w].plan} ELSE leftover
  /\ leaked' = leaked \cup ({run[w].held, run[w].found} \ {0})
  /\ UNCHANGED <<container, stopper>>

SetUp(w) == \/ BeginClone(w) \/ EndClone(w)
            \/ ListExisting(w) \/ Reuse(w) \/ Create(w) \/ Start(w) \/ Inspect(w)
            \/ Prepare(w)
CleanUp(w) == EndRun(w) \/ FindToStop(w) \/ StopFound(w) \/ RemoveClone(w)
StopCommand(h) == Find(h) \/ StopByCommand(h) \/ RemoveByCommand(h)

WorkspaceNext ==
  \/ \E w \in Workers : \/ \E p \in Plans : StartRun(w, p)
                        \/ SetUp(w) \/ CleanUp(w) \/ WorkerDies(w)
  \/ \E h \in Stoppers : \/ \E j \in Projects : BeginStop(h, j)
                         \/ StopCommand(h)

WorkspaceSpec == WorkspaceInit /\ [][WorkspaceNext]_workspaceVars

----------------------------------------------------------------------------
RunPCs == {"idle", "clone", "cloning", "list", "reuse", "create", "start",
           "inspect", "prepare", "running", "find", "stop", "remove"}

\* Every variable keeps its type, and whoever is in the middle of something has
\* a plan or a project.
WorkspaceTypeOK ==
  /\ clone \in [Plans -> {"absent", "partial", "whole"}]
  /\ container \in [Projects -> [id : Ids \cup {0},
                                 state : {"none", "created", "running", "exited"}]]
  /\ run \in [Workers -> [pc : RunPCs, plan : Plans \cup {NoPlan}, cloned : BOOLEAN,
                          held : Ids \cup {0}, found : Ids \cup {0}]]
  /\ \A w \in Workers : run[w].pc # "idle" => run[w].plan \in Plans
  /\ stopper \in [Stoppers -> [pc : {"idle", "find", "stop", "findAgain", "remove"},
                               project : Projects \cup {NoPlan}, found : Ids \cup {0}]]
  /\ \A h \in Stoppers : stopper[h].pc # "idle" => stopper[h].project \in Projects
  /\ leftover \subseteq Plans /\ leaked \subseteq Ids
  /\ spent \in [runs : Nat, stops : Nat, deaths : Nat, refusals : Nat, containers : Nat]

----------------------------------------------------------------------------
HasClone(w, p) == run[w].plan = p /\ (run[w].cloned \/ run[w].pc = "cloning")

\* A run that works in a clone has it to itself and whole, from the clone to its
\* own removal: whichever workers have the same plan, however their set-up
\* fails and whatever they clean up, none enters, renews or removes the
\* directory of another.
CloneExclusive ==
  \A w \in Workers, p \in Plans : HasClone(w, p) =>
    /\ clone[p] = IF run[w].cloned THEN "whole" ELSE "partial"
    /\ \A v \in Workers \ {w} : ~HasClone(v, p)

\* A directory under volumes/runs has a run that will remove it, or is one of
\* those that nobody ever removes: their run died, failed between the clone and
\* its try block, or could not remove it.  (No later run of that plan can clone.)
CloneHasOwner ==
  \A p \in Plans : clone[p] # "absent" =>
    (\E w \in Workers : HasClone(w, p)) \/ p \in leftover

\* A container that runs has a run that will stop it, or is one whose owner died
\* or was refused by Docker: neither /stop at any moment of a run, nor two runs
\* of one project that share the name, leave a container running for nobody.
Owns(w, j) ==
  /\ run[w].plan \in Plans /\ JobOf(w) = j
  /\ \/ run[w].pc = "inspect" /\ run[w].found = container[j].id
     \/ run[w].pc \in {"prepare", "running", "find"} /\ run[w].held = container[j].id
     \/ run[w].pc = "stop" /\ run[w].found = container[j].id
RunningHasOwner ==
  \A j \in Projects : container[j].state = "running" =>
    (\E w \in Workers : Owns(w, j)) \/ container[j].id \in leaked
=============================================================================
