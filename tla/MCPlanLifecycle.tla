-------------------------- MODULE MCPlanLifecycle --------------------------
(* Instances of PlanLifecycle for TLC.                                      *)
EXTENDS PlanLifecycle, TLC

CONSTANTS proc1, proc2

\* Every command handler runs in the first process: one bot polls Telegram.
MCHome == [c \in Cmds |-> proc1]

\* Two processes with one command and a crash; or one process
\* with two command handlers in flight and a crash or a refused call.
MCSystem ==
  /\ Init
  /\ \/ /\ \A q \in Procs : up[q] = "down"
        /\ cmds = MaxCmds - 1 /\ crashes = 0 /\ faults = MaxFaults
     \/ /\ \A q \in Procs : up[q] = "absent" <=> q # proc1
        /\ cmds = 0 /\ crashes + faults = MaxCrashes + MaxFaults - 1
MCSystemSpec == MCSystem /\ [][Next]_vars /\ Fairness

\* The processes are there and nothing of the bounds is used.
MCWhole ==
  /\ Init
  /\ \A q \in Procs : up[q] = "down"
  /\ cmds = 0 /\ crashes = 0 /\ faults = 0
MCSpec == MCWhole /\ [][Next]_vars
MCFairSpec == MCSpec /\ Fairness
=============================================================================
