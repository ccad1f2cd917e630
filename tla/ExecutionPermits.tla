-------------------------- MODULE ExecutionPermits --------------------------
(***************************************************************************)
(* What the queueing of plans promises, without handlers, jobs, workers or *)
(* processes: a plan is started only on a permit, and a permit starts it   *)
(* once.  A permit is granted by an approval, a retry or the recovery, and *)
(* withdrawn by a stop, a rejection or a failure.                          *)
(***************************************************************************)
EXTENDS Naturals

CONSTANTS Plans

VARIABLES permitted,  \* the plans that may be started
          starts      \* how many times each plan was started

Init == /\ permitted = {}
        /\ starts = [p \in Plans |-> 0]

Grant(p) == /\ permitted' = permitted \cup {p}
            /\ UNCHANGED starts

Withdraw(p) == /\ permitted' = permitted \ {p}
               /\ UNCHANGED starts

Start(p) == /\ p \in permitted
            /\ permitted' = permitted \ {p}
            /\ starts' = [starts EXCEPT ![p] = @ + 1]

Next == \E p \in Plans : Grant(p) \/ Withdraw(p) \/ Start(p)

Spec == Init /\ [][Next]_<<permitted, starts>>
=============================================================================
