-------------------------- MODULE MilestoneProgress -------------------------
(***************************************************************************)
(* What a milestone run promises, without steps, sessions, retries or      *)
(* gates: phases are completed in the order of their numbers, a run that   *)
(* has failed completes nothing until it is started again, and a run       *)
(* succeeds only when the roadmap has no phase left.                       *)
(***************************************************************************)
EXTENDS Naturals

CONSTANTS Phases

VARIABLES complete,  \* the phases that the roadmap marks complete
          outcome    \* of the run: "none" while it goes on

vars == <<complete, outcome>>

Init == /\ complete \in SUBSET Phases
        /\ outcome = "none"

CompletePhase(p) == /\ outcome = "none"
                    /\ p \notin complete
                    /\ \A q \in Phases : q < p => q \in complete
                    /\ complete' = complete \cup {p}
                    /\ UNCHANGED outcome

Succeed == /\ outcome = "none"
           /\ complete = Phases
           /\ outcome' = "success"
           /\ UNCHANGED complete

Fail == /\ outcome = "none"
        /\ outcome' = "failure"
        /\ UNCHANGED complete

Restart == /\ outcome = "failure"
           /\ outcome' = "none"
           /\ UNCHANGED complete

Next == (\E p \in Phases : CompletePhase(p)) \/ Succeed \/ Fail \/ Restart

Spec == Init /\ [][Next]_vars
=============================================================================
