--------------------------- MODULE MCPhaseRunner ---------------------------
(* Instances of PhaseRunner for TLC.                                        *)
EXTENDS PhaseRunner, TLC

CONSTANTS a, b, c, d

\* Three plans in two waves in phase 1, one plan in phase 2.
MCPhaseOf == (a :> 1) @@ (b :> 1) @@ (c :> 1) @@ (d :> 2)
MCWaveOf == (a :> 1) @@ (b :> 1) @@ (c :> 2) @@ (d :> 1)

\* The defaults of config.ts, attended; everything on, sequential; the least.
Defaults == {"attended", "research", "plan_check", "verifier", "parallelization"}
MCConfigs == {Defaults, (Defaults \cup {"skip_discuss"}) \ {"parallelization"},
              {"auto_advance", "verifier", "parallelization"}}
=============================================================================
