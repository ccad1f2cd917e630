---------------------------- MODULE Components_proofs ----------------------------
(***************************************************************************)
(* The components side by side (MCComponents): each of them behaves as its     *)
(* own specification says, so that what is proved of a component holds there. *)
(***************************************************************************)
EXTENDS MCComponents, RunWorkspace_proofs, Secrets_proofs, Onboarding_proofs,
        SmallComponents_proofs

\* What is said of the components side by side is said of each of them: every
\* behaviour of MCComponents is, in the variables of a component, one of that
\* component, which may be the one that moves or not.
THEOREM SideBySide ==
  Spec => /\ WorkspaceSpec /\ SecretsSpec /\ OnboardingSpec /\ ThrottleSpec
          /\ RunEventsSpec /\ InitRunSpec /\ PlanParserSpec /\ VaultSpec
<1>1. Init => /\ WorkspaceInit /\ SecretsInit /\ OnboardingInit /\ ThrottleInit
              /\ RunEventsInit /\ InitRunInit /\ PlanParserInit /\ VaultInit
  BY DEF Init
<1>2. [Next]_<<componentVars, focus>> => [WorkspaceNext]_workspaceVars
  BY DEF Next, componentVars
<1>3. [Next]_<<componentVars, focus>> => [SecretsNext]_secretsVars
  BY DEF Next, componentVars
<1>4. [Next]_<<componentVars, focus>> => [OnboardingNext]_onboardingVars
  BY DEF Next, componentVars
<1>5. [Next]_<<componentVars, focus>> => [ThrottleNext]_throttleVars
  BY DEF Next, componentVars
<1>6. [Next]_<<componentVars, focus>> => [RunEventsNext]_runEventsVars
  BY DEF Next, componentVars
<1>7. [Next]_<<componentVars, focus>> => [InitRunNext]_initRunVars
  BY DEF Next, componentVars
<1>8. [Next]_<<componentVars, focus>> => [PlanParserNext]_planParserVars
  BY DEF Next, componentVars
<1>9. [Next]_<<componentVars, focus>> => [VaultNext]_vaultVars
  BY DEF Next, componentVars
<1> QED
  BY <1>1, <1>2, <1>3, <1>4, <1>5, <1>6, <1>7, <1>8, <1>9, PTL
     DEF Spec, WorkspaceSpec, SecretsSpec, OnboardingSpec, ThrottleSpec, RunEventsSpec, InitRunSpec, PlanParserSpec, VaultSpec

\* TypeOK: every variable of every component keeps its type.
THEOREM ComponentsTypeCorrect == Spec => []TypeOK
BY SideBySide, WorkspaceTypeCorrect, SecretsTypeCorrect, OnboardingTypeCorrect, ThrottleTypeCorrect, RunEventsTypeCorrect, InitRunTypeCorrect, PlanParserTypeCorrect, VaultTypeCorrect, PTL DEF TypeOK
=============================================================================
