----------------------------- MODULE MCComponents -----------------------------
(***************************************************************************)
(* The components that have no step in common with one another, checked side  *)
(* by side: every behaviour is one of one of them, chosen at the beginning    *)
(* (focus), while the others stay as they begin.  Their interleavings would   *)
(* show nothing, for they share no variable.                                 *)
(***************************************************************************)
EXTENDS RunWorkspace, Secrets, Onboarding, ChatThrottle, RunEvents, InitRun,
        PlanParser, VaultSync

CONSTANT j1

VARIABLE focus   \* the component that moves

componentVars ==
  <<workspaceVars, secretsVars, onboardingVars, throttleVars, runEventsVars,
    initRunVars, planParserVars, vaultVars>>

MCProjectOf == [p \in Plans |-> j1]

Components ==
  {"workspace", "secrets", "onboarding", "throttle", "events", "init", "parser", "vault"}

\* What may vary at the beginning of a component varies only when it is the one
\* that moves.
Chosen(component, varied, fixed) == focus # component => varied = fixed

\* The handler that may throw stands behind the others, or before them; the
\* project has a slug or none.
EventSetUps ==
  {<<<<"vault", "cli", "other">>, TRUE>>, <<<<"other", "cli", "vault">>, FALSE>>}

Init ==
  /\ focus \in Components
  /\ WorkspaceInit /\ SecretsInit /\ OnboardingInit /\ ThrottleInit
  /\ RunEventsInit /\ InitRunInit /\ PlanParserInit /\ VaultInit
  /\ Chosen("onboarding", head, [d \in Dirs |-> 0])
  /\ IF focus = "events" THEN <<transports, vaultLog.slug>> \in EventSetUps
     ELSE transports = <<"vault", "cli", "other">> /\ ~vaultLog.slug
  /\ Chosen("init", hasGit, FALSE)

Next ==
  /\ UNCHANGED focus
  /\ \/ /\ focus = "workspace" /\ WorkspaceNext
        /\ UNCHANGED <<secretsVars, onboardingVars, throttleVars, runEventsVars,
                       initRunVars, planParserVars, vaultVars>>
     \/ /\ focus = "secrets" /\ SecretsNext
        /\ UNCHANGED <<workspaceVars, onboardingVars, throttleVars, runEventsVars,
                       initRunVars, planParserVars, vaultVars>>
     \/ /\ focus = "onboarding" /\ OnboardingNext
        /\ UNCHANGED <<workspaceVars, secretsVars, throttleVars, runEventsVars,
                       initRunVars, planParserVars, vaultVars>>
     \/ /\ focus = "throttle" /\ ThrottleNext
        /\ UNCHANGED <<workspaceVars, secretsVars, onboardingVars, runEventsVars,
                       initRunVars, planParserVars, vaultVars>>
     \/ /\ focus = "events" /\ RunEventsNext
        /\ UNCHANGED <<workspaceVars, secretsVars, onboardingVars, throttleVars,
                       initRunVars, planParserVars, vaultVars>>
     \/ /\ focus = "init" /\ InitRunNext
        /\ UNCHANGED <<workspaceVars, secretsVars, onboardingVars, throttleVars,
                       runEventsVars, planParserVars, vaultVars>>
     \/ /\ focus = "parser" /\ PlanParserNext
        /\ UNCHANGED <<workspaceVars, secretsVars, onboardingVars, throttleVars,
                       runEventsVars, initRunVars, vaultVars>>
     \/ /\ focus = "vault" /\ VaultNext
        /\ UNCHANGED <<workspaceVars, secretsVars, onboardingVars, throttleVars,
                       runEventsVars, initRunVars, planParserVars>>

Spec == Init /\ [][Next]_<<componentVars, focus>>

\* Every variable of every component keeps its type.
TypeOK ==
  /\ WorkspaceTypeOK /\ SecretsTypeOK /\ OnboardingTypeOK /\ ThrottleTypeOK
  /\ RunEventsTypeOK /\ InitRunTypeOK /\ PlanParserTypeOK /\ VaultTypeOK
=============================================================================
