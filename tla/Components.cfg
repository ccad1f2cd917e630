SPECIFICATION Spec
CONSTANTS
 j1 = j1
 Plans = {p1, p2}
 Projects = {j1}
 ProjectOf <- MCProjectOf
 Workers = {w1, w2}
 Stoppers = {h1}
 NoPlan = NoPlan
 MaxRuns = 2
 MaxStops = 1
 MaxDeaths = 1
 MaxRefusals = 1
 MaxContainers = 2
 SecretKeys = {k1, g1}
 Scoped = {k1}
 Users = {u1, u2}
 NoSecret = NoSecret
 MaxSecrets = 2
 MaxCalls = 4
 MaxDbRefusals = 1
 MaxSecretCrashes = 1
 Slugs = {s1}
 Dirs = {d1}
 Requests = {r1, r2}
 NoSlug = NoSlug
 NoDir = NoDir
 MaxRows = 2
 MaxCommits = 2
 MaxMoves = 2
 MaxRequests = 3
 AllowedChats = {a}
 WINDOW = 3
 MAX_REQUESTS = 2
 MaxTime = 6
 MaxPerTick = 3
 PhaseNumbers = {"1", "2"}
 SessionIds = {"s1", "s2"}
 CostsUsd = {1, 2}
 MessageSubtypes = {"task_progress"}
 MessageKinds = {"user"}
 MaxEvents = 3
 MaxToolBlocks = 1
 MaxWriteFailures = 1
 ResearchTypes = {"STACK", "FEATURES", "PITFALLS"}
 MaxInits = 2
 MaxInitCrashes = 1
 Keys = {"wave", "path"}
 MaxIndent = 3
 MaxLines = 5
 PhaseContexts = {"01-CONTEXT"}
 Writers = {v1, v2}
 MaxEdits = 1
INVARIANTS
 CloneExclusive
 CloneHasOwner
 RunningHasOwner
 VersionsAreAudited
 ReadIsFresh
 AccessIsAudited
 UpToDateIsIndexed
 SnapshotHasProject
 BurstBounded
 RefusalIsEarned
 NoneIsSkipped
 LoggedInItsPhase
 CostsAddUp
 ReportIsHonest
 RefusedHasConfig
 ProjectIsKept
 ParsedByIndent
 UserEditIsKept
 TypeOK
CHECK_DEADLOCK FALSE
