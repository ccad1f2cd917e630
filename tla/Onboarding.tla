------------------------------ MODULE Onboarding ------------------------------
(***************************************************************************)
(* Onboarding of a repository: POST /internal/workspaces/init               *)
(* (WorkspaceController, WorkspaceOnboardingService), the index of its      *)
(* working copy and its incremental sync (RepoIndexerService), next to the   *)
(* POST, PATCH and DELETE of projects (ProjectService) and to whoever moves the    *)
(* HEAD of the working copy.  Every await is a step: requests do not wait    *)
(* for each other, and nothing is held between two of them but a copy.       *)
(*                                                                         *)
(* The content of a working copy is that of its HEAD; what is not committed  *)
(* is left out, for sync watches HEAD only.  An index is the set of commits  *)
(* its reads of the working copy have met.                                  *)
(***************************************************************************)
EXTENDS Naturals, FiniteSets

CONSTANTS
  Slugs,          \* slugs of projects
  Dirs,           \* workspacePaths
  Requests,       \* requests that may be in flight together
  NoSlug,         \* no slug
  NoDir,          \* no directory
  MaxRows,        \* bound: projects created
  MaxCommits,     \* bound: commits
  MaxMoves,       \* bound: moves of a HEAD
  MaxRequests     \* bound: requests

ASSUME OnboardingAssumption ==
  /\ NoSlug \notin Slugs /\ NoDir \notin Dirs
  /\ MaxRows \in Nat /\ MaxCommits \in Nat \ {0}
  /\ MaxMoves \in Nat /\ MaxRequests \in Nat

VARIABLES
  head,      \* the HEAD of each working copy, 0 where there is none yet
  projects,  \* rows of `projects' by identifier: the slug, NoSlug for none
  snapshots, \* rows of `workspace_snapshots' by project (mixed: history, see Updated)
  request,   \* what each request has reached and what it holds
  newest,    \* the newest commit there is
  quitHeads, \* history: <<dir, commit>>, commits a HEAD left while being indexed
  used       \* what has been used of the bounds, and of row identifiers

onboardingVars == <<head, projects, snapshots, request, newest, quitHeads, used>>

----------------------------------------------------------------------------
ProjectIds == 1..MaxRows
Commits == 1..MaxCommits
NoSnapshot == [id |-> 0, dir |-> NoDir, sha |-> 0, index |-> {}, mixed |-> FALSE]
Idle == [op |-> "none", pc |-> "idle", slug |-> NoSlug, dir |-> NoDir, project |-> 0,
         sha |-> 0, seen |-> {}, row |-> NoSnapshot]
WithSlug(s) == {i \in ProjectIds : projects[i] = s}

OnboardingInit ==
  /\ head \in [Dirs -> {0, 1}]
  /\ projects = [i \in ProjectIds |-> NoSlug]
  /\ snapshots = [i \in ProjectIds |-> NoSnapshot]
  /\ request = [r \in Requests |-> Idle]
  /\ newest = 1
  /\ quitHeads = {}
  /\ used = [moves |-> 0, requests |-> 0, ids |-> 0, rows |-> 0]

Reach(r, pc) == request' = [request EXCEPT ![r].pc = pc]
Reply(r) == request' = [request EXCEPT ![r] = Idle]   \* an answer or an error
Begin(r, new) ==
  /\ request[r] = Idle
  /\ used.requests < MaxRequests
  /\ used' = [used EXCEPT !.requests = @ + 1]
  /\ request' = [request EXCEPT ![r] = new]

----------------------------------------------------------------------------
(* initWorkspace, the body of POST init.                                    *)

\* With a repoUrl the repository is cloned first.
BeginInit(r, s, d) ==
  /\ \E repoUrl \in BOOLEAN :
       Begin(r, [Idle EXCEPT !.op = "init", !.slug = s, !.dir = d,
                             !.pc = IF repoUrl THEN "clone" ELSE "validate"])
  /\ UNCHANGED <<head, projects, snapshots, newest, quitHeads>>

\* git clone refuses a directory with something in it, also what an earlier
\* attempt of the same onboarding has left there.
CloneRepo(r) ==
  /\ request[r].pc = "clone"
  /\ \/ /\ head[request[r].dir] = 0
        /\ \E c \in 1..newest : head' = [head EXCEPT ![request[r].dir] = c]
        /\ Reach(r, "validate")
     \/ /\ head[request[r].dir] # 0
        /\ Reply(r) /\ UNCHANGED head
  /\ UNCHANGED <<projects, snapshots, newest, quitHeads, used>>

\* validateRepo: HEAD is read here, before anything of the content.
ValidateRepo(r) ==
  /\ request[r].pc = "validate"
  /\ IF head[request[r].dir] = 0 THEN Reply(r)
     ELSE request' = [request EXCEPT ![r].pc = "project", ![r].sha = head[request[r].dir]]
  /\ UNCHANGED <<head, projects, snapshots, newest, quitHeads, used>>

\* findOne by slug, in initWorkspace and in create, for which a slug that is
\* taken is a conflict.
FindProject(r) ==
  /\ request[r].pc = "project"
  /\ \/ \E i \in WithSlug(request[r].slug) :
          IF request[r].op = "create" THEN Reply(r)
          ELSE request' = [request EXCEPT ![r].pc = "walk", ![r].project = i]
     \/ WithSlug(request[r].slug) = {} /\ Reach(r, "insert")
  /\ UNCHANGED <<head, projects, snapshots, newest, quitHeads, used>>

\* Mutant: the check of create and initWorkspace is all there is: no UNIQUE slug.
InsertProject_Always(r) ==
  /\ request[r].pc = "insert"
  /\ LET i == used.ids + 1
     IN /\ i \in ProjectIds
        /\ projects' = [projects EXCEPT ![i] = request[r].slug]
        /\ IF request[r].op = "create" THEN Reply(r)
           ELSE request' = [request EXCEPT ![r].pc = "walk", ![r].project = i]
        /\ used' = [used EXCEPT !.ids = i]
  /\ UNCHANGED <<head, snapshots, newest, quitHeads>>

\* The slug is unique: the slower of two that create a new project fails.
InsertProject(r) ==
  /\ request[r].pc = "insert"
  /\ LET i == used.ids + 1
     IN \/ /\ WithSlug(request[r].slug) = {} /\ i \in ProjectIds
           /\ projects' = [projects EXCEPT ![i] = request[r].slug]
           /\ IF request[r].op = "create" THEN Reply(r)
              ELSE request' = [request EXCEPT ![r].pc = "walk", ![r].project = i]
           /\ used' = [used EXCEPT !.ids = i]
        \/ /\ WithSlug(request[r].slug) # {}
           /\ Reply(r) /\ UNCHANGED <<projects, used>>
  /\ UNCHANGED <<head, snapshots, newest, quitHeads>>

\* bootstrap reads the working copy twice: the tree, then the manifests.
WalkTree(r) ==
  /\ request[r].pc = "walk"
  /\ request' = [request EXCEPT ![r].pc = "manifests", ![r].seen = {head[request[r].dir]}]
  /\ UNCHANGED <<head, projects, snapshots, newest, quitHeads, used>>

DetectManifests(r) ==
  /\ request[r].pc = "manifests"
  /\ request' = [request EXCEPT ![r].seen = @ \cup {head[request[r].dir]},
                                ![r].pc = IF request[r].op = "init" THEN "findRow" ELSE "save"]
  /\ UNCHANGED <<head, projects, snapshots, newest, quitHeads, used>>

\* persistSnapshot: findOne, then save what was found or a new row.
FindSnapshot(r) ==
  /\ request[r].pc = "findRow"
  /\ request' = [request EXCEPT ![r].pc = "save", ![r].row = snapshots[request[r].project]]
  /\ UNCHANGED <<head, projects, snapshots, newest, quitHeads, used>>

\* Mutant: the snapshot is labelled with the HEAD of the moment it is saved.
RowOf_HeadNow(r, id) ==
  [id |-> id, dir |-> request[r].dir, sha |-> head[request[r].dir],
   index |-> request[r].seen, mixed |-> FALSE]

RowOf(r, id) == [id |-> id, dir |-> request[r].dir, sha |-> request[r].sha,
                 index |-> request[r].seen, mixed |-> FALSE]

\* TypeORM's save: a row that was found before is selected again by its
\* identifier, to see what differs.
SelectSnapshot(r) ==
  /\ request[r].pc = "save"
  /\ LET row == request[r].row
         base == snapshots[request[r].project]
     IN IF row # NoSnapshot /\ base.id = row.id
        THEN request' = [request EXCEPT ![r].pc = "updateRow", ![r].row = base]
        ELSE Reach(r, "insertRow")
  /\ UNCHANGED <<head, projects, snapshots, newest, quitHeads, used>>

\* INSERT of a new row, or again of one that has gone: projectId is unique and
\* refers to the project.
InsertSnapshot(r) ==
  /\ request[r].pc = "insertRow"
  /\ LET i == request[r].project
         row == request[r].row
         id == IF row = NoSnapshot THEN used.rows + 1 ELSE row.id
     IN \/ /\ projects[i] # NoSlug /\ snapshots[i] = NoSnapshot
           /\ snapshots' = [snapshots EXCEPT ![i] = RowOf(r, id)]
           /\ used' = [used EXCEPT !.rows = @ + 1]
        \/ /\ projects[i] = NoSlug \/ snapshots[i] # NoSnapshot
           /\ UNCHANGED <<snapshots, used>>
  /\ Reply(r)
  /\ UNCHANGED <<head, projects, newest, quitHeads>>

\* What an UPDATE makes of a row: the columns that differ from those selected are
\* written, the others stay.  The index always differs: it carries its time.
Updated(current, selected, own) ==
  LET row == [own EXCEPT
                !.dir = IF own.dir = selected.dir THEN current.dir ELSE own.dir,
                !.sha = IF own.sha = selected.sha THEN current.sha ELSE own.sha]
  IN [row EXCEPT !.mixed = (row # own)]

\* UPDATE by the identifier; nothing happens when the row has gone.
UpdateSnapshot(r) ==
  /\ request[r].pc = "updateRow"
  /\ LET i == request[r].project
         row == request[r].row
     IN snapshots' = IF snapshots[i].id = row.id
                     THEN [snapshots EXCEPT ![i] = Updated(snapshots[i], row, RowOf(r, row.id))]
                     ELSE snapshots
  /\ Reply(r)
  /\ UNCHANGED <<head, projects, newest, quitHeads, used>>

----------------------------------------------------------------------------
(* sync.                                                                    *)
BeginSync(r, i) ==
  /\ Begin(r, [Idle EXCEPT !.op = "sync", !.pc = "load", !.project = i])
  /\ UNCHANGED <<head, projects, snapshots, newest, quitHeads>>

LoadSnapshot(r) ==
  /\ request[r].pc = "load"
  /\ LET row == snapshots[request[r].project]
     IN IF row = NoSnapshot THEN Reply(r)
        ELSE request' = [request EXCEPT ![r].pc = "compare", ![r].row = row,
                                        ![r].dir = row.dir]
  /\ UNCHANGED <<head, projects, snapshots, newest, quitHeads, used>>

\* HEAD as it is against HEAD as it was indexed: equal means up to date.
CompareHead(r) ==
  /\ request[r].pc = "compare"
  /\ IF head[request[r].dir] = request[r].row.sha THEN Reply(r)
     ELSE request' = [request EXCEPT ![r].pc = "walk", ![r].sha = head[request[r].dir]]
  /\ UNCHANGED <<head, projects, snapshots, newest, quitHeads, used>>

----------------------------------------------------------------------------
(* POST of a project: create.                                               *)
BeginCreate(r, s) ==
  /\ Begin(r, [Idle EXCEPT !.op = "create", !.pc = "project", !.slug = s])
  /\ UNCHANGED <<head, projects, snapshots, newest, quitHeads>>

(* PATCH and DELETE of a project: findOne, then the statement.              *)
BeginChange(r, op, i) ==
  /\ projects[i] # NoSlug
  /\ Begin(r, [Idle EXCEPT !.op = op, !.pc = "change", !.project = i, !.slug = projects[i]])
  /\ UNCHANGED <<head, projects, snapshots, newest, quitHeads>>

\* save inserts the project again if it was removed in between, unless its slug
\* has another one by now.
UpdateProject(r) ==
  /\ request[r].pc = "change" /\ request[r].op = "patch"
  /\ projects' = IF WithSlug(request[r].slug) = {}
                 THEN [projects EXCEPT ![request[r].project] = request[r].slug]
                 ELSE projects
  /\ Reply(r)
  /\ UNCHANGED <<head, snapshots, newest, quitHeads, used>>

\* The snapshot goes with its project (ON DELETE CASCADE).
RemoveProject(r) ==
  /\ request[r].pc = "change" /\ request[r].op = "delete"
  /\ projects' = [projects EXCEPT ![request[r].project] = NoSlug]
  /\ snapshots' = [snapshots EXCEPT ![request[r].project] = NoSnapshot]
  /\ Reply(r)
  /\ UNCHANGED <<head, newest, quitHeads, used>>

----------------------------------------------------------------------------
(* The working copy moves on: a commit, a pull, or a checkout of something  *)
(* older.  Commits that a request has read as HEAD and is indexing are noted.*)
MoveHead(d, c) ==
  /\ head[d] # 0 /\ c # head[d]
  /\ used.moves < MaxMoves
  /\ used' = [used EXCEPT !.moves = @ + 1]
  /\ c <= newest + 1
  /\ newest' = IF c > newest THEN c ELSE newest
  /\ head' = [head EXCEPT ![d] = c]
  /\ quitHeads' = IF \E r \in Requests :
                    /\ request[r].dir = d /\ request[r].sha = head[d]
                    /\ request[r].pc \notin {"findRow", "save", "insertRow", "updateRow"}
                  THEN quitHeads \cup {<<d, head[d]>>} ELSE quitHeads
  /\ UNCHANGED <<projects, snapshots, request>>

OnboardingNext ==
  \/ \E r \in Requests :
       \/ \E s \in Slugs, d \in Dirs : BeginInit(r, s, d)
       \/ \E s \in Slugs : BeginCreate(r, s)
       \/ CloneRepo(r) \/ ValidateRepo(r) \/ FindProject(r) \/ InsertProject(r)
       \/ WalkTree(r) \/ DetectManifests(r) \/ FindSnapshot(r)
       \/ SelectSnapshot(r) \/ InsertSnapshot(r) \/ UpdateSnapshot(r)
       \/ \E i \in ProjectIds : \/ BeginSync(r, i)
                                \/ BeginChange(r, "patch", i)
                                \/ BeginChange(r, "delete", i)
       \/ LoadSnapshot(r) \/ CompareHead(r) \/ UpdateProject(r) \/ RemoveProject(r)
  \/ \E d \in Dirs, c \in Commits : MoveHead(d, c)

OnboardingSpec == OnboardingInit /\ [][OnboardingNext]_onboardingVars

----------------------------------------------------------------------------
Snapshot == [id : Nat \ {0}, dir : Dirs, sha : Commits, index : SUBSET Commits,
             mixed : BOOLEAN]

\* Every variable keeps its type; a request that indexes has read a HEAD.
OnboardingTypeOK ==
  /\ head \in [Dirs -> Commits \cup {0}]
  /\ projects \in [ProjectIds -> Slugs \cup {NoSlug}]
  /\ snapshots \in [ProjectIds -> Snapshot \cup {NoSnapshot}]
  /\ request \in [Requests ->
       [op : {"none", "init", "sync", "create", "patch", "delete"},
        pc : {"idle", "clone", "validate", "project", "insert", "walk", "manifests",
              "findRow", "save", "insertRow", "updateRow", "load", "compare", "change"},
        slug : Slugs \cup {NoSlug}, dir : Dirs \cup {NoDir}, project : ProjectIds \cup {0},
        sha : Commits \cup {0}, seen : SUBSET Commits, row : Snapshot \cup {NoSnapshot}]]
  /\ newest \in Commits
  /\ quitHeads \subseteq Dirs \X Commits
  /\ used \in [moves : Nat, requests : Nat, ids : ProjectIds \cup {0}, rows : Nat]

----------------------------------------------------------------------------
\* What sync calls up to date is indexed as it is: a snapshot whose sha is the
\* HEAD of its working copy has the content of that commit and of no other,
\* whatever inits, syncs and deletions overlap with the moves of HEAD.  There are
\* two exceptions: HEAD has left that commit while it was being indexed and has
\* come back to it, and the last UPDATE of the row has left it a directory or a
\* sha that another request wrote after the SELECT of this one (mixed).
UpToDate(row) ==
  row # NoSnapshot /\ head[row.dir] = row.sha =>
    row.index = {row.sha} \/ <<row.dir, row.sha>> \in quitHeads \/ row.mixed
UpToDateIsIndexed ==
  /\ \A i \in ProjectIds : UpToDate(snapshots[i])
  /\ \A r \in Requests : request[r].pc = "compare" => UpToDate(request[r].row)

\* A snapshot never outlives its project nor moves to another one, and a slug
\* has one project, although an init, a sync or a PATCH may write after the
\* project was removed, and two inits may create it together.
SnapshotHasProject ==
  /\ \A i \in ProjectIds : snapshots[i] # NoSnapshot => projects[i] # NoSlug
  /\ \A s \in Slugs : Cardinality(WithSlug(s)) <= 1
=============================================================================
