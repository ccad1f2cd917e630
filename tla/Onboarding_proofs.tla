--------------------------- MODULE Onboarding_proofs ---------------------------
(***************************************************************************)
(* Proofs about Onboarding, for any slugs, directories, requests and bounds. *)
(***************************************************************************)
EXTENDS Onboarding, FiniteSetTheorems, TLAPS

(***************************************************************************)
(* The inductive invariant.                                                *)
(***************************************************************************)
PCs == {"idle", "clone", "validate", "project", "insert", "walk", "manifests",
        "findRow", "save", "insertRow", "updateRow", "load", "compare", "change"}
RequestRecord ==
  [op : {"none", "init", "sync", "create", "patch", "delete"}, pc : PCs,
   slug : Slugs \cup {NoSlug}, dir : Dirs \cup {NoDir}, project : ProjectIds \cup {0},
   sha : Commits \cup {0}, seen : SUBSET Commits, row : Snapshot \cup {NoSnapshot}]

Seen == {"findRow", "save", "insertRow", "updateRow"}
WithProject == Seen \cup {"walk", "manifests", "load", "compare", "change"}

\* From the read of HEAD to the snapshot.
Indexing(q) ==
  \/ q.pc \in {"project", "insert"} /\ q.op = "init"
  \/ q.pc \in Seen \cup {"walk", "manifests"}

\* What a request has, by the await that it has reached.
Holds(q) ==
  /\ q.pc \in {"clone", "validate"} => q.op = "init" /\ q.dir \in Dirs
  /\ q.pc \in {"clone", "validate", "project", "insert", "change"} => q.slug \in Slugs
  /\ q.pc \in {"project", "insert"} => q.op \in {"init", "create"}
  /\ q.pc \in WithProject => q.project \in ProjectIds
  /\ Indexing(q) => q.dir \in Dirs /\ q.sha \in Commits /\ head[q.dir] # 0
  /\ q.pc = "compare" => q.row \in Snapshot /\ q.dir = q.row.dir /\ head[q.row.dir] # 0
  /\ q.pc = "updateRow" => q.row \in Snapshot

\* A row is of the commit it names, or HEAD left that commit meanwhile, or an
\* UPDATE has mixed it.
Indexed(row) ==
  row # NoSnapshot => row.index = {row.sha} \/ <<row.dir, row.sha>> \in quitHeads \/ row.mixed

\* The same of what a request has seen so far.
Sees(q) ==
  /\ Indexing(q) =>
       \/ <<q.dir, q.sha>> \in quitHeads
       \/ q.pc \in {"project", "insert", "walk"} /\ head[q.dir] = q.sha
       \/ q.pc = "manifests" /\ head[q.dir] = q.sha /\ q.seen = {q.sha}
       \/ q.pc \in Seen /\ q.seen = {q.sha}
  /\ q.pc = "compare" => Indexed(q.row)

Good(q) == q \in RequestRecord /\ Holds(q) /\ Sees(q)

\* Projects and snapshots.
RowsInv ==
  /\ \A i \in ProjectIds : snapshots[i] # NoSnapshot =>
       projects[i] # NoSlug /\ head[snapshots[i].dir] # 0
  /\ \A i \in ProjectIds : Indexed(snapshots[i])
  /\ \A i, j \in ProjectIds : projects[i] = projects[j] /\ projects[i] # NoSlug => i = j

RestTypeOK ==
  /\ head \in [Dirs -> Commits \cup {0}]
  /\ projects \in [ProjectIds -> Slugs \cup {NoSlug}]
  /\ snapshots \in [ProjectIds -> Snapshot \cup {NoSnapshot}]
  /\ newest \in Commits
  /\ quitHeads \subseteq Dirs \X Commits
  /\ used \in [moves : Nat, requests : Nat, ids : ProjectIds \cup {0}, rows : Nat]

RequestsInv == DOMAIN request = Requests /\ request = [r \in Requests |-> request[r]]
               /\ \A r \in Requests : Good(request[r])

OnboardingInv == RestTypeOK /\ RowsInv /\ RequestsInv

LEMMA Nothing ==
  /\ NoSnapshot \notin Snapshot
  /\ \A row \in Snapshot \cup {NoSnapshot} : row # NoSnapshot =>
       row \in Snapshot /\ row.dir \in Dirs /\ row.sha \in Commits /\ row.id # 0
BY OnboardingAssumption DEF Snapshot, NoSnapshot

LEMMA IdleIsGood == Good(Idle)
<1>1. Idle.pc = "idle" /\ Idle \in RequestRecord
  BY OnboardingAssumption DEF Idle, RequestRecord, PCs, NoSnapshot, Snapshot
<1> QED
  BY <1>1 DEF Good, Holds, Sees, Indexing, WithProject, Seen

LEMMA OnboardingInitInv == OnboardingInit => OnboardingInv
<1> SUFFICES ASSUME OnboardingInit PROVE OnboardingInv
  OBVIOUS
<1>1. 1 \in Commits /\ 0 \in Nat
  BY OnboardingAssumption DEF Commits
<1>2. RestTypeOK
  BY <1>1 DEF OnboardingInit, RestTypeOK
<1>3. RowsInv
  BY DEF OnboardingInit, RowsInv, Indexed
<1>4. RequestsInv
  BY IdleIsGood DEF OnboardingInit, RequestsInv
<1> QED
  BY <1>2, <1>3, <1>4 DEF OnboardingInv

(***************************************************************************)
(* Steps of one request.                                                   *)
(***************************************************************************)

\* A step that changes one request and what it depends on in no way.
LEMMA OneRequest ==
  ASSUME RequestsInv, NEW r \in Requests, NEW new, Good(new),
         request' = [request EXCEPT ![r] = new], UNCHANGED <<head, quitHeads>>
  PROVE  RequestsInv'
<1>1. \A q \in Requests : request'[q] = IF q = r THEN new ELSE request[q]
  BY DEF RequestsInv
<1>2. DOMAIN request' = Requests /\ request' = [q \in Requests |-> request'[q]]
  BY DEF RequestsInv
<1>3. ASSUME NEW q \in Requests PROVE Good(request[q])'
  <2>1. CASE q = r
    <3>1. request'[q] = new
      BY <1>1, <2>1
    <3>2. Good(new)'
      BY DEF Good, Holds, Sees, Indexed
    <3> QED
      BY <3>1, <3>2 DEF Good, Holds, Sees, Indexed, Indexing
  <2>2. CASE q # r
    <3>1. request'[q] = request[q] /\ Good(request[q])
      BY <1>1, <2>2 DEF RequestsInv
    <3> QED
      BY <3>1 DEF Good, Holds, Sees, Indexed, Indexing
  <2> QED
    BY <2>1, <2>2
<1> QED
  BY <1>2, <1>3 DEF RequestsInv

LEMMA RestStays ==
  ASSUME RestTypeOK, RowsInv, UNCHANGED <<head, projects, snapshots, newest, quitHeads>>,
         used' \in [moves : Nat, requests : Nat, ids : ProjectIds \cup {0}, rows : Nat]
  PROVE  RestTypeOK' /\ RowsInv'
BY DEF RestTypeOK, RowsInv, Indexed

LEMMA ReplyIsGood ==
  ASSUME RequestsInv, NEW r \in Requests, Reply(r), UNCHANGED <<head, quitHeads>>
  PROVE  RequestsInv'
BY OneRequest, IdleIsGood DEF Reply

LEMMA BeginInv ==
  ASSUME OnboardingInv, NEW r \in Requests,
         \/ \E s \in Slugs, d \in Dirs : BeginInit(r, s, d)
         \/ \E s \in Slugs : BeginCreate(r, s)
         \/ \E i \in ProjectIds : BeginSync(r, i) \/ BeginChange(r, "patch", i) \/ BeginChange(r, "delete", i)
  PROVE  OnboardingInv'
<1>1. /\ UNCHANGED <<head, projects, snapshots, newest, quitHeads>>
      /\ \E new : Begin(r, new)
  BY DEF BeginInit, BeginCreate, BeginSync, BeginChange
<1>2. RestTypeOK' /\ RowsInv'
  <2>1. used' \in [moves : Nat, requests : Nat, ids : ProjectIds \cup {0}, rows : Nat]
    BY <1>1 DEF Begin, OnboardingInv, RestTypeOK
  <2> QED
    BY <1>1, <2>1, RestStays DEF OnboardingInv
<1>3. \E new : Good(new) /\ request' = [request EXCEPT ![r] = new]
  <2>0. Idle \in RequestRecord
    BY IdleIsGood DEF Good
  <2>1. ASSUME NEW s \in Slugs, NEW d \in Dirs, NEW pc \in {"clone", "validate"},
               NEW new, new = [Idle EXCEPT !.op = "init", !.slug = s, !.dir = d, !.pc = pc]
        PROVE  Good(new)
    <3>1. new \in RequestRecord
      BY <2>0, <2>1 DEF RequestRecord, PCs
    <3>2. new.op = "init" /\ new.slug = s /\ new.dir = d /\ new.pc = pc
      BY <2>0, <2>1 DEF RequestRecord
    <3> QED
      BY <3>1, <3>2 DEF Good, Holds, Sees, Indexing, WithProject, Seen
  <2>2. ASSUME NEW s \in Slugs, NEW new, new = [Idle EXCEPT !.op = "create", !.pc = "project", !.slug = s]
        PROVE  Good(new)
    <3>1. new \in RequestRecord
      BY <2>0, <2>2 DEF RequestRecord, PCs
    <3>2. new.op = "create" /\ new.slug = s /\ new.pc = "project"
      BY <2>0, <2>2 DEF RequestRecord
    <3> QED
      BY <3>1, <3>2 DEF Good, Holds, Sees, Indexing, WithProject, Seen
  <2>3. ASSUME NEW i \in ProjectIds, NEW new, new = [Idle EXCEPT !.op = "sync", !.pc = "load", !.project = i]
        PROVE  Good(new)
    <3>1. new \in RequestRecord
      BY <2>0, <2>3 DEF RequestRecord, PCs
    <3>2. new.op = "sync" /\ new.project = i /\ new.pc = "load"
      BY <2>0, <2>3 DEF RequestRecord
    <3> QED
      BY <3>1, <3>2 DEF Good, Holds, Sees, Indexing, WithProject, Seen
  <2>4. ASSUME NEW i \in ProjectIds, NEW op \in {"patch", "delete"}, projects[i] # NoSlug,
               NEW new, new = [Idle EXCEPT !.op = op, !.pc = "change", !.project = i, !.slug = projects[i]]
        PROVE  Good(new)
    <3>0. projects[i] \in Slugs
      BY <2>4 DEF OnboardingInv, RestTypeOK
    <3>1. new \in RequestRecord
      BY <2>0, <2>4, <3>0 DEF RequestRecord, PCs
    <3>2. new.op = op /\ new.project = i /\ new.pc = "change" /\ new.slug = projects[i]
      BY <2>0, <2>4 DEF RequestRecord
    <3> QED
      BY <3>0, <3>1, <3>2 DEF Good, Holds, Sees, Indexing, WithProject, Seen
  <2>5. CASE \E s \in Slugs, d \in Dirs : BeginInit(r, s, d)
    BY <2>1, <2>5 DEF BeginInit, Begin
  <2>6. CASE \E s \in Slugs : BeginCreate(r, s)
    BY <2>2, <2>6 DEF BeginCreate, Begin
  <2>7. CASE \E i \in ProjectIds : BeginSync(r, i)
    BY <2>3, <2>7 DEF BeginSync, Begin
  <2>8. CASE \E i \in ProjectIds : BeginChange(r, "patch", i) \/ BeginChange(r, "delete", i)
    BY <2>4, <2>8 DEF BeginChange, Begin
  <2> QED
    BY <2>5, <2>6, <2>7, <2>8
<1>4. RequestsInv'
  BY <1>1, <1>3, OneRequest DEF OnboardingInv
<1> QED
  BY <1>2, <1>4 DEF OnboardingInv

\* Steps that only read.
LEMMA ReadInv ==
  ASSUME OnboardingInv, NEW r \in Requests,
         \/ ValidateRepo(r) \/ FindProject(r) \/ WalkTree(r) \/ DetectManifests(r)
         \/ FindSnapshot(r) \/ SelectSnapshot(r) \/ LoadSnapshot(r) \/ CompareHead(r)
  PROVE  OnboardingInv'
<1>1. UNCHANGED <<head, projects, snapshots, newest, quitHeads, used>>
  BY DEF ValidateRepo, FindProject, WalkTree, DetectManifests, FindSnapshot,
         SelectSnapshot, LoadSnapshot, CompareHead
<1>2. RestTypeOK' /\ RowsInv'
  BY <1>1, RestStays DEF OnboardingInv, RestTypeOK
<1>3. PICK q : q = request[r]
  OBVIOUS
<1>4. q \in RequestRecord /\ Holds(q) /\ Sees(q)
  BY <1>3 DEF OnboardingInv, RequestsInv, Good
<1>5. SUFFICES \/ Reply(r)
               \/ \E new : Good(new) /\ request' = [request EXCEPT ![r] = new]
  <2>1. RequestsInv'
    BY <1>1, <1>5, ReplyIsGood, OneRequest DEF OnboardingInv
  <2> QED
    BY <1>2, <2>1 DEF OnboardingInv
<1>6. /\ head \in [Dirs -> Commits \cup {0}] /\ projects \in [ProjectIds -> Slugs \cup {NoSlug}]
      /\ snapshots \in [ProjectIds -> Snapshot \cup {NoSnapshot}]
  BY DEF OnboardingInv, RestTypeOK
<1>7. CASE ValidateRepo(r)
  <2>1. /\ q.pc = "validate" /\ q.dir \in Dirs /\ q.op = "init" /\ q.slug \in Slugs
        /\ \/ Reply(r)
           \/ /\ head[q.dir] # 0
              /\ request' = [request EXCEPT ![r].pc = "project", ![r].sha = head[q.dir]]
    BY <1>3, <1>4, <1>7 DEF ValidateRepo, Holds
  <2>2. ASSUME head[q.dir] # 0, NEW new, new = [q EXCEPT !.pc = "project", !.sha = head[q.dir]]
        PROVE  Good(new)
    <3>1. head[q.dir] \in Commits
      BY <1>6, <2>1, <2>2
    <3>2. new \in RequestRecord
      BY <1>4, <2>2, <3>1 DEF RequestRecord, PCs
    <3>3. new.pc = "project" /\ new.op = "init" /\ new.slug = q.slug /\ new.dir = q.dir /\ new.sha = head[q.dir]
      BY <1>4, <2>1, <2>2 DEF RequestRecord
    <3> QED
      BY <2>1, <2>2, <3>1, <3>2, <3>3 DEF Good, Holds, Sees, Indexing, WithProject, Seen
  <2>3. head[q.dir] # 0 /\ request' = [request EXCEPT ![r].pc = "project", ![r].sha = head[q.dir]]
          => request' = [request EXCEPT ![r] = [q EXCEPT !.pc = "project", !.sha = head[q.dir]]]
    BY <1>3 DEF OnboardingInv, RequestsInv
  <2> QED
    BY <2>1, <2>2, <2>3
<1>8. CASE FindProject(r)
  <2>1. /\ q.pc = "project" /\ q.slug \in Slugs /\ q.op \in {"init", "create"}
        /\ \/ Reply(r)
           \/ /\ q.op # "create"
              /\ \E i \in ProjectIds : request' = [request EXCEPT ![r].pc = "walk", ![r].project = i]
           \/ request' = [request EXCEPT ![r].pc = "insert"]
    BY <1>3, <1>4, <1>8 DEF FindProject, Holds, WithSlug, Reach
  <2>2. ASSUME q.op # "create", NEW i \in ProjectIds, NEW new, new = [q EXCEPT !.pc = "walk", !.project = i]
        PROVE  Good(new)
    <3>1. new \in RequestRecord
      BY <1>4, <2>2 DEF RequestRecord, PCs
    <3>2. /\ new.pc = "walk" /\ new.op = q.op /\ new.slug = q.slug /\ new.dir = q.dir /\ new.sha = q.sha
          /\ new.project = i
      BY <1>4, <2>2 DEF RequestRecord
    <3> QED
      BY <1>4, <2>1, <2>2, <3>1, <3>2 DEF Good, Holds, Sees, Indexing, WithProject, Seen
  <2>3. ASSUME NEW new, new = [q EXCEPT !.pc = "insert"]
        PROVE  Good(new)
    <3>1. new \in RequestRecord
      BY <1>4, <2>3 DEF RequestRecord, PCs
    <3>2. new.pc = "insert" /\ new.op = q.op /\ new.slug = q.slug /\ new.dir = q.dir /\ new.sha = q.sha
      BY <1>4, <2>3 DEF RequestRecord
    <3> QED
      BY <1>4, <2>1, <3>1, <3>2 DEF Good, Holds, Sees, Indexing, WithProject, Seen
  <2>4. ASSUME NEW i \in ProjectIds, request' = [request EXCEPT ![r].pc = "walk", ![r].project = i]
        PROVE  request' = [request EXCEPT ![r] = [q EXCEPT !.pc = "walk", !.project = i]]
    BY <1>3, <2>4 DEF OnboardingInv, RequestsInv
  <2>5. ASSUME request' = [request EXCEPT ![r].pc = "insert"]
        PROVE  request' = [request EXCEPT ![r] = [q EXCEPT !.pc = "insert"]]
    BY <1>3, <2>5 DEF OnboardingInv, RequestsInv
  <2> QED
    BY <2>1, <2>2, <2>3, <2>4, <2>5
<1>9. CASE WalkTree(r)
  <2>1. q.pc = "walk" /\ request' = [request EXCEPT ![r].pc = "manifests", ![r].seen = {head[q.dir]}]
    BY <1>3, <1>9 DEF WalkTree
  <2>2. q.dir \in Dirs /\ q.sha \in Commits /\ head[q.dir] \in Commits /\ q.project \in ProjectIds
    BY <1>4, <1>6, <2>1 DEF Holds, Indexing, WithProject, Seen
  <2>3. PICK new : new = [q EXCEPT !.pc = "manifests", !.seen = {head[q.dir]}]
    OBVIOUS
  <2>4. new \in RequestRecord
    BY <1>4, <2>2, <2>3 DEF RequestRecord, PCs
  <2>5. /\ new.pc = "manifests" /\ new.dir = q.dir /\ new.sha = q.sha /\ new.project = q.project
        /\ new.seen = {head[q.dir]}
    BY <1>4, <2>3 DEF RequestRecord
  <2>6. Good(new)
    BY <1>4, <2>1, <2>2, <2>4, <2>5 DEF Good, Holds, Sees, Indexing, WithProject, Seen
  <2>7. request' = [request EXCEPT ![r] = new]
    BY <1>3, <2>1, <2>3 DEF OnboardingInv, RequestsInv
  <2> QED
    BY <2>6, <2>7
<1>10. CASE DetectManifests(r)
  <2>1. /\ q.pc = "manifests"
        /\ \E pc \in {"findRow", "save"} :
             request' = [request EXCEPT ![r].seen = q.seen \cup {head[q.dir]}, ![r].pc = pc]
    BY <1>3, <1>10 DEF DetectManifests
  <2>2. q.dir \in Dirs /\ q.sha \in Commits /\ head[q.dir] \in Commits /\ q.project \in ProjectIds
    BY <1>4, <1>6, <2>1 DEF Holds, Indexing, WithProject, Seen
  <2>3. PICK pc \in {"findRow", "save"} :
          request' = [request EXCEPT ![r].seen = q.seen \cup {head[q.dir]}, ![r].pc = pc]
    BY <2>1
  <2>4. PICK new : new = [q EXCEPT !.seen = q.seen \cup {head[q.dir]}, !.pc = pc]
    OBVIOUS
  <2>5. new \in RequestRecord
    BY <1>4, <2>2, <2>4 DEF RequestRecord, PCs
  <2>6. /\ new.pc = pc /\ new.dir = q.dir /\ new.sha = q.sha /\ new.project = q.project
        /\ new.seen = q.seen \cup {head[q.dir]}
    BY <1>4, <2>4 DEF RequestRecord
  <2>7. Good(new)
    BY <1>4, <2>1, <2>2, <2>5, <2>6 DEF Good, Holds, Sees, Indexing, WithProject, Seen
  <2>8. request' = [request EXCEPT ![r] = new]
    BY <1>3, <2>3, <2>4 DEF OnboardingInv, RequestsInv
  <2> QED
    BY <2>7, <2>8
<1>11. CASE FindSnapshot(r)
  <2>1. q.pc = "findRow" /\ request' = [request EXCEPT ![r].pc = "save", ![r].row = snapshots[q.project]]
    BY <1>3, <1>11 DEF FindSnapshot
  <2>2. q.project \in ProjectIds /\ snapshots[q.project] \in Snapshot \cup {NoSnapshot}
    BY <1>4, <1>6, <2>1 DEF Holds, WithProject, Seen
  <2>3. PICK new : new = [q EXCEPT !.pc = "save", !.row = snapshots[q.project]]
    OBVIOUS
  <2>4. new \in RequestRecord
    BY <1>4, <2>2, <2>3 DEF RequestRecord, PCs
  <2>5. /\ new.pc = "save" /\ new.dir = q.dir /\ new.sha = q.sha /\ new.project = q.project
        /\ new.seen = q.seen
    BY <1>4, <2>3 DEF RequestRecord
  <2>6. Good(new)
    BY <1>4, <2>1, <2>2, <2>4, <2>5 DEF Good, Holds, Sees, Indexing, WithProject, Seen
  <2>7. request' = [request EXCEPT ![r] = new]
    BY <1>3, <2>1, <2>3 DEF OnboardingInv, RequestsInv
  <2> QED
    BY <2>6, <2>7
<1>12. CASE LoadSnapshot(r)
  <2>1. q.pc = "load" /\ q.project \in ProjectIds
    BY <1>3, <1>4, <1>12 DEF LoadSnapshot, Holds, WithProject
  <2>2. PICK row : row = snapshots[q.project]
    OBVIOUS
  <2>3. \/ Reply(r)
        \/ row # NoSnapshot /\ request' = [request EXCEPT ![r].pc = "compare", ![r].row = row, ![r].dir = row.dir]
    BY <1>3, <1>12, <2>2 DEF LoadSnapshot
  <2>4. ASSUME row # NoSnapshot PROVE \E new : Good(new) /\ new = [q EXCEPT !.pc = "compare", !.row = row, !.dir = row.dir]
    <3>1. row \in Snapshot /\ row.dir \in Dirs /\ head[row.dir] # 0 /\ Indexed(row)
      BY <1>6, <2>1, <2>2, <2>4, Nothing DEF OnboardingInv, RowsInv
    <3>2. PICK new : new = [q EXCEPT !.pc = "compare", !.row = row, !.dir = row.dir]
      OBVIOUS
    <3>3. new \in RequestRecord
      BY <1>4, <3>1, <3>2 DEF RequestRecord, PCs
    <3>4. new.pc = "compare" /\ new.row = row /\ new.dir = row.dir /\ new.project = q.project
      BY <1>4, <3>2 DEF RequestRecord
    <3>5. Good(new)
      BY <2>1, <3>1, <3>3, <3>4 DEF Good, Holds, Sees, Indexing, WithProject, Seen
    <3> QED
      BY <3>2, <3>5
  <2>5. row # NoSnapshot /\ request' = [request EXCEPT ![r].pc = "compare", ![r].row = row, ![r].dir = row.dir]
          => request' = [request EXCEPT ![r] = [q EXCEPT !.pc = "compare", !.row = row, !.dir = row.dir]]
    BY <1>3 DEF OnboardingInv, RequestsInv
  <2> QED
    BY <2>3, <2>4, <2>5
<1>13. CASE CompareHead(r)
  <2>1. /\ q.pc = "compare"
        /\ \/ Reply(r)
           \/ request' = [request EXCEPT ![r].pc = "walk", ![r].sha = head[q.dir]]
    BY <1>3, <1>13 DEF CompareHead
  <2>2. q.project \in ProjectIds /\ q.dir \in Dirs /\ head[q.dir] \in Commits /\ head[q.dir] # 0
    <3>1. q.row \in Snapshot /\ q.dir = q.row.dir /\ head[q.row.dir] # 0 /\ q.project \in ProjectIds
      BY <1>4, <2>1 DEF Holds, WithProject
    <3>2. q.row.dir \in Dirs
      BY <3>1 DEF Snapshot
    <3> QED
      BY <1>6, <3>1, <3>2
  <2>3. PICK new : new = [q EXCEPT !.pc = "walk", !.sha = head[q.dir]]
    OBVIOUS
  <2>4. new \in RequestRecord
    BY <1>4, <2>2, <2>3 DEF RequestRecord, PCs
  <2>5. new.pc = "walk" /\ new.dir = q.dir /\ new.sha = head[q.dir] /\ new.project = q.project
    BY <1>4, <2>3 DEF RequestRecord
  <2>6. Good(new)
    BY <2>2, <2>4, <2>5 DEF Good, Holds, Sees, Indexing, WithProject, Seen
  <2>7. request' = [request EXCEPT ![r].pc = "walk", ![r].sha = head[q.dir]]
          => request' = [request EXCEPT ![r] = new]
    BY <1>3, <2>3 DEF OnboardingInv, RequestsInv
  <2> QED
    BY <2>1, <2>6, <2>7
<1>14. CASE SelectSnapshot(r)
  <2>1. /\ q.pc = "save" /\ q.project \in ProjectIds
        /\ q.dir \in Dirs /\ q.sha \in Commits /\ head[q.dir] # 0
    BY <1>3, <1>4, <1>14 DEF SelectSnapshot, Holds, Indexing, WithProject, Seen
  <2>2. PICK base : base = snapshots[q.project]
    OBVIOUS
  <2>3. base \in Snapshot \cup {NoSnapshot} /\ q.row \in Snapshot \cup {NoSnapshot}
    BY <1>4, <1>6, <2>1, <2>2 DEF RequestRecord
  <2>4. CASE q.row # NoSnapshot /\ base.id = q.row.id
    <3>1. base \in Snapshot
      <4>1. NoSnapshot.id = 0
        BY DEF NoSnapshot
      <4>2. q.row.id # 0
        BY <2>3, <2>4, Nothing
      <4> QED
        BY <2>3, <2>4, <4>1, <4>2
    <3>2. PICK new : new = [q EXCEPT !.pc = "updateRow", !.row = base]
      OBVIOUS
    <3>3. new \in RequestRecord
      BY <1>4, <3>1, <3>2 DEF RequestRecord, PCs
    <3>4. /\ new.pc = "updateRow" /\ new.dir = q.dir /\ new.sha = q.sha
          /\ new.project = q.project /\ new.seen = q.seen /\ new.row = base
      BY <1>4, <3>2 DEF RequestRecord
    <3>5. Good(new)
      BY <1>4, <2>1, <3>1, <3>3, <3>4 DEF Good, Holds, Sees, Indexing, WithProject, Seen
    <3>6. request' = [request EXCEPT ![r].pc = "updateRow", ![r].row = base]
      BY <1>3, <1>14, <2>2, <2>4 DEF SelectSnapshot
    <3>7. request' = [request EXCEPT ![r] = new]
      BY <1>3, <3>2, <3>6 DEF OnboardingInv, RequestsInv
    <3> QED
      BY <3>5, <3>7
  <2>5. CASE ~(q.row # NoSnapshot /\ base.id = q.row.id)
    <3>2. PICK new : new = [q EXCEPT !.pc = "insertRow"]
      OBVIOUS
    <3>3. new \in RequestRecord
      BY <1>4, <3>2 DEF RequestRecord, PCs
    <3>4. /\ new.pc = "insertRow" /\ new.dir = q.dir /\ new.sha = q.sha
          /\ new.project = q.project /\ new.seen = q.seen
      BY <1>4, <3>2 DEF RequestRecord
    <3>5. Good(new)
      BY <1>4, <2>1, <3>3, <3>4 DEF Good, Holds, Sees, Indexing, WithProject, Seen
    <3>6. request' = [request EXCEPT ![r].pc = "insertRow"]
      BY <1>3, <1>14, <2>2, <2>5 DEF SelectSnapshot, Reach
    <3>7. request' = [request EXCEPT ![r] = new]
      BY <1>3, <3>2, <3>6 DEF OnboardingInv, RequestsInv
    <3> QED
      BY <3>5, <3>7
  <2> QED
    BY <2>4, <2>5
<1> QED
  BY <1>7, <1>8, <1>9, <1>10, <1>11, <1>12, <1>13, <1>14

\* Steps that write a project or a snapshot.
LEMMA ProjectInv ==
  ASSUME OnboardingInv, NEW r \in Requests, InsertProject(r) \/ UpdateProject(r)
  PROVE  OnboardingInv'
<1>1. UNCHANGED <<head, snapshots, newest, quitHeads>>
  BY DEF InsertProject, UpdateProject
<1>2. PICK q : q = request[r]
  OBVIOUS
<1>3. q \in RequestRecord /\ Holds(q) /\ Sees(q)
  BY <1>2 DEF OnboardingInv, RequestsInv, Good
<1>4. q.slug \in Slugs /\ q.slug # NoSlug
  BY <1>2, <1>3, OnboardingAssumption DEF InsertProject, UpdateProject, Holds
<1>5. /\ projects \in [ProjectIds -> Slugs \cup {NoSlug}] /\ RowsInv
      /\ used \in [moves : Nat, requests : Nat, ids : ProjectIds \cup {0}, rows : Nat]
  BY DEF OnboardingInv, RestTypeOK
<1>6. used' \in [moves : Nat, requests : Nat, ids : ProjectIds \cup {0}, rows : Nat]
  BY <1>5 DEF InsertProject, UpdateProject
<1>7. \/ UNCHANGED projects
      \/ \E i \in ProjectIds : /\ projects' = [projects EXCEPT ![i] = q.slug]
                               /\ WithSlug(q.slug) = {}
  <2>1. CASE InsertProject(r)
    BY <1>2, <2>1 DEF InsertProject
  <2>2. CASE UpdateProject(r)
    <3>1. q.project \in ProjectIds
      BY <1>2, <1>3, <2>2 DEF UpdateProject, Holds, WithProject
    <3> QED
      BY <1>2, <2>2, <3>1 DEF UpdateProject
  <2> QED
    BY <2>1, <2>2
<1>8. RestTypeOK'
  BY <1>1, <1>4, <1>5, <1>6, <1>7 DEF OnboardingInv, RestTypeOK
<1>9. RowsInv'
  <2>1. CASE UNCHANGED projects
    BY <1>1, <1>5, <2>1 DEF RowsInv, Indexed
  <2>2. ASSUME NEW i \in ProjectIds, projects' = [projects EXCEPT ![i] = q.slug], WithSlug(q.slug) = {}
        PROVE  RowsInv'
    <3>1. \A j \in ProjectIds : projects'[j] = IF j = i THEN q.slug ELSE projects[j]
      BY <1>5, <2>2
    <3>2. \A j \in ProjectIds : projects[j] # q.slug
      BY <2>2 DEF WithSlug
    <3>3. \A j \in ProjectIds : snapshots[j] # NoSnapshot => projects'[j] # NoSlug /\ head'[snapshots[j].dir] # 0
      BY <1>1, <1>4, <1>5, <3>1 DEF RowsInv
    <3>4. \A j, k \in ProjectIds : projects'[j] = projects'[k] /\ projects'[j] # NoSlug => j = k
      BY <1>5, <3>1, <3>2 DEF RowsInv
    <3>5. \A j \in ProjectIds : Indexed(snapshots[j])'
      BY <1>1, <1>5 DEF RowsInv, Indexed
    <3> QED
      BY <1>1, <3>3, <3>4, <3>5 DEF RowsInv
  <2> QED
    BY <1>7, <2>1, <2>2
<1>10. RequestsInv'
  <2>1. CASE Reply(r)
    BY <1>1, <2>1, ReplyIsGood DEF OnboardingInv
  <2>2. ASSUME NEW i \in ProjectIds, q.op # "create", q.pc = "insert",
               request' = [request EXCEPT ![r].pc = "walk", ![r].project = i]
        PROVE  RequestsInv'
    <3>1. PICK new : new = [q EXCEPT !.pc = "walk", !.project = i]
      OBVIOUS
    <3>2. new \in RequestRecord
      BY <1>3, <2>2, <3>1 DEF RequestRecord, PCs
    <3>3. /\ new.pc = "walk" /\ new.op = q.op /\ new.dir = q.dir /\ new.sha = q.sha /\ new.project = i
      BY <1>3, <3>1 DEF RequestRecord
    <3>4. Good(new)
      BY <1>3, <2>2, <3>2, <3>3 DEF Good, Holds, Sees, Indexing, WithProject, Seen
    <3>5. request' = [request EXCEPT ![r] = new]
      BY <1>2, <2>2, <3>1 DEF OnboardingInv, RequestsInv
    <3> QED
      BY <1>1, <3>4, <3>5, OneRequest DEF OnboardingInv
  <2> QED
    BY <1>2, <2>1, <2>2 DEF InsertProject, UpdateProject
<1> QED
  BY <1>8, <1>9, <1>10 DEF OnboardingInv

\* A row that a request writes: where it is, what it is of, and the row it was.
LEMMA RowInv ==
  ASSUME OnboardingInv, NEW i \in ProjectIds, projects[i] # NoSlug,
         NEW row \in Snapshot, Indexed(row), head[row.dir] # 0,
         snapshots' = [snapshots EXCEPT ![i] = row],
         UNCHANGED <<head, projects, newest, quitHeads>>,
         used' \in [moves : Nat, requests : Nat, ids : ProjectIds \cup {0}, rows : Nat]
  PROVE  RestTypeOK' /\ RowsInv'
<1>1. RowsInv /\ snapshots \in [ProjectIds -> Snapshot \cup {NoSnapshot}]
  BY DEF OnboardingInv, RestTypeOK
<1>2. \A j \in ProjectIds : snapshots'[j] = IF j = i THEN row ELSE snapshots[j]
  BY <1>1
<1>3. snapshots' \in [ProjectIds -> Snapshot \cup {NoSnapshot}]
  BY <1>1
<1>4. RestTypeOK'
  BY <1>3 DEF OnboardingInv, RestTypeOK
<1>5. \A j \in ProjectIds : Indexed(snapshots'[j])
  BY <1>1, <1>2 DEF RowsInv
<1>6. \A j \in ProjectIds : snapshots'[j] # NoSnapshot =>
        projects[j] # NoSlug /\ head[snapshots'[j].dir] # 0
  BY <1>1, <1>2 DEF RowsInv
<1>7. RowsInv'
  BY <1>1, <1>5, <1>6 DEF RowsInv, Indexed
<1> QED
  BY <1>4, <1>7

LEMMA SnapshotInv ==
  ASSUME OnboardingInv, NEW r \in Requests,
         InsertSnapshot(r) \/ UpdateSnapshot(r) \/ RemoveProject(r)
  PROVE  OnboardingInv'
<1>1. UNCHANGED <<head, newest, quitHeads>> /\ Reply(r)
  BY DEF InsertSnapshot, UpdateSnapshot, RemoveProject
<1>2. RequestsInv'
  BY <1>1, ReplyIsGood DEF OnboardingInv
<1>3. PICK q : q = request[r]
  OBVIOUS
<1>4. q \in RequestRecord /\ Holds(q) /\ Sees(q)
  BY <1>3 DEF OnboardingInv, RequestsInv, Good
<1>5. /\ projects \in [ProjectIds -> Slugs \cup {NoSlug}] /\ RowsInv
      /\ snapshots \in [ProjectIds -> Snapshot \cup {NoSnapshot}]
      /\ used \in [moves : Nat, requests : Nat, ids : ProjectIds \cup {0}, rows : Nat]
  BY DEF OnboardingInv, RestTypeOK
<1>6. ASSUME q.pc \in {"insertRow", "updateRow"}, NEW id \in Nat \ {0}
      PROVE  /\ RowOf(r, id) \in Snapshot /\ Indexed(RowOf(r, id))
             /\ RowOf(r, id).dir = q.dir
             /\ q.project \in ProjectIds /\ q.dir \in Dirs /\ head[q.dir] # 0
  <2>1. /\ q.project \in ProjectIds /\ q.dir \in Dirs /\ q.sha \in Commits
        /\ head[q.dir] # 0
    BY <1>4, <1>6 DEF Holds, Indexing, WithProject, Seen
  <2>2. PICK row : row = [id |-> id, dir |-> q.dir, sha |-> q.sha, index |-> q.seen, mixed |-> FALSE]
    OBVIOUS
  <2>3. row \in Snapshot /\ row.dir = q.dir /\ row.sha = q.sha /\ row.index = q.seen
    BY <1>4, <1>6, <2>1, <2>2 DEF Snapshot, RequestRecord
  <2>4. Indexed(row)
    BY <1>4, <1>6, <2>3 DEF Sees, Indexed, Indexing, Seen
  <2>5. RowOf(r, id) = row
    BY <1>3, <2>2 DEF RowOf
  <2> QED
    BY <2>1, <2>3, <2>4, <2>5
<1>8. CASE InsertSnapshot(r)
  <2>1. q.pc = "insertRow" /\ UNCHANGED projects
    BY <1>3, <1>8 DEF InsertSnapshot
  <2>2. PICK id : id = IF q.row = NoSnapshot THEN used.rows + 1 ELSE q.row.id
    OBVIOUS
  <2>3. id \in Nat \ {0}
    <3>1. q.row \in Snapshot \cup {NoSnapshot} /\ used.rows \in Nat
      BY <1>4, <1>5 DEF RequestRecord
    <3> QED
      BY <2>2, <3>1 DEF Snapshot
  <2>4. \/ UNCHANGED <<snapshots, used>>
        \/ /\ projects[q.project] # NoSlug
           /\ snapshots' = [snapshots EXCEPT ![q.project] = RowOf(r, id)]
           /\ used' = [used EXCEPT !.rows = used.rows + 1]
    BY <1>3, <1>8, <2>2 DEF InsertSnapshot
  <2>5. CASE UNCHANGED <<snapshots, used>>
    BY <1>1, <1>2, <1>5, <2>1, <2>5, RestStays DEF OnboardingInv, RestTypeOK
  <2>6. CASE /\ projects[q.project] # NoSlug
             /\ snapshots' = [snapshots EXCEPT ![q.project] = RowOf(r, id)]
             /\ used' = [used EXCEPT !.rows = used.rows + 1]
    <3>1. used' \in [moves : Nat, requests : Nat, ids : ProjectIds \cup {0}, rows : Nat]
      BY <1>5, <2>6
    <3>2. /\ RowOf(r, id) \in Snapshot /\ Indexed(RowOf(r, id)) /\ q.project \in ProjectIds
          /\ head[RowOf(r, id).dir] # 0
      BY <1>6, <2>1, <2>3
    <3>3. PICK row \in Snapshot : row = RowOf(r, id)
      BY <3>2
    <3>4. RestTypeOK' /\ RowsInv'
      BY <1>1, <2>1, <2>6, <3>1, <3>2, <3>3, RowInv
    <3> QED
      BY <1>2, <3>4 DEF OnboardingInv
  <2> QED
    BY <2>4, <2>5, <2>6
<1>9. CASE UpdateSnapshot(r)
  <2>1. /\ q.pc = "updateRow" /\ UNCHANGED <<projects, used>>
        /\ q.row \in Snapshot /\ q.row.id \in Nat \ {0}
    BY <1>3, <1>4, <1>9 DEF UpdateSnapshot, Holds, Snapshot
  <2>2. PICK own \in Snapshot : own = RowOf(r, q.row.id)
    BY <1>6, <2>1
  <2>3. PICK i \in ProjectIds : i = q.project
    BY <1>6, <2>1
  <2>4. \/ UNCHANGED snapshots
        \/ /\ snapshots[i].id = q.row.id
           /\ snapshots' = [snapshots EXCEPT ![i] = Updated(snapshots[i], q.row, own)]
    BY <1>3, <1>9, <2>2, <2>3 DEF UpdateSnapshot
  <2>5. CASE UNCHANGED snapshots
    BY <1>1, <1>2, <1>5, <2>1, <2>5, RestStays DEF OnboardingInv, RestTypeOK
  <2>6. CASE /\ snapshots[i].id = q.row.id
             /\ snapshots' = [snapshots EXCEPT ![i] = Updated(snapshots[i], q.row, own)]
    <3>1. snapshots[i] # NoSnapshot /\ snapshots[i] \in Snapshot
      <4>1. NoSnapshot.id = 0
        BY DEF NoSnapshot
      <4> QED
        BY <1>5, <2>1, <2>6, <4>1
    <3>2. /\ projects[i] # NoSlug /\ snapshots[i].dir \in Dirs /\ head[snapshots[i].dir] # 0
          /\ snapshots[i].sha \in Commits
      BY <1>5, <3>1 DEF RowsInv, Snapshot
    <3>3. /\ own.dir \in Dirs /\ own.sha \in Commits /\ head[own.dir] # 0
          /\ Indexed(own) /\ own.mixed \in BOOLEAN
      BY <1>6, <2>1, <2>2 DEF Snapshot
    <3>4. PICK d \in Dirs, c \in Commits :
             /\ d = IF own.dir = q.row.dir THEN snapshots[i].dir ELSE own.dir
             /\ c = IF own.sha = q.row.sha THEN snapshots[i].sha ELSE own.sha
      BY <3>2, <3>3
    <3>5. PICK mid : mid = [own EXCEPT !.dir = d, !.sha = c]
      OBVIOUS
    <3>6. mid \in Snapshot /\ mid.dir = d
      BY <3>5 DEF Snapshot
    <3>7. PICK m \in BOOLEAN : m = (mid # own)
      OBVIOUS
    <3>8. PICK row : row = [mid EXCEPT !.mixed = m]
      OBVIOUS
    <3>9. row \in Snapshot /\ row.dir = d /\ row.mixed = m
      BY <3>6, <3>8 DEF Snapshot
    <3>10. Updated(snapshots[i], q.row, own) = row
      BY <3>4, <3>5, <3>7, <3>8 DEF Updated
    <3>11. Indexed(row)
      <4>1. CASE m
        BY <3>9, <4>1 DEF Indexed
      <4>2. CASE ~m
        <5>1. mid = own
          BY <3>7, <4>2
        <5>2. row.index = own.index /\ row.sha = own.sha /\ row.dir = own.dir
          BY <3>8, <5>1 DEF Snapshot
        <5>3. own.mixed = FALSE
          BY <2>2 DEF RowOf
        <5>4. own # NoSnapshot
          BY Nothing
        <5> QED
          BY <3>3, <5>2, <5>3, <5>4 DEF Indexed
      <4> QED
        BY <4>1, <4>2
    <3>12. head[row.dir] # 0
      BY <3>2, <3>3, <3>4, <3>9
    <3>13. snapshots' = [snapshots EXCEPT ![i] = row]
      BY <2>6, <3>10
    <3>14. RestTypeOK' /\ RowsInv'
      BY <1>1, <1>5, <2>1, <3>2, <3>9, <3>11, <3>12, <3>13, RowInv
    <3> QED
      BY <1>2, <3>14 DEF OnboardingInv
  <2> QED
    BY <2>4, <2>5, <2>6
<1>7. CASE RemoveProject(r)
  <2>1. q.pc = "change" /\ q.project \in ProjectIds
    BY <1>3, <1>4, <1>7 DEF RemoveProject, Holds, WithProject
  <2>2. /\ projects' = [projects EXCEPT ![q.project] = NoSlug]
        /\ snapshots' = [snapshots EXCEPT ![q.project] = NoSnapshot]
    BY <1>3, <1>7 DEF RemoveProject
  <2>3. RestTypeOK'
    BY <1>1, <1>5, <1>7, <2>2 DEF OnboardingInv, RestTypeOK, RemoveProject
  <2>4. \A i \in ProjectIds : /\ snapshots'[i] = IF i = q.project THEN NoSnapshot ELSE snapshots[i]
                             /\ projects'[i] = IF i = q.project THEN NoSlug ELSE projects[i]
    BY <1>5, <2>2
  <2>5. RowsInv'
    BY <1>1, <1>5, <2>4 DEF RowsInv, Indexed
  <2> QED
    BY <1>2, <2>3, <2>5 DEF OnboardingInv
<1> QED
  BY <1>7, <1>8, <1>9

(***************************************************************************)
(* Steps of a working copy.                                                *)
(***************************************************************************)
LEMMA CloneInv ==
  ASSUME OnboardingInv, NEW r \in Requests, CloneRepo(r)
  PROVE  OnboardingInv'
<1>1. UNCHANGED <<projects, snapshots, newest, quitHeads, used>>
  BY DEF CloneRepo
<1>2. PICK q : q = request[r]
  OBVIOUS
<1>3. /\ q \in RequestRecord /\ q.pc = "clone" /\ q.dir \in Dirs /\ q.op = "init" /\ q.slug \in Slugs
  BY <1>2 DEF OnboardingInv, RequestsInv, Good, Holds, CloneRepo
<1>4. head \in [Dirs -> Commits \cup {0}] /\ newest \in Commits
  BY DEF OnboardingInv, RestTypeOK
<1>5. CASE UNCHANGED head /\ Reply(r)
  <2>1. RestTypeOK' /\ RowsInv'
    BY <1>1, <1>5, RestStays DEF OnboardingInv, RestTypeOK
  <2>2. RequestsInv'
    BY <1>1, <1>5, ReplyIsGood DEF OnboardingInv
  <2> QED
    BY <2>1, <2>2 DEF OnboardingInv
<1>6. ASSUME NEW c \in 1..newest, head[q.dir] = 0, head' = [head EXCEPT ![q.dir] = c], Reach(r, "validate")
      PROVE  OnboardingInv'
  <2>1. c \in Commits /\ c # 0
    BY <1>4, OnboardingAssumption DEF Commits
  <2>2. \A d \in Dirs : head'[d] = IF d = q.dir THEN c ELSE head[d]
    BY <1>4, <1>6
  <2>3. RestTypeOK'
    BY <1>1, <1>4, <1>6, <2>1 DEF OnboardingInv, RestTypeOK
  <2>4. RowsInv'
    <3>1. \A i \in ProjectIds : snapshots[i] # NoSnapshot => snapshots[i].dir \in Dirs
      BY Nothing DEF OnboardingInv, RestTypeOK
    <3>2. \A i \in ProjectIds : snapshots[i] # NoSnapshot => projects[i] # NoSlug /\ head'[snapshots[i].dir] # 0
      BY <2>1, <2>2, <3>1 DEF OnboardingInv, RowsInv
    <3> QED
      BY <1>1, <3>2 DEF OnboardingInv, RowsInv, Indexed
  <2>5. ASSUME NEW g, Good(g)
        PROVE  Good(g)'
    <3>1. Indexing(g) => g.dir \in Dirs /\ head'[g.dir] = head[g.dir] /\ head'[g.dir] # 0
      BY <1>6, <2>2, <2>5 DEF Good, Holds
    <3>2. g.pc = "compare" => head'[g.row.dir] # 0
      <4>1. g.pc = "compare" => g.row.dir \in Dirs /\ head[g.row.dir] # 0
        BY <2>5 DEF Good, Holds, Snapshot
      <4> QED
        BY <2>1, <2>2, <4>1
    <3> QED
      BY <1>1, <2>5, <3>1, <3>2 DEF Good, Holds, Sees, Indexed, Indexing
  <2>6. PICK new : new = [q EXCEPT !.pc = "validate"]
    OBVIOUS
  <2>7. Good(new)'
    <3>1. new \in RequestRecord
      BY <1>3, <2>6 DEF RequestRecord, PCs
    <3>2. new.pc = "validate" /\ new.dir = q.dir /\ new.slug = q.slug /\ new.op = q.op
      BY <1>3, <2>6 DEF RequestRecord
    <3> QED
      BY <1>3, <3>1, <3>2 DEF Good, Holds, Sees, Indexing, WithProject, Seen
  <2>8. request' = [request EXCEPT ![r] = new]
    BY <1>2, <1>6, <2>6 DEF OnboardingInv, RequestsInv, Reach
  <2>9. \A p \in Requests : request'[p] = IF p = r THEN new ELSE request[p]
    BY <2>8 DEF OnboardingInv, RequestsInv
  <2>10. ASSUME NEW p \in Requests PROVE Good(request[p])'
    <3>1. CASE p = r
      <4>1. request'[p] = new
        BY <2>9, <3>1
      <4> QED
        BY <2>7, <4>1 DEF Good, Holds, Sees, Indexed, Indexing
    <3>2. CASE p # r
      <4>1. PICK g : g = request[p]
        OBVIOUS
      <4>2. Good(g)'
        BY <2>5, <4>1 DEF OnboardingInv, RequestsInv
      <4>3. request'[p] = g
        BY <2>9, <3>2, <4>1
      <4> QED
        BY <4>2, <4>3 DEF Good, Holds, Sees, Indexed, Indexing
    <3> QED
      BY <3>1, <3>2
  <2>11. DOMAIN request' = Requests /\ request' = [p \in Requests |-> request'[p]]
    BY <2>8 DEF OnboardingInv, RequestsInv
  <2> QED
    BY <2>3, <2>4, <2>10, <2>11 DEF OnboardingInv, RequestsInv
<1> QED
  BY <1>2, <1>5, <1>6 DEF CloneRepo

LEMMA MoveInv ==
  ASSUME OnboardingInv, NEW d \in Dirs, NEW c \in Commits, MoveHead(d, c)
  PROVE  OnboardingInv'
<1>1. /\ head[d] # 0 /\ c # head[d] /\ head' = [head EXCEPT ![d] = c]
      /\ newest' \in {c, newest} /\ UNCHANGED <<projects, snapshots, request>>
      /\ quitHeads' \in {quitHeads, quitHeads \cup {<<d, head[d]>>}}
  BY DEF MoveHead
<1>2. head \in [Dirs -> Commits \cup {0}] /\ c # 0
  BY DEF OnboardingInv, RestTypeOK, Commits
<1>3. \A e \in Dirs : head'[e] = IF e = d THEN c ELSE head[e]
  BY <1>1, <1>2
<1>4. RestTypeOK'
  <2>1. used' \in [moves : Nat, requests : Nat, ids : ProjectIds \cup {0}, rows : Nat]
    BY DEF OnboardingInv, RestTypeOK, MoveHead
  <2>2. quitHeads' \subseteq Dirs \X Commits
    BY <1>1, <1>2 DEF OnboardingInv, RestTypeOK
  <2> QED
    BY <1>1, <1>2, <2>1, <2>2 DEF OnboardingInv, RestTypeOK
<1>5. quitHeads \subseteq quitHeads'
  BY <1>1
<1>6. RowsInv'
  <2>1. \A i \in ProjectIds : snapshots[i] # NoSnapshot => snapshots[i].dir \in Dirs
    BY Nothing DEF OnboardingInv, RestTypeOK
  <2>2. \A i \in ProjectIds : snapshots[i] # NoSnapshot => projects[i] # NoSlug /\ head'[snapshots[i].dir] # 0
    BY <1>2, <1>3, <2>1 DEF OnboardingInv, RowsInv
  <2> QED
    BY <1>1, <1>5, <2>2 DEF OnboardingInv, RowsInv, Indexed
<1>7. ASSUME NEW r \in Requests PROVE Good(request[r])'
  <2>1. PICK q : q = request[r]
    OBVIOUS
  <2>2. Good(q)
    BY <2>1 DEF OnboardingInv, RequestsInv
  <2>3. Indexing(q) => q.dir \in Dirs /\ head'[q.dir] # 0
    BY <1>2, <1>3, <2>2 DEF Good, Holds
  <2>4. q.pc = "compare" => head'[q.row.dir] # 0
    <3>1. q.pc = "compare" => q.row.dir \in Dirs /\ head[q.row.dir] # 0
      BY <2>2 DEF Good, Holds, Snapshot
    <3> QED
      BY <1>2, <1>3, <3>1
  <2>5. ASSUME Indexing(q), q.pc \notin Seen, head[q.dir] = q.sha
        PROVE  <<q.dir, q.sha>> \in quitHeads' \/ head'[q.dir] = q.sha
    <3>1. CASE q.dir = d
      <4>1. quitHeads' = quitHeads \cup {<<d, head[d]>>}
        BY <2>1, <2>5, <3>1 DEF MoveHead, Seen
      <4> QED
        BY <2>5, <3>1, <4>1
    <3>2. CASE q.dir # d
      BY <1>3, <2>3, <2>5, <3>2
    <3> QED
      BY <3>1, <3>2
  <2>6. Holds(q)'
    BY <2>2, <2>3, <2>4 DEF Good, Holds
  <2>7. Sees(q)'
    <3>1. q.pc = "compare" => Indexed(q.row)'
      BY <1>5, <2>2 DEF Good, Sees, Indexed
    <3>2. ASSUME Indexing(q)
          PROVE  \/ <<q.dir, q.sha>> \in quitHeads'
                 \/ q.pc \in {"project", "insert", "walk"} /\ head'[q.dir] = q.sha
                 \/ q.pc = "manifests" /\ head'[q.dir] = q.sha /\ q.seen = {q.sha}
                 \/ q.pc \in Seen /\ q.seen = {q.sha}
      BY <1>5, <2>2, <2>5, <3>2 DEF Good, Sees, Seen
    <3> QED
      BY <3>1, <3>2 DEF Sees
  <2> QED
    BY <1>1, <2>1, <2>2, <2>6, <2>7 DEF Good, Holds, Sees, Indexed, Indexing
<1>8. RequestsInv'
  <2>1. DOMAIN request' = Requests /\ request' = [r \in Requests |-> request'[r]]
    BY <1>1 DEF OnboardingInv, RequestsInv
  <2> QED
    BY <1>7, <2>1 DEF RequestsInv
<1> QED
  BY <1>4, <1>6, <1>8 DEF OnboardingInv

LEMMA OnboardingNextInv == OnboardingInv /\ [OnboardingNext]_onboardingVars => OnboardingInv'
<1> SUFFICES ASSUME OnboardingInv, [OnboardingNext]_onboardingVars PROVE OnboardingInv'
  OBVIOUS
<1>1. CASE UNCHANGED onboardingVars
  <2>1. UNCHANGED <<head, projects, snapshots, request, newest, quitHeads, used>>
    BY <1>1 DEF onboardingVars
  <2>2. RestTypeOK' /\ RowsInv'
    BY <2>1, RestStays DEF OnboardingInv, RestTypeOK
  <2>3. RequestsInv'
    BY <2>1 DEF OnboardingInv, RequestsInv, Good, Holds, Sees, Indexed, Indexing
  <2> QED
    BY <2>2, <2>3 DEF OnboardingInv
<1> QED
  BY <1>1, BeginInv, ReadInv, ProjectInv, SnapshotInv, CloneInv, MoveInv DEF OnboardingNext

LEMMA OnboardingInvariant == OnboardingSpec => []OnboardingInv
BY OnboardingInitInv, OnboardingNextInv, PTL DEF OnboardingSpec

(***************************************************************************)
(* The theorems.                                                           *)
(***************************************************************************)

\* Type correctness: every variable keeps its type.
THEOREM OnboardingTypeCorrect == OnboardingSpec => []OnboardingTypeOK
<1>1. OnboardingInv => OnboardingTypeOK
  <2>1. ASSUME OnboardingInv PROVE request \in [Requests -> RequestRecord]
    BY <2>1 DEF OnboardingInv, RequestsInv, Good
  <2> QED
    BY <2>1 DEF OnboardingInv, RestTypeOK, OnboardingTypeOK, RequestRecord, PCs
<1> QED
  BY <1>1, OnboardingInvariant, PTL

\* What sync calls up to date is indexed as it is, unless HEAD has come back to a
\* commit that it left while it was indexed, or a partial UPDATE has mixed the row.
THEOREM UpToDateAreIndexed == OnboardingSpec => []UpToDateIsIndexed
<1>1. OnboardingInv => UpToDateIsIndexed
  BY DEF OnboardingInv, RowsInv, RequestsInv, Good, Sees, Indexed, UpToDateIsIndexed, UpToDate
<1> QED
  BY <1>1, OnboardingInvariant, PTL

\* A snapshot never outlives its project, and a slug has one project.
THEOREM SnapshotsHaveProjects == OnboardingSpec => []SnapshotHasProject
<1>1. ASSUME OnboardingInv PROVE SnapshotHasProject
  <2>1. ASSUME NEW s \in Slugs PROVE Cardinality(WithSlug(s)) <= 1
    <3>1. CASE WithSlug(s) = {}
      <4>1. Cardinality({}) = 0
        BY FS_EmptySet
      <4> QED
        BY <3>1, <4>1
    <3>2. CASE WithSlug(s) # {}
      <4>1. PICK i : i \in WithSlug(s)
        BY <3>2
      <4>2. WithSlug(s) = {i}
        BY <1>1, <4>1, OnboardingAssumption DEF WithSlug, OnboardingInv, RowsInv
      <4>3. Cardinality({i}) = 1
        BY FS_Singleton
      <4> QED
        BY <4>2, <4>3
    <3> QED
      BY <3>1, <3>2
  <2> QED
    BY <1>1, <2>1 DEF OnboardingInv, RowsInv, SnapshotHasProject
<1> QED
  BY <1>1, OnboardingInvariant, PTL
=============================================================================
