------------------------ MODULE WorkflowEvents_proofs ------------------------
(***************************************************************************)
(* Proofs about WorkflowEvents, for any keys, any number of events in      *)
(* flight and any value of the bounds.                                     *)
(***************************************************************************)
EXTENDS WorkflowEvents, TLAPS

(***************************************************************************)
(* The jobs of a queue, as a set.                                          *)
(***************************************************************************)
Elems(q) == {q[i] : i \in 1..Len(q)}

LEMMA AppendElems ==
  ASSUME NEW q \in Seq(Job), NEW j \in Job
  PROVE  Append(q, j) \in Seq(Job) /\ Elems(Append(q, j)) = Elems(q) \cup {j}
BY DEF Elems

LEMMA HeadTailElems ==
  ASSUME NEW q \in Seq(Job), q # <<>>
  PROVE  /\ Head(q) \in Job /\ Tail(q) \in Seq(Job)
         /\ Elems(q) = {Head(q)} \cup Elems(Tail(q))
<1>1. /\ Len(q) \in Nat \ {0} /\ Head(q) = q[1] /\ Head(q) \in Job
      /\ Tail(q) \in Seq(Job) /\ Len(Tail(q)) = Len(q) - 1
      /\ \A i \in 1..Len(Tail(q)) : Tail(q)[i] = q[i + 1]
  OBVIOUS
<1>2. ASSUME NEW i \in 1..Len(q) PROVE q[i] \in {Head(q)} \cup Elems(Tail(q))
  <2>1. CASE i = 1
    BY <1>1, <2>1
  <2>2. CASE i # 1
    <3>1. i - 1 \in 1..Len(Tail(q)) /\ q[i] = Tail(q)[i - 1]
      BY <1>1, <2>2
    <3> QED
      BY <3>1 DEF Elems
  <2> QED
    BY <2>1, <2>2
<1>3. ASSUME NEW i \in 1..Len(Tail(q)) PROVE Tail(q)[i] \in Elems(q)
  <2>1. i + 1 \in 1..Len(q) /\ Tail(q)[i] = q[i + 1]
    BY <1>1
  <2> QED
    BY <2>1 DEF Elems
<1>4. Head(q) \in Elems(q)
  BY <1>1 DEF Elems
<1> QED
  BY <1>1, <1>2, <1>3, <1>4 DEF Elems

LEMMA ConsElems ==
  ASSUME NEW q \in Seq(Job), NEW j \in Job
  PROVE  <<j>> \o q \in Seq(Job) /\ Elems(<<j>> \o q) = {j} \cup Elems(q)
<1> DEFINE r == <<j>> \o q
<1>1. /\ Len(q) \in Nat /\ r \in Seq(Job) /\ Len(r) = Len(q) + 1 /\ r[1] = j
      /\ \A i \in 1..Len(q) : r[i + 1] = q[i]
  OBVIOUS
<1> HIDE DEF r
<1>2. ASSUME NEW i \in 1..Len(r) PROVE r[i] \in {j} \cup Elems(q)
  <2>1. CASE i = 1
    BY <1>1, <2>1
  <2>2. CASE i # 1
    <3>1. i - 1 \in 1..Len(q) /\ r[i] = q[i - 1]
      BY <1>1, <2>2
    <3> QED
      BY <3>1 DEF Elems
  <2> QED
    BY <2>1, <2>2
<1>3. ASSUME NEW i \in 1..Len(q) PROVE q[i] \in Elems(r)
  <2>1. i + 1 \in 1..Len(r) /\ q[i] = r[i + 1]
    BY <1>1
  <2> QED
    BY <2>1 DEF Elems
<1>4. j \in Elems(r)
  BY <1>1 DEF Elems
<1>5. Elems(r) = {j} \cup Elems(q)
  BY <1>2, <1>3, <1>4 DEF Elems
<1> QED
  BY <1>1, <1>5 DEF r

LEMMA JobsElems == \A c \in Channels : JobsOf(c) = Elems(queue[c])
BY DEF JobsOf, Elems

(***************************************************************************)
(* Type correctness, one group of variables at a time.                     *)
(***************************************************************************)
WorkPCs == {"idle", "handle", "mark", "markFailed", "done"}

GateType ==
  /\ up \in BOOLEAN
  /\ run \in [pc : {"none", "busy", "sending", "waiting"}, key : Keys \cup {NoKey}]
  /\ run.pc \in {"sending", "waiting"} <=> run.key # NoKey
  /\ gate \subseteq Keys /\ chat \subseteq Keys
  /\ shown \in BOOLEAN

EventType ==
  /\ pub \in [Slots -> [pc : {"free", "persist", "save", "add", "sent"},
                        channel : Channels, key : Keys \cup {NoKey}]]
  /\ row \in [Slots -> {"none", "pending", "processed", "failed"}]

WorkType ==
  /\ queue \in [Channels -> Seq(Job)]
  /\ wk \in [Channels -> [pc : WorkPCs, slot : Slots \cup {NoSlot}, stalls : {0, 1}]]
  /\ \A c \in Channels : IF wk[c].pc = "idle" THEN wk[c] = NoWork
                        ELSE wk[c].slot \in Slots

CountType == lost \subseteq Slots /\ crashes \in Nat /\ faults \in Nat

LEMMA TypeParts == TypeOK <=> GateType /\ EventType /\ WorkType /\ CountType
BY DEF TypeOK, GateType, EventType, WorkType, CountType, WorkPCs

LEMMA InitType == Init => TypeOK
<1> SUFFICES ASSUME Init PROVE TypeOK
  OBVIOUS
<1>1. GateType
  BY ConstantsAssumption DEF Init, GateType, Busy
<1>2. EventType
  BY DEF Init, EventType, Free, Channels
<1>3. WorkType
  BY DEF Init, WorkType, NoWork, WorkPCs
<1>4. CountType
  BY DEF Init, CountType
<1> QED
  BY <1>1, <1>2, <1>3, <1>4, TypeParts

LEMMA NextGateType ==
  ASSUME GateType, [Next]_vars PROVE GateType'
<1> USE ConstantsAssumption DEF GateType
<1>1. ASSUME NEW k \in Keys, Ask(k) PROVE GateType'
  BY <1>1 DEF Ask
<1>2. CASE PromptShown
  BY <1>2 DEF PromptShown
<1>3. CASE Register
  BY <1>3 DEF Register
<1>4. ASSUME NEW s \in Slots, NEW k \in Keys, UserReplies(s, k) PROVE GateType'
  BY <1>4 DEF UserReplies
<1>5. ASSUME NEW s \in Slots, NEW c \in Channels, Emit(s, c) PROVE GateType'
  BY <1>5 DEF Emit
<1>6. ASSUME NEW s \in Slots, Publish(s) \/ Recycle(s) PROVE GateType'
  BY <1>6 DEF Publish, PersistEvent, SaveEvent, AddJob, Recycle
<1>7. ASSUME NEW c \in Channels, Handle(c) PROVE GateType'
  <2> DEFINE k == pub[wk[c].slot].key
  <2>1. CASE gate' = gate \ {k} /\ run' = Busy /\ shown' = FALSE
    BY <1>7, <2>1 DEF Handle, Busy
  <2>2. CASE UNCHANGED <<gate, run, shown>>
    BY <1>7, <2>2 DEF Handle
  <2> QED
    BY <1>7, <2>1, <2>2 DEF Handle
<1>8. ASSUME NEW c \in Channels, Work(c), ~Handle(c) PROVE GateType'
  BY <1>8 DEF Work, TakeJob, MissingHandler, MarkProcessed, MarkFailed, SettleJob
<1>9. CASE Crash
  BY <1>9 DEF Crash, NoRun
<1>10. CASE Boot
  BY <1>10 DEF Boot, Busy
<1>11. CASE UNCHANGED vars
  BY <1>11 DEF vars
<1> QED
  BY <1>1, <1>2, <1>3, <1>4, <1>5, <1>6, <1>7, <1>8, <1>9, <1>10, <1>11 DEF Next

LEMMA NextEventType ==
  ASSUME EventType, WorkType, [Next]_vars PROVE EventType'
<1> USE ConstantsAssumption DEF EventType
<1>1. CASE (\E k \in Keys : Ask(k)) \/ PromptShown \/ Register
  BY <1>1 DEF Ask, PromptShown, Register
<1>2. ASSUME NEW s \in Slots, NEW k \in Keys, UserReplies(s, k) PROVE EventType'
  BY <1>2 DEF UserReplies, Channels
<1>3. ASSUME NEW s \in Slots, NEW c \in Channels, Emit(s, c) PROVE EventType'
  BY <1>3 DEF Emit
<1>4. ASSUME NEW s \in Slots, PersistEvent(s) PROVE EventType'
  BY <1>4 DEF PersistEvent
<1>5. ASSUME NEW s \in Slots, SaveEvent(s) PROVE EventType'
  BY <1>5 DEF SaveEvent, Free, Channels
<1>6. ASSUME NEW s \in Slots, AddJob(s) PROVE EventType'
  BY <1>6 DEF AddJob
<1>7. ASSUME NEW s \in Slots, Recycle(s) PROVE EventType'
  BY <1>7 DEF Recycle, Free, Channels
<1>8. ASSUME NEW c \in Channels, Work(c) PROVE EventType'
  BY <1>8 DEF Work, WorkType, TakeJob, MissingHandler, Handle, MarkProcessed, MarkFailed,
             SettleJob
<1>9. CASE Crash
  BY <1>9 DEF Crash, Free, Channels
<1>10. CASE Boot
  BY <1>10 DEF Boot
<1>11. CASE UNCHANGED vars
  BY <1>11 DEF vars
<1> QED
  BY <1>1, <1>2, <1>3, <1>4, <1>5, <1>6, <1>7, <1>8, <1>9, <1>10, <1>11
     DEF Next, Publish

\* A step of a busy worker to another busy place keeps the type of wk.
LEMMA GotoType ==
  ASSUME WorkType, NEW c \in Channels, wk[c].pc # "idle",
         NEW pc \in WorkPCs \ {"idle"}, Goto(c, pc), UNCHANGED queue
  PROVE  WorkType'
<1>1. [wk[c] EXCEPT !.pc = pc]
        \in [pc : WorkPCs, slot : Slots \cup {NoSlot}, stalls : {0, 1}]
  BY DEF WorkType
<1>2. wk' = [wk EXCEPT ![c] = [wk[c] EXCEPT !.pc = pc]]
  BY DEF Goto
<1>3. /\ wk'[c].slot = wk[c].slot /\ wk'[c].pc = pc
      /\ \A d \in Channels \ {c} : wk'[d] = wk[d]
  BY <1>2 DEF WorkType
<1> QED
  BY <1>1, <1>2, <1>3 DEF WorkType

LEMMA TakeJobType ==
  ASSUME WorkType, NEW c \in Channels, TakeJob(c) PROVE WorkType'
<1> DEFINE j == Head(queue[c])
           w == [pc |-> "handle", slot |-> j.slot, stalls |-> j.stalls]
<1>1. j \in Job /\ Tail(queue[c]) \in Seq(Job)
  BY HeadTailElems DEF TakeJob, WorkType
<1>2. w \in [pc : WorkPCs, slot : Slots \cup {NoSlot}, stalls : {0, 1}]
      /\ w.slot \in Slots /\ w.pc # "idle"
  BY <1>1 DEF Job, WorkPCs
<1>3. /\ wk' = [wk EXCEPT ![c] = w]
      /\ queue' = [queue EXCEPT ![c] = Tail(queue[c])]
  BY DEF TakeJob
<1> HIDE DEF j, w
<1> QED
  BY <1>1, <1>2, <1>3 DEF WorkType

LEMMA RequeuedType ==
  ASSUME WorkType, NEW c \in Channels
  PROVE  /\ Requeued(c) \in Seq(Job)
         /\ Elems(queue[c]) \subseteq Elems(Requeued(c))
         /\ wk[c].pc # "idle" /\ wk[c].stalls = 0 =>
              [slot |-> wk[c].slot, stalls |-> 1] \in Elems(Requeued(c))
         /\ \A j \in Elems(Requeued(c)) :
              \/ j \in Elems(queue[c])
              \/ wk[c].pc # "idle" /\ j.slot = wk[c].slot
<1> DEFINE j == [slot |-> wk[c].slot, stalls |-> 1]
<1>1. queue[c] \in Seq(Job) /\ wk[c].stalls \in {0, 1}
  BY DEF WorkType
<1>2. CASE wk[c].pc = "idle" \/ wk[c].stalls = 1
  BY <1>1, <1>2 DEF Requeued
<1>3. CASE wk[c].pc # "idle" /\ wk[c].stalls = 0
  <2>1. j \in Job /\ j.slot = wk[c].slot
    BY <1>3 DEF WorkType, Job
  <2>2. Requeued(c) = <<j>> \o queue[c]
    BY <1>3 DEF Requeued
  <2> HIDE DEF j
  <2>3. /\ <<j>> \o queue[c] \in Seq(Job)
        /\ Elems(<<j>> \o queue[c]) = {j} \cup Elems(queue[c])
    BY <1>1, <2>1, ConsElems
  <2> QED
    BY <1>3, <2>1, <2>2, <2>3 DEF j
<1> QED
  BY <1>1, <1>2, <1>3

LEMMA NextWorkType ==
  ASSUME WorkType, EventType, [Next]_vars PROVE WorkType'
<1>1. CASE (\E k \in Keys : Ask(k)) \/ PromptShown \/ Register
  BY <1>1 DEF Ask, PromptShown, Register, WorkType
<1>2. ASSUME NEW s \in Slots, NEW k \in Keys, UserReplies(s, k) PROVE WorkType'
  BY <1>2 DEF UserReplies, WorkType
<1>3. ASSUME NEW s \in Slots, NEW c \in Channels, Emit(s, c) PROVE WorkType'
  BY <1>3 DEF Emit, WorkType
<1>4. ASSUME NEW s \in Slots, PersistEvent(s) \/ SaveEvent(s) \/ Recycle(s)
      PROVE WorkType'
  BY <1>4 DEF PersistEvent, SaveEvent, Recycle, WorkType
<1>5. ASSUME NEW s \in Slots, AddJob(s) PROVE WorkType'
  <2>1. /\ pub[s].channel \in Channels
        /\ [slot |-> s, stalls |-> 0] \in Job
    BY DEF EventType, Job
  <2>2. Append(queue[pub[s].channel], [slot |-> s, stalls |-> 0]) \in Seq(Job)
    BY <2>1, AppendElems DEF WorkType
  <2> QED
    BY <1>5, <2>1, <2>2 DEF AddJob, WorkType
<1>6. ASSUME NEW c \in Channels, Work(c) PROVE WorkType'
  <2>1. CASE TakeJob(c)
    BY <2>1, TakeJobType
  <2>2. CASE Handle(c)
    BY <2>2, GotoType DEF Handle, WorkPCs
  <2>3. CASE MarkProcessed(c)
    BY <2>3, GotoType DEF MarkProcessed, WorkPCs
  <2>4. CASE MarkFailed(c)
    BY <2>4, GotoType DEF MarkFailed, WorkPCs
  <2>5. CASE SettleJob(c)
    BY <2>5 DEF SettleJob, WorkType, NoWork, WorkPCs
  <2>6. CASE MissingHandler(c)
    <3>1. Tail(queue[c]) \in Seq(Job)
      BY <2>6, HeadTailElems DEF MissingHandler, WorkType
    <3> QED
      BY <2>6, <3>1 DEF MissingHandler, WorkType
  <2> QED
    BY <1>6, <2>1, <2>2, <2>3, <2>4, <2>5, <2>6 DEF Work
<1>7. CASE Crash
  <2>1. queue' = [c \in Channels |-> Requeued(c)] /\ wk' = [c \in Channels |-> NoWork]
    BY <1>7 DEF Crash
  <2>2. queue' \in [Channels -> Seq(Job)]
    BY <2>1, RequeuedType
  <2>3. \A c \in Channels : wk'[c] = NoWork
    BY <2>1
  <2> QED
    BY <2>1, <2>2, <2>3 DEF WorkType, NoWork, WorkPCs
<1>8. CASE Boot
  BY <1>8 DEF Boot, WorkType
<1>9. CASE UNCHANGED vars
  BY <1>9 DEF vars, WorkType
<1> QED
  BY <1>1, <1>2, <1>3, <1>4, <1>5, <1>6, <1>7, <1>8, <1>9 DEF Next, Publish

LEMMA NextCountType ==
  ASSUME CountType, WorkType, [Next]_vars PROVE CountType'
<1> USE DEF CountType, Fault
<1>1. CASE (\E k \in Keys : Ask(k)) \/ PromptShown \/ Register
  BY <1>1 DEF Ask, PromptShown, Register
<1>2. ASSUME NEW s \in Slots, NEW k \in Keys, UserReplies(s, k) PROVE CountType'
  BY <1>2 DEF UserReplies
<1>3. ASSUME NEW s \in Slots, NEW c \in Channels, Emit(s, c) PROVE CountType'
  BY <1>3 DEF Emit
<1>4. ASSUME NEW s \in Slots, Publish(s) \/ Recycle(s) PROVE CountType'
  BY <1>4 DEF Publish, PersistEvent, SaveEvent, AddJob, Recycle
<1>5. ASSUME NEW c \in Channels, Work(c) PROVE CountType'
  <2>1. CASE MissingHandler(c)
    <3>1. Head(queue[c]) \in Job
      BY <2>1, HeadTailElems DEF MissingHandler, WorkType
    <3> QED
      BY <2>1, <3>1 DEF MissingHandler, Job
  <2>2. CASE ~MissingHandler(c)
    BY <1>5, <2>2 DEF Work, WorkType, TakeJob, Handle, MarkProcessed, MarkFailed, SettleJob
  <2> QED
    BY <2>1, <2>2
<1>6. CASE Crash
  <2>1. \A c \in Channels : wk[c].stalls = 1 => wk[c].slot \in Slots
    BY DEF WorkType, NoWork
  <2> QED
    BY <1>6, <2>1 DEF Crash
<1>7. CASE Boot
  BY <1>7 DEF Boot
<1>8. CASE UNCHANGED vars
  BY <1>8 DEF vars
<1> QED
  BY <1>1, <1>2, <1>3, <1>4, <1>5, <1>6, <1>7, <1>8 DEF Next

LEMMA NextType == TypeOK /\ [Next]_vars => TypeOK'
<1> SUFFICES ASSUME TypeOK, [Next]_vars PROVE TypeOK'
  OBVIOUS
<1>1. GateType /\ EventType /\ WorkType /\ CountType
  BY TypeParts
<1>2. GateType' /\ EventType' /\ WorkType' /\ CountType'
  BY <1>1, NextGateType, NextEventType, NextWorkType, NextCountType
<1> QED
  BY <1>2 DEF TypeOK, GateType, EventType, WorkType, CountType, WorkPCs

\* Every variable keeps its type: a worker that is busy has a job, and a run
\* has a key exactly when it sends a prompt or waits.
THEOREM TypeCorrect == Spec => []TypeOK
BY InitType, NextType, PTL DEF Spec

(***************************************************************************)
(* Gates.  A run leaves a gate only when its key is deleted, or with the   *)
(* process.                                                                *)
(***************************************************************************)
GateInv == GateIsWaited /\ (up <=> run.pc # "none")

LEMMA NextGates == TypeOK /\ GateInv /\ [Next]_vars => GateInv'
<1> SUFFICES ASSUME TypeOK, GateInv, [Next]_vars PROVE GateInv'
  OBVIOUS
<1>0. GateType
  BY TypeParts
<1> USE ConstantsAssumption, <1>0 DEF GateInv, GateIsWaited, GateType
<1>1. ASSUME NEW k \in Keys, Ask(k) PROVE GateInv'
  BY <1>1 DEF Ask
<1>2. CASE PromptShown
  BY <1>2 DEF PromptShown
<1>3. CASE Register
  BY <1>3 DEF Register
<1>4. ASSUME NEW s \in Slots, NEW k \in Keys, UserReplies(s, k) PROVE GateInv'
  BY <1>4 DEF UserReplies
<1>5. ASSUME NEW s \in Slots, NEW c \in Channels, Emit(s, c) PROVE GateInv'
  BY <1>5 DEF Emit
<1>6. ASSUME NEW s \in Slots, Publish(s) \/ Recycle(s) PROVE GateInv'
  BY <1>6 DEF Publish, PersistEvent, SaveEvent, AddJob, Recycle
<1>7. ASSUME NEW c \in Channels, Handle(c) PROVE GateInv'
  <2> DEFINE k == pub[wk[c].slot].key
  <2>0. UNCHANGED up
    BY <1>7 DEF Handle
  <2>1. CASE k \in gate /\ gate' = gate \ {k} /\ run' = Busy
    BY <2>0, <2>1 DEF Busy
  <2>2. CASE UNCHANGED <<gate, run>>
    BY <2>0, <2>2
  <2> QED
    BY <1>7, <2>1, <2>2 DEF Handle
<1>8. ASSUME NEW c \in Channels, Work(c), ~Handle(c) PROVE GateInv'
  BY <1>8 DEF Work, TakeJob, MissingHandler, MarkProcessed, MarkFailed, SettleJob
<1>9. CASE Crash
  BY <1>9 DEF Crash, NoRun
<1>10. CASE Boot
  <2>1. run.pc # "waiting" /\ gate = {}
    BY <1>10 DEF Boot
  <2> QED
    BY <1>10, <2>1 DEF Boot, Busy
<1>11. CASE UNCHANGED vars
  BY <1>11 DEF vars
<1> QED
  BY <1>1, <1>2, <1>3, <1>4, <1>5, <1>6, <1>7, <1>8, <1>9, <1>10, <1>11 DEF Next

\* A gate is pending exactly while the run of the process waits at it, whatever
\* replies come late, twice or to an old prompt.
THEOREM GatesAreWaited == Spec => []GateIsWaited
<1>1. Init => GateInv
  BY DEF Init, GateInv, GateIsWaited, Busy
<1>2. GateInv => GateIsWaited
  BY DEF GateInv
<1> QED
  BY <1>1, <1>2, InitType, NextType, NextGates, PTL DEF Spec

(***************************************************************************)
(* Events.  A slot has a job, waiting or taken, only after its publication *)
(* is over, and a worker that is done has marked its event or lost it.     *)
(***************************************************************************)
HasJob(s) == \/ \E c \in Channels : wk[c].slot = s
             \/ \E c \in Channels : \E j \in JobsOf(c) : j.slot = s

JobInv ==
  /\ PendingHasJob
  /\ \A s \in Slots : pub[s].pc # "sent" => ~HasJob(s)
  /\ \A c \in Channels : wk[c].pc = "done" =>
       row[wk[c].slot] # "pending" \/ wk[c].slot \in lost

LEMMA InitJobs == Init => JobInv
<1> SUFFICES ASSUME Init PROVE JobInv
  OBVIOUS
<1>1. \A s \in Slots : pub[s].pc # "sent" /\ row[s] # "pending"
  BY DEF Init, Free
<1>2. \A c \in Channels : wk[c] = NoWork /\ JobsOf(c) = {}
  BY DEF Init, JobsOf
<1>3. \A s \in Slots : s # NoSlot
  BY ConstantsAssumption
<1> QED
  BY <1>1, <1>2, <1>3 DEF JobInv, PendingHasJob, HasJob, NoWork

\* What JobInv needs to know of a step that leaves the rows, the lost events
\* and the jobs alone and publishes nothing new.
LEMMA KeepsJobs ==
  ASSUME TypeOK, JobInv, UNCHANGED <<row, lost>>,
         \A c \in Channels : wk'[c].slot = wk[c].slot /\ JobsOf(c)' = JobsOf(c),
         \A c \in Channels : wk'[c].pc = "done" => wk[c].pc = "done",
         \A s \in Slots : /\ pub[s].pc = "sent" <=> pub'[s].pc = "sent"
                          /\ pub[s].pc = "add" => pub'[s].pc = "add"
  PROVE  JobInv'
BY DEF JobInv, PendingHasJob, HasJob

LEMMA NextJobs == TypeOK /\ JobInv /\ [Next]_vars => JobInv'
<1> SUFFICES ASSUME TypeOK, JobInv, [Next]_vars PROVE JobInv'
  OBVIOUS
<1>0. EventType /\ WorkType /\ CountType
  BY TypeParts
<1>1. CASE (\E k \in Keys : Ask(k)) \/ PromptShown \/ Register \/ Boot
  <2>1. UNCHANGED <<pub, row, queue, wk, lost>>
    BY <1>1 DEF Ask, PromptShown, Register, Boot
  <2> QED
    BY <2>1, KeepsJobs DEF JobsOf
<1>2. ASSUME NEW s \in Slots, pub[s].pc \in {"free", "persist"},
             pub'[s].pc \in {"persist", "save"},
             \A t \in Slots \ {s} : pub'[t] = pub[t],
             UNCHANGED <<row, queue, wk, lost>>
      PROVE  JobInv'
  BY <1>2, KeepsJobs DEF JobsOf
<1>3. ASSUME NEW s \in Slots, NEW k \in Keys, UserReplies(s, k) PROVE JobInv'
  BY <1>0, <1>2, <1>3 DEF UserReplies, Free, EventType
<1>4. ASSUME NEW s \in Slots, NEW c \in Channels, Emit(s, c) PROVE JobInv'
  BY <1>0, <1>2, <1>4 DEF Emit, Free, EventType
<1>5. ASSUME NEW s \in Slots, PersistEvent(s) PROVE JobInv'
  BY <1>0, <1>2, <1>5 DEF PersistEvent, EventType
<1>6. ASSUME NEW s \in Slots, SaveEvent(s) PROVE JobInv'
  <2>1. /\ pub[s].pc = "save" /\ ~HasJob(s)
        /\ UNCHANGED <<queue, wk, lost>>
        /\ \A t \in Slots \ {s} : pub'[t] = pub[t] /\ row'[t] = row[t]
    BY <1>0, <1>6 DEF SaveEvent, EventType, JobInv
  <2>2. \/ pub'[s].pc = "add"
        \/ pub'[s].pc = "free" /\ row'[s] = row[s]
    BY <1>0, <1>6 DEF SaveEvent, EventType, Free
  <2>3. \A c \in Channels : wk[c].slot # s /\ wk'[c] = wk[c] /\ JobsOf(c)' = JobsOf(c)
    BY <2>1 DEF HasJob, JobsOf
  <2>4. \A t \in Slots : HasJob(t)' <=> HasJob(t)
    BY <2>3 DEF HasJob
  <2>5. PendingHasJob'
    BY <2>1, <2>2, <2>3, <2>4 DEF JobInv, PendingHasJob, HasJob
  <2>6. \A c \in Channels : wk[c].pc = "done" => wk[c].slot \in Slots \ {s}
    BY <1>0, <2>3 DEF WorkType
  <2> QED
    BY <2>1, <2>2, <2>3, <2>4, <2>5, <2>6 DEF JobInv
<1>7. ASSUME NEW s \in Slots, AddJob(s) PROVE JobInv'
  <2> DEFINE j == [slot |-> s, stalls |-> 0]
  <2>0. PICK ch \in Channels : ch = pub[s].channel
    BY <1>0 DEF EventType
  <2>1. /\ pub[s].pc = "add" /\ pub'[s].pc = "sent"
        /\ UNCHANGED <<row, wk>>
        /\ \A t \in Slots \ {s} : pub'[t] = pub[t]
        /\ j \in Job /\ j.slot = s
    BY <1>0, <1>7 DEF AddJob, EventType, Job
  <2>2. CASE queue' = [queue EXCEPT ![ch] = Append(queue[ch], j)] /\ lost' = lost
    <3>1. /\ Elems(queue'[ch]) = Elems(queue[ch]) \cup {j}
          /\ \A c \in Channels \ {ch} : queue'[c] = queue[c]
      BY <1>0, <2>1, <2>2, AppendElems DEF WorkType
    <3> HIDE DEF j
    <3>2. /\ JobsOf(ch)' = JobsOf(ch) \cup {j}
          /\ \A c \in Channels \ {ch} : JobsOf(c)' = JobsOf(c)
      BY <2>1, <3>1 DEF JobsOf, Elems
    <3> QED
      BY <2>1, <2>2, <3>2 DEF JobInv, PendingHasJob, HasJob
  <2>3. CASE queue' = queue /\ lost' = lost \cup {s}
    BY <2>1, <2>3 DEF JobInv, PendingHasJob, HasJob, JobsOf
  <2> QED
    BY <1>7, <2>0, <2>2, <2>3 DEF AddJob
<1>8. ASSUME NEW s \in Slots, Recycle(s) PROVE JobInv'
  <2>1. /\ ~HasJob(s)
        /\ UNCHANGED <<queue, wk>> /\ lost' = lost \ {s}
        /\ pub'[s].pc = "free" /\ row'[s] = "none"
        /\ \A t \in Slots \ {s} : pub'[t] = pub[t] /\ row'[t] = row[t]
    BY <1>0, <1>8 DEF Recycle, EventType, Free, HasJob
  <2>2. \A c \in Channels : wk[c].slot # s /\ wk'[c] = wk[c] /\ JobsOf(c)' = JobsOf(c)
    BY <2>1 DEF HasJob, JobsOf
  <2>3. \A c \in Channels : wk[c].pc = "done" => wk[c].slot \in Slots \ {s}
    BY <1>0, <2>2 DEF WorkType
  <2> QED
    BY <2>1, <2>2, <2>3 DEF JobInv, PendingHasJob, HasJob
<1>9. ASSUME NEW c \in Channels, TakeJob(c) PROVE JobInv'
  <2> DEFINE j == Head(queue[c])
  <2>1. /\ Elems(queue[c]) = {j} \cup Elems(queue'[c])
        /\ \A d \in Channels \ {c} : queue'[d] = queue[d] /\ wk'[d] = wk[d]
        /\ wk[c] = NoWork /\ wk'[c].slot = j.slot /\ wk'[c].pc = "handle"
        /\ UNCHANGED <<pub, row, lost>>
    BY <1>0, <1>9, HeadTailElems DEF TakeJob, WorkType
  <2> HIDE DEF j
  <2>2. /\ JobsOf(c) = {j} \cup JobsOf(c)'
        /\ \A d \in Channels \ {c} : JobsOf(d)' = JobsOf(d)
    BY <2>1 DEF JobsOf, Elems
  <2>3. \A s \in Slots : HasJob(s)' <=> HasJob(s)
    BY <2>1, <2>2, ConstantsAssumption DEF HasJob, NoWork
  <2>4. PendingHasJob <=> \A s \in Slots : row[s] = "pending" =>
                            pub[s].pc = "add" \/ HasJob(s) \/ s \in lost
    BY DEF PendingHasJob, HasJob
  <2>5. PendingHasJob'
    BY <2>1, <2>3, <2>4 DEF JobInv, PendingHasJob, HasJob
  <2> QED
    BY <2>1, <2>3, <2>5 DEF JobInv
<1>10. ASSUME NEW c \in Channels, Handle(c) \/ MarkProcessed(c) \/ MarkFailed(c)
       PROVE  JobInv'
  <2> DEFINE s == wk[c].slot
  <2>1. /\ s \in Slots
        /\ UNCHANGED <<pub, queue>>
        /\ \A d \in Channels : wk'[d].slot = wk[d].slot
        /\ \A d \in Channels \ {c} : wk'[d] = wk[d]
        /\ \A t \in Slots \ {s} : row'[t] = row[t]
        /\ lost \subseteq lost'
        /\ row'[s] = "pending" => row[s] = "pending"
        /\ wk'[c].pc = "done" => row'[s] # "pending" \/ s \in lost'
    <3>1. CASE Handle(c)
      BY <1>0, <3>1 DEF Handle, Goto, WorkType
    <3>2. CASE MarkProcessed(c)
      <4>0. s \in Slots /\ UNCHANGED <<pub, queue, lost>>
        BY <1>0, <3>2 DEF MarkProcessed, WorkType
      <4>1. CASE row' = [row EXCEPT ![s] = "processed"] /\ Goto(c, "done")
        BY <1>0, <4>0, <4>1 DEF Goto, WorkType, EventType
      <4>2. CASE UNCHANGED row /\ Goto(c, "markFailed")
        BY <1>0, <4>0, <4>2 DEF Goto, WorkType
      <4> QED
        BY <3>2, <4>1, <4>2 DEF MarkProcessed
    <3>3. CASE MarkFailed(c)
      BY <1>0, <3>3 DEF MarkFailed, Goto, WorkType, EventType
    <3> QED
      BY <1>10, <3>1, <3>2, <3>3
  <2>3. \A d \in Channels : JobsOf(d)' = JobsOf(d)
    BY <2>1 DEF JobsOf
  <2>4. PendingHasJob' /\ \A t \in Slots : HasJob(t)' <=> HasJob(t)
    BY <2>1, <2>3 DEF JobInv, PendingHasJob, HasJob
  <2>5. \A d \in Channels \ {c} : wk[d].pc = "done" => wk[d].slot \in Slots
    BY <1>0 DEF WorkType
  <2>6. \A d \in Channels : wk'[d].pc = "done" =>
          row'[wk'[d].slot] # "pending" \/ wk'[d].slot \in lost'
    BY <2>1, <2>5 DEF JobInv
  <2> QED
    BY <2>1, <2>4, <2>6 DEF JobInv
<1>11. ASSUME NEW c \in Channels, SettleJob(c) PROVE JobInv'
  <2>1. /\ wk[c].pc = "done" /\ wk[c].slot \in Slots /\ wk'[c] = NoWork
        /\ UNCHANGED <<pub, row, queue, lost>>
        /\ \A d \in Channels \ {c} : wk'[d] = wk[d]
    BY <1>0, <1>11 DEF SettleJob, WorkType
  <2>2. \A d \in Channels : JobsOf(d)' = JobsOf(d)
    BY <2>1 DEF JobsOf
  <2>3. \A s \in Slots : /\ HasJob(s)' => HasJob(s)
                         /\ HasJob(s) => HasJob(s)' \/ s = wk[c].slot
    BY <2>1, <2>2, ConstantsAssumption DEF HasJob, NoWork
  <2>4. PendingHasJob'
    BY <2>1, <2>2, <2>3 DEF JobInv, PendingHasJob, HasJob
  <2> QED
    BY <2>1, <2>3, <2>4 DEF JobInv, NoWork
<1>12. CASE Crash
  <2>1. /\ row' = row
        /\ \A c \in Channels : wk'[c] = NoWork /\ queue'[c] = Requeued(c)
        /\ lost' = lost \cup {s \in Slots : pub[s].pc = "add"}
                        \cup {wk[c].slot : c \in {d \in Channels : wk[d].stalls = 1}}
    BY <1>12 DEF Crash
  <2>2. \A s \in Slots : /\ pub'[s].pc = "sent" <=> pub[s].pc \in {"add", "sent"}
                         /\ pub'[s].pc # "add"
    BY <1>0, <1>12 DEF Crash, EventType, Free
  <2>3. \A c \in Channels : JobsOf(c) = Elems(queue[c]) /\ JobsOf(c)' = Elems(Requeued(c))
    BY <2>1 DEF JobsOf, Elems
  <2>4. \A s \in Slots : HasJob(s)' => HasJob(s)
    <3>1. ASSUME NEW s \in Slots, NEW c \in Channels, NEW j \in JobsOf(c)', j.slot = s
          PROVE  HasJob(s)
      <4>1. j \in Elems(queue[c]) \/ wk[c].slot = s
        BY <1>0, <2>3, <3>1, RequeuedType
      <4> QED
        BY <2>3, <3>1, <4>1 DEF HasJob
    <3>2. \A s \in Slots, c \in Channels : wk'[c].slot # s
      BY <2>1, ConstantsAssumption DEF NoWork
    <3> QED
      BY <3>1, <3>2 DEF HasJob
  <2>5. \A s \in Slots : HasJob(s) => HasJob(s)' \/ s \in lost'
    <3>1. ASSUME NEW s \in Slots, NEW c \in Channels, wk[c].slot = s
          PROVE  HasJob(s)' \/ s \in lost'
      <4>1. wk[c].pc # "idle" /\ wk[c].stalls \in {0, 1}
        BY <1>0, <3>1, ConstantsAssumption DEF WorkType, NoWork
      <4>2. CASE wk[c].stalls = 1
        BY <2>1, <3>1, <4>2
      <4>3. CASE wk[c].stalls = 0
        <5>1. [slot |-> s, stalls |-> 1] \in JobsOf(c)'
          BY <1>0, <2>3, <3>1, <4>1, <4>3, RequeuedType
        <5> QED
          BY <5>1 DEF HasJob
      <4> QED
        BY <4>1, <4>2, <4>3
    <3>2. ASSUME NEW s \in Slots, NEW c \in Channels, NEW j \in JobsOf(c), j.slot = s
          PROVE  HasJob(s)'
      <4>1. j \in JobsOf(c)'
        BY <1>0, <2>3, <3>2, RequeuedType
      <4> QED
        BY <3>2, <4>1 DEF HasJob
    <3> QED
      BY <3>1, <3>2 DEF HasJob
  <2>6. PendingHasJob'
    <3>1. \A s \in Slots : row[s] = "pending" =>
            pub[s].pc = "add" \/ HasJob(s) \/ s \in lost
      BY DEF JobInv, PendingHasJob, HasJob
    <3>2. \A s \in Slots : row'[s] = "pending" => HasJob(s)' \/ s \in lost'
      BY <2>1, <2>5, <3>1
    <3> QED
      BY <3>2 DEF PendingHasJob, HasJob
  <2> QED
    BY <2>1, <2>2, <2>4, <2>6 DEF JobInv, NoWork
<1>13. ASSUME NEW c \in Channels, MissingHandler(c) PROVE JobInv'
  <2> DEFINE j == Head(queue[c])
  <2>1. /\ Elems(queue[c]) = {j} \cup Elems(queue'[c])
        /\ \A d \in Channels \ {c} : queue'[d] = queue[d]
        /\ lost' = lost \cup {j.slot}
        /\ UNCHANGED <<pub, row, wk>>
    BY <1>0, <1>13, HeadTailElems DEF MissingHandler, WorkType
  <2> HIDE DEF j
  <2>2. /\ JobsOf(c) = {j} \cup JobsOf(c)'
        /\ \A d \in Channels \ {c} : JobsOf(d)' = JobsOf(d)
    BY <2>1 DEF JobsOf, Elems
  <2>3. \A s \in Slots : /\ HasJob(s)' => HasJob(s)
                         /\ HasJob(s) => HasJob(s)' \/ s \in lost'
    BY <2>1, <2>2 DEF HasJob
  <2>6. \A s \in Slots : row'[s] = row[s] /\ pub'[s] = pub[s]
                        /\ (s \in lost => s \in lost')
    BY <2>1
  <2>4. PendingHasJob <=> \A s \in Slots : row[s] = "pending" =>
                            pub[s].pc = "add" \/ HasJob(s) \/ s \in lost
    BY DEF PendingHasJob, HasJob
  <2>5. PendingHasJob'
    <3>1. \A s \in Slots : row'[s] = "pending" =>
            pub'[s].pc = "add" \/ HasJob(s)' \/ s \in lost'
      BY <2>3, <2>4, <2>6 DEF JobInv
    <3> QED
      BY <3>1 DEF PendingHasJob, HasJob
  <2> QED
    BY <2>1, <2>3, <2>5, <2>6 DEF JobInv
<1>14. CASE UNCHANGED vars
  <2>1. UNCHANGED <<pub, row, queue, wk, lost>>
    BY <1>14 DEF vars
  <2> QED
    BY <2>1, KeepsJobs DEF JobsOf
<1> QED
  BY <1>1, <1>3, <1>4, <1>5, <1>6, <1>7, <1>8, <1>9, <1>10, <1>11, <1>12, <1>13, <1>14
     DEF Next, Publish, Work

\* No event stays pending in the database with nobody to mark it, except those
\* recorded as lost: with Dispatch = {"missing"}, as the workers register their
\* handlers, that is every event whose job is taken.
THEOREM PendingEventsHaveJobs == Spec => []PendingHasJob
<1>1. Spec => [](TypeOK /\ JobInv)
  BY InitType, NextType, InitJobs, NextJobs, PTL DEF Spec
<1>2. JobInv => PendingHasJob
  BY DEF JobInv
<1> QED
  BY <1>1, <1>2, PTL
=============================================================================
