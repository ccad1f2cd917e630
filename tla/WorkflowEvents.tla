--------------------------- MODULE WorkflowEvents ---------------------------
(***************************************************************************)
(* The events of one API process and the human gates they open.  A run     *)
(* that needs a decision sends a prompt to the chat and then registers a   *)
(* pending gate (HumanGateBridge); the user's reply is published as an     *)
(* event (TelegramBotService, EventsService), queued, and handled by a     *)
(* worker that opens the gate of its key (WorkflowEventsWorker).           *)
(*                                                                         *)
(* Every event goes the same way: a row is saved as pending, a job is      *)
(* added to the queue of its channel, and the channel's worker marks the   *)
(* row processed or failed.  Pending gates live in the process's memory,   *)
(* rows and jobs outlive it.                                               *)
(*                                                                         *)
(* Two things keep this from working as the code stands.  A job is added   *)
(* under the type of its event and the workers register a handler without  *)
(* a name, so Bull 4 fails the job and calls nothing (Dispatch, as in      *)
(* PlanLifecycle).  And the key of a gate goes into a uuid column, as does *)
(* the number of the chat, so the row of a reply is refused (SaveableKeys).*)
(***************************************************************************)
EXTENDS Naturals, Sequences, FiniteSets

CONSTANTS
  Keys,        \* gate keys, e.g. verify:<plan>:<phase>
  NoKey,       \* the key of an event that is no reply to a gate
  SaveableKeys, \* keys whose replies the events table accepts; with its uuid
               \* columns, correlationId and conversationId: none
  Dispatch,    \* what Bull may do with a named job: "handler", "missing"
  Slots,       \* bound: events in flight together
  NoSlot,
  MaxCrashes,  \* bound: crashes of the process
  Faults,      \* the services whose calls may fail
  MaxFaults    \* bound: failed calls

ASSUME ConstantsAssumption ==
  /\ Keys # {} /\ NoKey \notin Keys
  /\ SaveableKeys \subseteq Keys
  /\ Dispatch \subseteq {"handler", "missing"}
  /\ Slots # {} /\ NoSlot \notin Slots
  /\ MaxCrashes \in Nat /\ MaxFaults \in Nat
  /\ Faults \subseteq {"postgres", "redis", "telegram"}

VARIABLES
  up,        \* is the process running?
  run,       \* where the run is: busy, sending a prompt, or waiting at a gate
  gate,      \* pendingGates: the keys somebody waits for
  chat,      \* the keys of the prompts in the chat; they stay there
  shown,     \* is the prompt of the current gate in the chat?
  pub,       \* the publication of the event in each slot
  row,       \* events.status of the event in each slot
  queue,     \* the jobs that wait in each channel, oldest first
  wk,        \* what the worker of each channel is doing, and its job
  lost,      \* history: events whose row nobody will touch any more
  crashes, faults

vars == <<up, run, gate, chat, shown, pub, row, queue, wk, lost,
          crashes, faults>>

----------------------------------------------------------------------------
Channels == {"project.events", "workflow.events"}

NoRun == [pc |-> "none", key |-> NoKey]
Busy == [pc |-> "busy", key |-> NoKey]
Free == [pc |-> "free", channel |-> "project.events", key |-> NoKey]
NoWork == [pc |-> "idle", slot |-> NoSlot, stalls |-> 0]

Job == [slot : Slots, stalls : {0, 1}]
JobsOf(c) == {queue[c][i] : i \in 1..Len(queue[c])}

Fault(service) == /\ service \in Faults
                  /\ faults < MaxFaults
                  /\ faults' = faults + 1

Init ==
  /\ up = TRUE
  /\ run = Busy
  /\ gate = {} /\ chat = {}
  /\ shown = FALSE
  /\ pub = [s \in Slots |-> Free]
  /\ row = [s \in Slots |-> "none"]
  /\ queue = [c \in Channels |-> <<>>]
  /\ wk = [c \in Channels |-> NoWork]
  /\ lost = {}
  /\ crashes = 0 /\ faults = 0

----------------------------------------------------------------------------
(* HumanGateBridge: one run at a time reaches a gate, because the worker of *)
(* execution.jobs runs one job at a time.                                   *)

\* A callback of buildCallbacks starts to send its prompt.
Ask(k) ==
  /\ run.pc = "busy"
  /\ run' = [pc |-> "sending", key |-> k]
  /\ shown' = FALSE
  /\ UNCHANGED <<up, gate, chat, pub, row, queue, wk, lost, crashes, faults>>

\* Telegram shows the prompt; the call that sends it has yet to return.
PromptShown ==
  /\ run.pc = "sending"
  /\ ~shown
  /\ shown' = TRUE
  /\ chat' = chat \cup {run.key}
  /\ UNCHANGED <<up, run, gate, pub, row, queue, wk, lost, crashes, faults>>

\* The notifier returns, whether the prompt was sent or not (it swallows the
\* failure), and waitForResponse registers the gate.
Register ==
  /\ run.pc = "sending"
  /\ \/ shown /\ UNCHANGED faults
     \/ ~shown /\ Fault("telegram")
  /\ run' = [run EXCEPT !.pc = "waiting"]
  /\ gate' = gate \cup {run.key}
  /\ UNCHANGED <<up, chat, shown, pub, row, queue, wk, lost, crashes>>

----------------------------------------------------------------------------
(* Replies and other events.                                               *)

\* The user answers a prompt of the chat, current or old: with /approve <key>,
\* which persists an event of its own first, or with the key as plain text.
UserReplies(s, k) ==
  /\ up
  /\ pub[s] = Free
  /\ k \in chat
  /\ \E pc \in {"persist", "save"} :
       pub' = [pub EXCEPT ![s] = [pc |-> pc, channel |-> "workflow.events", key |-> k]]
  /\ UNCHANGED <<up, run, gate, chat, shown, row, queue, wk, lost, crashes, faults>>

\* Any other event: a command (project.events), a GSD event of the run or a
\* plan.recovered (workflow.events).
Emit(s, c) ==
  /\ up
  /\ pub[s] = Free
  /\ pub' = [pub EXCEPT ![s] = [pc |-> "save", channel |-> c, key |-> NoKey]]
  /\ UNCHANGED <<up, run, gate, chat, shown, row, queue, wk, lost,
                 crashes, faults>>

\* The command's own event is published or fails to be; the reply goes on.
PersistEvent(s) ==
  /\ pub[s].pc = "persist"
  /\ pub' = [pub EXCEPT ![s] = [@ EXCEPT !.pc = "save"]]
  /\ UNCHANGED <<up, run, gate, chat, shown, row, queue, wk, lost,
                 crashes, faults>>

\* Mutant: the row is saved and no job is added.
SaveEvent_NoJob(s) ==
  /\ pub[s].pc = "save"
  /\ row' = [row EXCEPT ![s] = "pending"]
  /\ pub' = [pub EXCEPT ![s] = [@ EXCEPT !.pc = "sent"]]
  /\ UNCHANGED <<up, run, gate, chat, shown, queue, wk, lost,
                 crashes, faults>>
\* Mutant: the row is saved with a status of the queue.
SaveEvent_Waiting(s) ==
  /\ pub[s].pc = "save"
  /\ row' = [row EXCEPT ![s] = "waiting"]
  /\ pub' = [pub EXCEPT ![s] = [@ EXCEPT !.pc = "add"]]
  /\ UNCHANGED <<up, run, gate, chat, shown, queue, wk, lost,
                 crashes, faults>>

\* EventsService.publish, first await.  The row of a reply is refused unless its
\* key is saveable, that of another event if its conversation is the number of a
\* chat.  Every caller swallows a failure.
SaveEvent(s) ==
  /\ pub[s].pc = "save"
  /\ \/ /\ pub[s].key \in SaveableKeys \cup {NoKey}
        /\ row' = [row EXCEPT ![s] = "pending"]
        /\ pub' = [pub EXCEPT ![s] = [@ EXCEPT !.pc = "add"]]
        /\ UNCHANGED faults
     \/ /\ \/ pub[s].key \notin SaveableKeys /\ UNCHANGED faults
           \/ Fault("postgres")
        /\ pub' = [pub EXCEPT ![s] = Free]
        /\ UNCHANGED row
  /\ UNCHANGED <<up, run, gate, chat, shown, queue, wk, lost, crashes>>

\* EventsService.publish, second await: the row is not undone when it fails,
\* and the user is told that the gate is approved all the same.
AddJob(s) ==
  /\ pub[s].pc = "add"
  /\ pub' = [pub EXCEPT ![s] = [@ EXCEPT !.pc = "sent"]]
  /\ \/ /\ queue' = [queue EXCEPT ![pub[s].channel] =
                       Append(@, [slot |-> s, stalls |-> 0])]
        /\ UNCHANGED <<lost, faults>>
     \/ /\ Fault("redis")
        /\ lost' = lost \cup {s}
        /\ UNCHANGED queue
  /\ UNCHANGED <<up, run, gate, chat, shown, row, wk, crashes>>

\* Nothing refers to the event any more: its slot may hold another one.
Recycle(s) ==
  /\ pub[s].pc = "sent"
  /\ \A c \in Channels : wk[c].slot # s /\ \A j \in JobsOf(c) : j.slot # s
  /\ pub' = [pub EXCEPT ![s] = Free]
  /\ row' = [row EXCEPT ![s] = "none"]
  /\ lost' = lost \ {s}
  /\ UNCHANGED <<up, run, gate, chat, shown, queue, wk, crashes, faults>>

----------------------------------------------------------------------------
(* ProjectEventsWorker and WorkflowEventsWorker.                           *)
TakeJob(c) ==
  /\ "handler" \in Dispatch
  /\ up
  /\ wk[c] = NoWork
  /\ queue[c] # <<>>
  /\ LET j == Head(queue[c])
     IN wk' = [wk EXCEPT ![c] = [pc |-> "handle", slot |-> j.slot, stalls |-> j.stalls]]
  /\ queue' = [queue EXCEPT ![c] = Tail(@)]
  /\ UNCHANGED <<up, run, gate, chat, shown, pub, row, lost, crashes, faults>>

\* "Missing process handler for job type": the job fails, is not attempted
\* again, and its event hears nothing of it.
MissingHandler(c) ==
  /\ "missing" \in Dispatch
  /\ up
  /\ wk[c] = NoWork
  /\ queue[c] # <<>>
  /\ lost' = lost \cup {Head(queue[c]).slot}
  /\ queue' = [queue EXCEPT ![c] = Tail(@)]
  /\ UNCHANGED <<up, run, gate, chat, shown, pub, row, wk, crashes, faults>>

Goto(c, pc) == wk' = [wk EXCEPT ![c] = [@ EXCEPT !.pc = pc]]

\* Mutant: resolveGate does not delete the gate it resolves.
Handle_KeepsGate(c) ==
  /\ wk[c].pc = "handle"
  /\ IF pub[wk[c].slot].key \in gate
     THEN run' = Busy /\ shown' = FALSE
     ELSE UNCHANGED <<run, shown>>
  /\ Goto(c, "mark")
  /\ UNCHANGED <<up, gate, chat, pub, row, queue, lost, crashes, faults>>

\* resolveGate: the pending gate of the reply's key is deleted and its run
\* goes on; a reply for which no gate is pending is only logged.
Handle(c) ==
  /\ wk[c].pc = "handle"
  /\ LET k == pub[wk[c].slot].key
     IN \/ /\ k \in gate
           /\ gate' = gate \ {k}
           /\ run' = Busy
           /\ shown' = FALSE
        \/ /\ k \notin gate
           /\ UNCHANGED <<gate, run, shown>>
  /\ Goto(c, "mark")
  /\ UNCHANGED <<up, chat, pub, row, queue, lost, crashes, faults>>

\* Mutant: the catch block does not mark the event.
MarkProcessed_NoCatch(c) ==
  /\ wk[c].pc = "mark"
  /\ \/ /\ row' = [row EXCEPT ![wk[c].slot] = "processed"]
        /\ UNCHANGED faults
     \/ Fault("postgres") /\ UNCHANGED row
  /\ Goto(c, "done")
  /\ UNCHANGED <<up, run, gate, chat, shown, pub, queue, lost, crashes>>

MarkProcessed(c) ==
  /\ wk[c].pc = "mark"
  /\ \/ /\ row' = [row EXCEPT ![wk[c].slot] = "processed"]
        /\ Goto(c, "done")
        /\ UNCHANGED faults
     \/ /\ Fault("postgres")
        /\ Goto(c, "markFailed")
        /\ UNCHANGED row
  /\ UNCHANGED <<up, run, gate, chat, shown, pub, queue, lost, crashes>>

\* The catch block; a failure of markFailed is only logged.
MarkFailed(c) ==
  /\ wk[c].pc = "markFailed"
  /\ \/ /\ row' = [row EXCEPT ![wk[c].slot] = "failed"]
        /\ UNCHANGED <<lost, faults>>
     \/ /\ Fault("postgres")
        /\ lost' = lost \cup {wk[c].slot}
        /\ UNCHANGED row
  /\ Goto(c, "done")
  /\ UNCHANGED <<up, run, gate, chat, shown, pub, queue, crashes>>

\* The handler has returned or thrown; the job is not attempted again.
SettleJob(c) ==
  /\ wk[c].pc = "done"
  /\ wk' = [wk EXCEPT ![c] = NoWork]
  /\ UNCHANGED <<up, run, gate, chat, shown, pub, row, queue, lost,
                 crashes, faults>>

----------------------------------------------------------------------------
(* The end of the process: gates, publications and the run are gone.  Redis *)
(* gives the job of a worker to the next process, ahead of the others, once.*)
Requeued(c) ==
  IF wk[c].pc = "idle" \/ wk[c].stalls = 1 THEN queue[c]
  ELSE <<[slot |-> wk[c].slot, stalls |-> 1]>> \o queue[c]

Crash ==
  /\ up
  /\ crashes < MaxCrashes
  /\ crashes' = crashes + 1
  /\ up' = FALSE
  /\ run' = NoRun
  /\ gate' = {} /\ shown' = FALSE
  /\ pub' = [s \in Slots |-> CASE pub[s].pc \in {"persist", "save"} -> Free
                               [] pub[s].pc = "add" -> [pub[s] EXCEPT !.pc = "sent"]
                               [] OTHER -> pub[s]]
  /\ queue' = [c \in Channels |-> Requeued(c)]
  /\ wk' = [c \in Channels |-> NoWork]
  /\ lost' = lost \cup {s \in Slots : pub[s].pc = "add"}
                  \cup {wk[c].slot : c \in {d \in Channels : wk[d].stalls = 1}}
  /\ UNCHANGED <<chat, row, faults>>

\* A new process; the recovered run starts over (see PlanLifecycle).
Boot ==
  /\ ~up
  /\ up' = TRUE
  /\ run' = Busy
  /\ UNCHANGED <<gate, chat, shown, pub, row, queue, wk, lost,
                 crashes, faults>>

----------------------------------------------------------------------------
Publish(s) == PersistEvent(s) \/ SaveEvent(s) \/ AddJob(s)

Work(c) == \/ TakeJob(c) \/ MissingHandler(c) \/ Handle(c) \/ MarkProcessed(c) \/ MarkFailed(c)
           \/ SettleJob(c)

Next == \/ \E k \in Keys : Ask(k)
        \/ PromptShown \/ Register
        \/ \E s \in Slots, k \in Keys : UserReplies(s, k)
        \/ \E s \in Slots, c \in Channels : Emit(s, c)
        \/ \E s \in Slots : Publish(s) \/ Recycle(s)
        \/ \E c \in Channels : Work(c)
        \/ Crash \/ Boot

Spec == Init /\ [][Next]_vars

(* Node continues the calls in flight, Telegram shows what was sent or      *)
(* refuses it, Redis hands jobs to an idle worker, and a process that is    *)
(* down is started.                                                         *)
SystemFairness ==
  /\ WF_vars(PromptShown) /\ WF_vars(Register) /\ WF_vars(Boot)
  /\ \A s \in Slots : WF_vars(Publish(s)) /\ WF_vars(Recycle(s))
  /\ \A c \in Channels : WF_vars(Work(c))

(* A user who sees the prompt of a run that waits replies to it again and   *)
(* again.                                                                   *)
UserPersists ==
  SF_vars(/\ run.pc = "waiting" /\ shown
          /\ \E s \in Slots : UserReplies(s, run.key))

FairSpec == Spec /\ SystemFairness
PersistentSpec == FairSpec /\ UserPersists

----------------------------------------------------------------------------
(* Type invariant.                                                         *)
TypeOK ==
  /\ up \in BOOLEAN
  /\ run \in [pc : {"none", "busy", "sending", "waiting"}, key : Keys \cup {NoKey}]
  /\ run.pc \in {"sending", "waiting"} <=> run.key # NoKey
  /\ gate \subseteq Keys /\ chat \subseteq Keys
  /\ shown \in BOOLEAN
  /\ pub \in [Slots -> [pc : {"free", "persist", "save", "add", "sent"},
                        channel : Channels, key : Keys \cup {NoKey}]]
  /\ row \in [Slots -> {"none", "pending", "processed", "failed"}]
  /\ queue \in [Channels -> Seq(Job)]
  /\ wk \in [Channels -> [pc : {"idle", "handle", "mark", "markFailed", "done"},
                          slot : Slots \cup {NoSlot}, stalls : {0, 1}]]
  /\ \A c \in Channels : IF wk[c].pc = "idle" THEN wk[c] = NoWork
                        ELSE wk[c].slot \in Slots
  /\ lost \subseteq Slots
  /\ crashes \in Nat /\ faults \in Nat

----------------------------------------------------------------------------
(* Safety.                                                                 *)

\* The gates pending in the process are those its run waits at: a reply that
\* is handled twice, comes late or answers an old prompt never opens a gate of
\* a run that is doing something else, and no run waits at a gate that nobody
\* can open.
GateIsWaited == \A k \in Keys : k \in gate <=> run.pc = "waiting" /\ run.key = k

\* An event is pending in the database only while something will still mark
\* it: the call that has yet to add its job, the job, or the worker that has
\* taken it.  The exceptions are the events recorded as lost: those whose job
\* was not added, found no handler or died twice, or whose marks were refused.
PendingHasJob ==
  \A s \in Slots : row[s] = "pending" =>
    \/ pub[s].pc = "add"
    \/ \E c \in Channels : \E j \in JobsOf(c) : j.slot = s
    \/ \E c \in Channels : wk[c].slot = s
    \/ s \in lost

----------------------------------------------------------------------------
(* Liveness.                                                               *)

\* No event stays pending for good without a reason that can be named: it is
\* marked processed or failed, or its job was not added, found no handler, or
\* died twice, or both marks were refused (lost).
EventsSettle ==
  \A s \in Slots :
    row[s] = "pending" ~> row[s] \in {"processed", "failed"} \/ s \in lost

\* What .planning/REQUIREMENTS.md:41 says and the code does not do: "pauses
\* execution, ... resumes on user reply".  A run that waits at a gate whose
\* prompt the user can see goes on, if the user does not give up.
GateOpens == (run.pc = "waiting" /\ shown) ~> run.pc # "waiting"
=============================================================================
