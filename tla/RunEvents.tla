------------------------------- MODULE RunEvents -------------------------------
(***************************************************************************)
(* GSDEventStream and what listens to it: provider messages become GSD        *)
(* events (mapSDKMessage), runners emit events of their own, and each event  *)
(* goes to every transport in the order they were added: the vault's log,     *)
(* a file for each phase (ObsidianTransport), the terminal (CLITransport)     *)
(* and any other handler.  A call is synchronous: while its events are being *)
(* emitted (pending) and handed to the transports (serving), nothing else     *)
(* happens.  Transports are added before the run and removed only all         *)
(* together, at its end; the listeners that the pipeline adds next to them    *)
(* are asynchronous and cannot throw here.                                   *)
(*                                                                         *)
(* Of an event only what its readers look at is kept: its type, the phase it *)
(* names, the session it belongs to and its cost.                            *)
(***************************************************************************)
EXTENDS Naturals, Sequences, SequencesExt, FiniteSetsExt

CONSTANTS
  PhaseNumbers,      \* phases of the run
  SessionIds,        \* provider sessions
  CostsUsd,          \* what a session may cost, in some unit
  MessageSubtypes,   \* subtypes of the system messages that arrive
  MessageKinds,      \* kinds of the messages that are of no further interest
  MaxEvents,         \* bound: events emitted
  MaxToolBlocks,     \* bound: tool_use blocks of an assistant message
  MaxWriteFailures   \* bound: appends that the disk refuses

ASSUME RunEventsAssumption ==
  /\ IsFiniteSet(SessionIds) /\ CostsUsd \subseteq Nat
  /\ MessageKinds \cap {"system", "assistant", "result"} = {}
  /\ MaxEvents \in Nat /\ MaxToolBlocks \in Nat /\ MaxWriteFailures \in Nat

VARIABLES
  transports,  \* the handlers, in the order they were added
  pending,     \* events of the current call that are still to be emitted
  serving,     \* the handlers that the loop of emitEvent has not come to yet
  emitted,     \* history: the events emitted
  due,         \* history: for each transport, the events emitted while it was there
  got,         \* the events each transport was given, by their number
  vaultLog,    \* the vault's log: is projectSlug set, the phase whose file is
               \* current, and the events in each file
  lostLines,   \* history: events whose line the disk refused
  runningCost, \* runningCostUsd of the terminal
  costTracker  \* what each session has cost so far, and cumulativeCostUsd

runEventsVars ==
  <<transports, pending, serving, emitted, due, got, vaultLog, lostLines, runningCost,
    costTracker>>

----------------------------------------------------------------------------
Setup == "setup"   \* phases/setup: no phase has begun, or the project has no slug
LogFiles == PhaseNumbers \cup {Setup}
Handlers == {"vault", "cli", "other"}

EventTypes ==
  {"session_init", "session_complete", "session_error", "assistant_text", "tool_call",
   "tool_progress", "tool_use_summary", "task_started", "task_progress",
   "task_notification", "cost_update", "api_retry", "rate_limit", "status_change",
   "compact_boundary", "stream_event", "phase_start", "phase_step_start",
   "phase_step_complete", "phase_complete", "wave_start", "wave_complete",
   "milestone_start", "milestone_complete", "init_start", "init_step_start",
   "init_step_complete", "init_complete", "init_research_spawn"}

NoneOf == "none"
Event(type, phase, session, cost) ==
  [type |-> type, phase |-> phase, session |-> session, cost |-> cost]
Plain(type) == Event(type, NoneOf, NoneOf, 0)

(* The shapes of the messages of a provider.                                 *)
SystemMessages == [kind : {"system"}, subtype : MessageSubtypes, detail : BOOLEAN]
AssistantMessages == [kind : {"assistant"}, text : BOOLEAN, tools : 0..MaxToolBlocks]
ResultMessages == [kind : {"result"}, success : BOOLEAN, session : SessionIds, cost : CostsUsd]
OtherMessages == [kind : MessageKinds]

RunEventsInit ==
  /\ transports \in {s \in [1..3 -> Handlers] : IsInjective(s)}
  /\ pending = <<>> /\ serving = <<>> /\ emitted = <<>>
  /\ due = [t \in Handlers |-> <<>>]
  /\ got = [t \in Handlers |-> <<>>]
  /\ \E slug \in BOOLEAN :
       vaultLog = [slug |-> slug, current |-> Setup, files |-> [f \in LogFiles |-> <<>>]]
  /\ lostLines = {}
  /\ runningCost = 0
  /\ costTracker = [sessions |-> [s \in SessionIds |-> 0], cumulative |-> 0]

----------------------------------------------------------------------------
(* mapSDKMessage.                                                            *)

\* mapSystemMessage; two of the subtypes are dropped without their details.
SystemEventType ==
  [init |-> "session_init", api_retry |-> "api_retry", status |-> "status_change",
   compact_boundary |-> "compact_boundary", task_started |-> "task_started",
   task_progress |-> "task_progress", task_notification |-> "task_notification"]
SystemEvents(m) ==
  IF \/ m.subtype \notin DOMAIN SystemEventType
     \/ m.subtype \in {"compact_boundary", "task_progress"} /\ ~m.detail
  THEN <<>> ELSE <<Plain(SystemEventType[m.subtype])>>

\* mapAssistantMessage: one event for all the text, then one for each tool call.
AssistantEvents(m) ==
  (IF m.text THEN <<Plain("assistant_text")>> ELSE <<>>)
    \o [i \in 1..m.tools |-> Plain("tool_call")]

ResultEvents(m) ==
  <<Event(IF m.success THEN "session_complete" ELSE "session_error",
          NoneOf, m.session, m.cost)>>

OtherEventType ==
  [tool_progress |-> "tool_progress", tool_use_summary |-> "tool_use_summary",
   rate_limit_event |-> "rate_limit", stream_event |-> "stream_event"]

Mapped(m) ==
  CASE m.kind = "system" -> SystemEvents(m)
    [] m.kind = "assistant" -> AssistantEvents(m)
    [] m.kind = "result" -> ResultEvents(m)
    [] m.kind \in DOMAIN OtherEventType -> <<Plain(OtherEventType[m.kind])>>
    [] OTHER -> <<>>

\* Mutant: every result adds the whole cost of its session.
UpdatedCost_Whole(tracker, session, cost) ==
  [sessions |-> [tracker.sessions EXCEPT ![session] = cost],
   cumulative |-> tracker.cumulative + cost]

\* updateCost: total_cost_usd is that of the session so far.
UpdatedCost(tracker, session, cost) ==
  [sessions |-> [tracker.sessions EXCEPT ![session] = cost],
   cumulative |-> (tracker.cumulative + cost) - tracker.sessions[session]]

Room(n) == pending = <<>> /\ serving = <<>> /\ Len(emitted) + n <= MaxEvents

\* mapAndEmit: of several events all but the last are emitted by the mapping
\* itself, and the last by its caller.
MapAndEmit(m) ==
  /\ Room(Len(Mapped(m))) /\ Mapped(m) # <<>>
  /\ pending' = Mapped(m)
  /\ costTracker' = IF m.kind = "result" THEN UpdatedCost(costTracker, m.session, m.cost)
                    ELSE costTracker
  /\ UNCHANGED <<transports, serving, emitted, due, got, vaultLog, lostLines, runningCost>>

\* The events of the runners; processGenerationResult reports the cost of its
\* session, of which the terminal only adds up the cost.
RunnerEvents ==
  {Event(t, p, NoneOf, 0) : t \in {"phase_start", "phase_complete"}, p \in PhaseNumbers}
    \cup {Event("cost_update", NoneOf, NoneOf, c) : c \in CostsUsd}
    \cup {Plain("milestone_complete")}

RunnerEmits(e) ==
  /\ Room(1)
  /\ pending' = <<e>>
  /\ UNCHANGED <<transports, serving, emitted, due, got, vaultLog, lostLines, runningCost,
                 costTracker>>

----------------------------------------------------------------------------
(* emitEvent, for the next event of the call.                                *)
EmitEvent ==
  /\ serving = <<>> /\ pending # <<>>
  /\ emitted' = Append(emitted, Head(pending))
  /\ due' = [t \in Handlers |-> IF t \in ToSet(transports) THEN Append(due[t], Len(emitted'))
                                ELSE due[t]]
  /\ serving' = transports
  /\ pending' = Tail(pending)
  /\ UNCHANGED <<transports, got, vaultLog, lostLines, runningCost, costTracker>>

\* The event that the loop hands round, and to whom next.
CurrentEvent == emitted[Len(emitted)]
Given(t) == got' = [got EXCEPT ![t] = Append(@, Len(emitted))]

\* ObsidianTransport.formatEvent has no line for the other types.
HasLine(e) == e.type \in {"session_init", "session_complete", "session_error",
                          "phase_start", "phase_complete", "cost_update", "tool_call"}

\* The phase of an event that begins or ends one is noted first.
PhaseNoted(e) ==
  IF e.type \in {"phase_start", "phase_complete"} THEN e.phase ELSE vaultLog.current

\* Mutant: the file is resolved before the phase is noted.
LogFile_Late(e) == IF vaultLog.slug THEN vaultLog.current ELSE Setup

\* resolveLogFilePath: the file of the phase, or one file for everything when
\* the project has no slug.
LogFile(e) == IF vaultLog.slug THEN PhaseNoted(e) ELSE Setup

\* ObsidianTransport.onEvent; what it throws it catches.
LogEvent(e, n, refuses) ==
  /\ vaultLog' =
       [vaultLog EXCEPT !.current = PhaseNoted(e),
                        !.files[LogFile(e)] = IF HasLine(e) /\ ~refuses THEN Append(@, n) ELSE @]
  /\ lostLines' = IF HasLine(e) /\ refuses THEN lostLines \cup {n} ELSE lostLines

\* CLITransport.formatEvent: the line of a cost update adds it to the running cost.
RunningCost(e) == runningCost + (IF e.type = "cost_update" THEN e.cost ELSE 0)

\* One turn of the loop whose handler returns.
Deliver ==
  /\ serving # <<>>
  /\ LET t == Head(serving)
     IN /\ Given(t)
        /\ \/ /\ t = "vault"
              /\ \E refuses \in BOOLEAN :
                   /\ refuses => HasLine(CurrentEvent) /\ Cardinality(lostLines) < MaxWriteFailures
                   /\ LogEvent(CurrentEvent, Len(emitted), refuses)
              /\ UNCHANGED runningCost
           \/ /\ t = "cli"
              /\ runningCost' = RunningCost(CurrentEvent)
              /\ UNCHANGED <<vaultLog, lostLines>>
           \/ t = "other" /\ UNCHANGED <<vaultLog, lostLines, runningCost>>
  /\ serving' = Tail(serving)
  /\ UNCHANGED <<transports, pending, emitted, due, costTracker>>

\* Mutant: the try block is around the loop and not in it.
DeliverThrows_EndsLoop ==
  /\ serving # <<>> /\ Head(serving) = "other"
  /\ Given("other")
  /\ serving' = <<>>
  /\ UNCHANGED <<transports, pending, emitted, due, vaultLog, lostLines, runningCost, costTracker>>

\* One turn whose handler throws; the catch block is in the loop.
DeliverThrows ==
  /\ serving # <<>> /\ Head(serving) = "other"
  /\ Given("other")
  /\ serving' = Tail(serving)
  /\ UNCHANGED <<transports, pending, emitted, due, vaultLog, lostLines, runningCost, costTracker>>

CloseAll ==
  /\ pending = <<>> /\ serving = <<>> /\ transports # <<>>
  /\ transports' = <<>>
  /\ UNCHANGED <<pending, serving, emitted, due, got, vaultLog, lostLines, runningCost,
                 costTracker>>

RunEventsNext ==
  \/ \E m \in SystemMessages \cup AssistantMessages \cup ResultMessages \cup OtherMessages :
       MapAndEmit(m)
  \/ \E e \in RunnerEvents : RunnerEmits(e)
  \/ EmitEvent \/ Deliver \/ DeliverThrows
  \/ CloseAll

RunEventsSpec == RunEventsInit /\ [][RunEventsNext]_runEventsVars

----------------------------------------------------------------------------
\* Every variable keeps its type.
RunEventsTypeOK ==
  /\ transports \in Seq(Handlers) /\ IsInjective(transports)
  /\ serving \in Seq(Handlers)
  /\ \A e \in ToSet(pending) \cup ToSet(emitted) :
       /\ e.type \in EventTypes /\ e.cost \in Nat
       /\ e.phase \in PhaseNumbers \cup {NoneOf} /\ e.session \in SessionIds \cup {NoneOf}
  /\ due \in [Handlers -> Seq(Nat)] /\ got \in [Handlers -> Seq(Nat)]
  /\ vaultLog \in [slug : BOOLEAN, current : LogFiles, files : [LogFiles -> Seq(Nat)]]
  /\ lostLines \subseteq Nat /\ runningCost \in Nat
  /\ costTracker \in [sessions : [SessionIds -> Nat], cumulative : Nat]

----------------------------------------------------------------------------
\* Whatever a handler throws and in whichever order the handlers stand, each is
\* given every event that is emitted while it is subscribed, once and in order,
\* by the time the call is over; the several events of one assistant message too.
NoneIsSkipped == serving = <<>> => \A t \in Handlers : got[t] = due[t]

\* The lines of the log are where they happened: an event that has a line and
\* was not refused by the disk is in one file, that of the phase which began or
\* ended last when it was emitted, and each file is in the order of emission.  The
\* phases are told apart only for a project that has a slug: without one every
\* line is in the setup file.
PhaseAt(n) ==
  LET named == {i \in ToSet(got["vault"]) :
                  i <= n /\ emitted[i].type \in {"phase_start", "phase_complete"}}
  IN IF named = {} THEN Setup ELSE emitted[Max(named)].phase
Increasing(ns) == \A i, j \in DOMAIN ns : i < j => ns[i] < ns[j]
FileAt(n) == IF vaultLog.slug THEN PhaseAt(n) ELSE Setup
LoggedInItsPhase ==
  \A f \in LogFiles :
    /\ ToSet(vaultLog.files[f]) = {n \in ToSet(got["vault"]) :
                                     HasLine(emitted[n]) /\ n \notin lostLines /\ FileAt(n) = f}
    /\ Increasing(vaultLog.files[f])

\* The cumulative cost is the sum, over the sessions, of the cost that each has
\* reported last, however the reports of several sessions alternate; and the
\* running cost of the terminal is the sum of the cost updates it was given.
SumOver(f, S) == FoldFunctionOnSet(+, 0, f, S)
LastCost(s) ==
  LET events == emitted \o pending
      reports == {i \in DOMAIN events :
                    events[i].type \in {"session_complete", "session_error"}
                    /\ events[i].session = s}
  IN IF reports = {} THEN 0 ELSE events[Max(reports)].cost
CostUpdate(e) == IF e.type = "cost_update" THEN e.cost ELSE 0
CostsAddUp ==
  /\ costTracker.cumulative = SumOver([s \in SessionIds |-> LastCost(s)], SessionIds)
  /\ runningCost = SumOver([n \in DOMAIN emitted |-> CostUpdate(emitted[n])], ToSet(got["cli"]))
=============================================================================
