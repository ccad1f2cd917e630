----------------------------- MODULE ChatThrottle -----------------------------
(***************************************************************************)
(* The middleware in front of the bot's handlers: TelegramThrottlerGuard     *)
(* counts the updates of each chat in windows that begin with the first      *)
(* update after the last one has ended.  The clock is that of Date.now(), in *)
(* ticks, and does not go back.  Updates of other chats than the allowed      *)
(* ones are dropped before they are counted.                                *)
(***************************************************************************)
EXTENDS Naturals, Sequences, SequencesExt

CONSTANTS
  AllowedChats,    \* TELEGRAM_ALLOWED_CHAT_IDS
  WINDOW,          \* WINDOW_MS, in ticks
  MAX_REQUESTS,
  MaxTime,         \* bound: ticks
  MaxPerTick       \* bound: updates of a chat in one tick

ASSUME ThrottleAssumption ==
  /\ WINDOW \in Nat \ {0} /\ MAX_REQUESTS \in Nat \ {0}
  /\ MaxTime \in Nat /\ MaxPerTick \in Nat

VARIABLES
  now,       \* Date.now()
  store,     \* the window of each chat: requests counted, end; 0 when none
  passed,    \* history: the ticks of the requests of each chat that reached a handler
  refused    \* history: the ticks of those that did not

throttleVars == <<now, store, passed, refused>>

----------------------------------------------------------------------------
Times == 0..MaxTime
NoWindow == [count |-> 0, resetAt |-> 0]

\* The requests, named by their places, of a period.
From(ticks, first) == {i \in DOMAIN ticks : first <= ticks[i]}
Between(ticks, first, last) == {i \in From(ticks, first) : ticks[i] <= last}

ThrottleInit ==
  /\ now = 0
  /\ store = [c \in AllowedChats |-> NoWindow]
  /\ passed = [c \in AllowedChats |-> <<>>]
  /\ refused = [c \in AllowedChats |-> <<>>]

Tick == /\ now < MaxTime
        /\ now' = now + 1
        /\ UNCHANGED <<store, passed, refused>>

\* Mutant: a request in a window that is full makes the window longer.
Checked_Extends(entry) ==
  IF now >= entry.resetAt THEN [count |-> 1, resetAt |-> now + WINDOW]
  ELSE IF entry.count >= MAX_REQUESTS
       THEN [count |-> entry.count + 1, resetAt |-> now + WINDOW]
       ELSE [entry EXCEPT !.count = @ + 1]

\* Mutant: the window ends with the request that comes when it is over.
Checked_NoReset(entry) ==
  IF now >= entry.resetAt THEN [count |-> 0, resetAt |-> now + WINDOW]
  ELSE [entry EXCEPT !.count = @ + 1]

\* check: what it leaves in the store; a refused request is counted as well.
Checked(entry) ==
  IF now >= entry.resetAt THEN [count |-> 1, resetAt |-> now + WINDOW]
  ELSE [entry EXCEPT !.count = @ + 1]

\* An update of an allowed chat goes to its handler or is answered "Too many
\* requests".
Update(c) ==
  /\ Cardinality(From(passed[c], now)) + Cardinality(From(refused[c], now)) < MaxPerTick
  /\ store' = [store EXCEPT ![c] = Checked(@)]
  /\ IF store'[c].count <= MAX_REQUESTS
     THEN passed' = [passed EXCEPT ![c] = Append(@, now)] /\ UNCHANGED refused
     ELSE refused' = [refused EXCEPT ![c] = Append(@, now)] /\ UNCHANGED passed
  /\ UNCHANGED now

ThrottleNext == Tick \/ \E c \in AllowedChats : Update(c)

ThrottleSpec == ThrottleInit /\ [][ThrottleNext]_throttleVars

----------------------------------------------------------------------------
\* Every variable keeps its type.
ThrottleTypeOK ==
  /\ now \in Times
  /\ store \in [AllowedChats -> [count : Nat, resetAt : Nat]]
  /\ passed \in [AllowedChats -> Seq(Times)]
  /\ refused \in [AllowedChats -> Seq(Times)]

----------------------------------------------------------------------------
\* However the requests of a chat fall on the windows, no period as long as a
\* window has more than two windows' worth of them reach a handler.  (It may
\* well have more than one window's worth: the windows do not slide.)
BurstBounded ==
  \A c \in AllowedChats, t \in Times :
    Cardinality(Between(passed[c], t, t + WINDOW - 1)) <= 2 * MAX_REQUESTS

\* What the documents say of TelegramThrottlerGuard: no period as long as a window
\* has more than MAX_REQUESTS requests of a chat that reach a handler, wherever it
\* begins (.planning/SECURITY.md:305-306).  Violated: a window that begins at its
\* first request forgets, when it is over, those of its last moments.
WindowSlides ==
  \A c \in AllowedChats, t \in Times :
    Cardinality(Between(passed[c], t, t + WINDOW - 1)) <= MAX_REQUESTS

\* A request of an allowed chat is refused only after MAX_REQUESTS others have
\* reached a handler in the window before it, whatever was refused meanwhile:
\* insisting does not lock a chat out.
RefusalIsEarned ==
  \A c \in AllowedChats : \A t \in ToSet(refused[c]) :
    Cardinality(Between(passed[c], IF t < WINDOW THEN 0 ELSE t - WINDOW + 1, t)) >= MAX_REQUESTS
=============================================================================
