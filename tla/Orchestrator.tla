----------------------------- MODULE Orchestrator -----------------------------
(***************************************************************************)
(* The autonomous trading service (modules/autonomous/orchestrator.py) and *)
(* the requests that control it (api/routes/platform.py, /bot/...).        *)
(*                                                                         *)
(* Everything runs on one asyncio event loop.  A trading loop (_run_loop)  *)
(* only suspends in its sleeps and while it is paused: the market data and *)
(* notification adapters never do.  So one wake-up of a loop, a whole      *)
(* cycle included, is one step, and so is every request, except for stop() *)
(* which waits for the task it has cancelled.                              *)
(*                                                                         *)
(* One orchestrator object is modelled.  /bot/stop ends by dropping it     *)
(* (`retired'): later requests reach a fresh object with a broker and a    *)
(* lock of its own, and only the loops it left behind go on.               *)
(*                                                                         *)
(* Of the paper broker the module keeps what the control flow depends on:  *)
(* whether there is a position, and a resting buy (open, or refused and    *)
(* left in _pending).  PaperBroker models the broker.                      *)
(***************************************************************************)
EXTENDS Integers, FiniteSets

CONSTANTS
  MaxLoops,        \* bound: how many loops are ever created
  SimulateOpen,    \* the values of simulate_market_open to consider
  StartsStopped    \* ... and of settings.emergency_stop when the service is built

ASSUME BoundAssumption == MaxLoops \in Nat \ {0}
ASSUME SettingsAssumption == SimulateOpen \subseteq BOOLEAN /\ StartsStopped \subseteq BOOLEAN

VARIABLES
  opState,       \* app_state.state.state
  stopFlag,      \* _stop is set
  paused,        \* _pause is clear
  emergency,     \* emergency.active
  settingsStop,  \* settings.emergency_stop
  breaker,       \* the circuit breaker of the risk manager is active
  blockEntries,  \* block_new_entries
  locked,        \* this object holds the DistributedLock
  task,          \* _task: a loop, or 0
  loops,         \* loop -> where it is
  cancelled,     \* the loops with a pending cancellation
  stopping,      \* the loop a running stop() waits for, or 0
  retired,       \* reset_orchestrator has dropped the object
  simulateOpen,  \* simulate_market_open: there is no session clock
  market,        \* what the session clock says
  errors,        \* health.api_errors, counted up to DegradedAfter
  book           \* the broker: position, resting buy

control == <<stopFlag, paused, locked, task, cancelled, stopping, retired>>
switches == <<emergency, settingsStop, breaker, blockEntries>>
session == <<simulateOpen, market>>
vars == <<opState, control, switches, loops, session, errors, book>>

Loops == 1..MaxLoops
DegradedAfter == 3
OperationalState ==
  {"STARTING", "WAITING_FOR_MARKET", "RUNNING", "DEGRADED", "PAUSED", "RISK_BLOCKED",
   "EMERGENCY_STOPPED", "CLOSING", "STOPPED", "ERROR"}
Places == {"unborn", "sleeping", "waiting", "woken", "done"}
Live == {"sleeping", "waiting", "woken"}
RestingBuy == {"none", "open", "refused"}
Book == [held : BOOLEAN, buy : RestingBuy]

LiveLoops == {t \in Loops : loops[t] \in Live}

Init ==
  /\ opState = "STARTING"
  /\ stopFlag = FALSE /\ paused = FALSE
  /\ settingsStop \in StartsStopped /\ breaker = settingsStop /\ emergency = settingsStop
  /\ blockEntries = FALSE
  /\ locked = FALSE
  /\ task = 0 /\ stopping = 0 /\ cancelled = {} /\ retired = FALSE
  /\ loops = [t \in Loops |-> "unborn"]
  /\ simulateOpen \in SimulateOpen
  /\ market = IF simulateOpen THEN "open" ELSE "closed"
  /\ errors = 0
  /\ book = [held |-> FALSE, buy |-> "none"]

EmergencyOn == emergency \/ settingsStop

-----------------------------------------------------------------------------
\* What the broker and the executor may make of the book b, with the orders
\* they execute: a resting buy matches or not or is refused, sells execute, and
\* an entry buys at the market, with or without a rest in the book.
Orders == {"restingBuy", "exit", "entry"}
Bought(orders) == orders \cap {"restingBuy", "entry"} # {}

Trades(b, c, orders) ==
  /\ "restingBuy" \in orders => b.buy # "none"
  /\ "exit" \in orders => b.held \/ "restingBuy" \in orders
  /\ b.held /\ ~c.held => "exit" \in orders
  /\ ~b.held /\ c.held => Bought(orders)
  /\ ~b.held /\ orders = {"restingBuy"} => c.held
  /\ "entry" \in orders => c.held
  /\ c.buy = "open" => b.buy = "open" \/ Bought(orders)
  /\ c.buy = "refused" => b.buy # "none"
  /\ c.buy = "none" => b.buy = "none" \/ "restingBuy" \in orders

-----------------------------------------------------------------------------
\* One cycle.  `breakerNow' is the breaker after the head of the loop has reset it.
ShownStateOfHealth(breakerNow) ==
  IF breakerNow \/ settingsStop THEN "RISK_BLOCKED"
  ELSE IF errors >= DegradedAfter THEN "DEGRADED" ELSE "RUNNING"
ShownState(breakerNow) ==
  IF EmergencyOn THEN "EMERGENCY_STOPPED"
  ELSE IF breakerNow \/ settingsStop THEN "RISK_BLOCKED"
  ELSE IF errors >= DegradedAfter THEN "DEGRADED" ELSE "RUNNING"

ExitsOnly == blockEntries \/ emergency

\* The executor runs outside the exits-only branch, and its strategy and its
\* risk manager look at the breaker again.
MayEnter(breakerNow) == ~ExitsOnly /\ ~(breakerNow \/ settingsStop)

\* An exception anywhere in the cycle: the loop survives it and tries again.
RaiseEndsLoop(t) ==
  /\ errors' = IF errors < DegradedAfter THEN errors + 1 ELSE errors
  /\ opState' = "ERROR"
  /\ loops' = [loops EXCEPT ![t] = "done"]
Raise(t) ==
  /\ errors' = IF errors < DegradedAfter THEN errors + 1 ELSE errors
  /\ opState' = "ERROR"
  /\ loops' = [loops EXCEPT ![t] = "sleeping"]

Succeed(t, breakerNow) ==
  /\ errors' = 0
  /\ opState' = ShownState(breakerNow)
  /\ loops' = [loops EXCEPT ![t] = "sleeping"]

\* Pending orders, then only exits or the executor's whole cycle, which an
\* exception may abandon anywhere: process_pending raises when a sell matches
\* and the position is gone.  Entries pass the risk manager, whose breaker any
\* validation of an order may trip.
Cycle(t, breakerNow) ==
  \E orders \in SUBSET Orders, c \in Book :
    /\ book' = c
    /\ Trades(book, c, orders)
    /\ "entry" \in orders => MayEnter(breakerNow)
    /\ Succeed(t, breakerNow) \/ Raise(t)
    /\ breaker' \in IF ExitsOnly THEN {breakerNow} ELSE {breakerNow, TRUE}
    /\ UNCHANGED <<stopFlag, blockEntries>>

\* Near the close: cancel what rests, close what expires, stop.  The
\* cancellation of an order that process_pending had refused raises ValueError.
CloseSessionAndGoOn(t, breakerNow) ==
  /\ blockEntries' = TRUE
  /\ breaker' = breakerNow
  /\ \/ /\ book.buy = "refused"
        /\ Raise(t)
        /\ UNCHANGED <<book, stopFlag>>
     \/ /\ book.buy # "refused"
        /\ \E c \in Book, orders \in SUBSET {"exit"} :
             /\ book' = c
             /\ Trades([book EXCEPT !.buy = "none"], c, orders)
        /\ opState' = "STOPPED"
        /\ loops' = [loops EXCEPT ![t] = "sleeping"]
        /\ UNCHANGED <<errors, stopFlag>>
CloseSession(t, breakerNow) ==
  /\ blockEntries' = TRUE
  /\ breaker' = breakerNow
  /\ \/ /\ book.buy = "refused"
        /\ Raise(t)
        /\ UNCHANGED <<book, stopFlag>>
     \/ /\ book.buy # "refused"
        /\ \E c \in Book, orders \in SUBSET {"exit"} :
             /\ book' = c
             /\ Trades([book EXCEPT !.buy = "none"], c, orders)
        /\ opState' = "STOPPED"
        /\ stopFlag' = TRUE
        /\ loops' = [loops EXCEPT ![t] = "done"]
        /\ UNCHANGED errors

\* The body of _run_loop.  Its head drops whatever blocks buying as long as no
\* emergency stop is on.
Body(t) ==
  LET breakerNow == IF EmergencyOn THEN breaker ELSE FALSE
  IN /\ UNCHANGED <<paused, locked, task, cancelled, stopping, retired, emergency,
                    settingsStop, session>>
     /\ \/ /\ market = "closed"
           /\ opState' = "WAITING_FOR_MARKET"
           /\ loops' = [loops EXCEPT ![t] = "sleeping"]
           /\ breaker' = breakerNow
           /\ UNCHANGED <<stopFlag, blockEntries, errors, book>>
        \/ /\ market = "closing"
           /\ CloseSession(t, breakerNow)
        \/ /\ market = "open"
           /\ Cycle(t, breakerNow)

\* A loop runs until it suspends again.  One that waited for _pause does not
\* look at _stop before its next cycle.
LoopWakes(t) ==
  /\ t \notin cancelled
  /\ \/ /\ loops[t] = "sleeping" /\ (stopFlag \/ paused)
        /\ loops' = [loops EXCEPT ![t] = IF stopFlag THEN "done" ELSE "waiting"]
        /\ UNCHANGED <<opState, control, switches, session, errors, book>>
     \/ /\ loops[t] = "sleeping" /\ ~stopFlag /\ ~paused
        /\ Body(t)
     \/ /\ loops[t] = "woken"
        /\ Body(t)

\* CancelledError is raised where the loop is suspended; nothing catches it.
LoopIsCancelled(t) ==
  /\ t \in cancelled /\ loops[t] \in Live
  /\ loops' = [loops EXCEPT ![t] = "done"]
  /\ UNCHANGED <<opState, control, switches, session, errors, book>>

-----------------------------------------------------------------------------
\* The requests.

\* _pause.set(): whoever waits for it will run.
Unpause(places) == [t \in Loops |-> IF places[t] = "waiting" THEN "woken" ELSE places[t]]

\* /bot/start: startup() and a new loop, unless the state says that one runs.
\* startup() takes the emergency stop from the settings, whatever it was.
StartKeepsEmergency ==
  /\ emergency' = EmergencyOn
  /\ breaker' = breaker
  /\ opState' = IF EmergencyOn THEN "EMERGENCY_STOPPED" ELSE "WAITING_FOR_MARKET"
Startup ==
  /\ emergency' = settingsStop
  /\ breaker' = IF settingsStop THEN breaker ELSE FALSE
  /\ opState' = IF settingsStop THEN "EMERGENCY_STOPPED" ELSE "WAITING_FOR_MARKET"

BotStart ==
  /\ ~retired
  /\ opState \notin {"RUNNING", "WAITING_FOR_MARKET"}
  /\ \E t \in Loops :
       /\ loops[t] = "unborn" /\ \A u \in Loops : u < t => loops[u] # "unborn"
       /\ loops' = [loops EXCEPT ![t] = "sleeping"]
       /\ task' = t
  /\ Startup
  /\ locked' = TRUE
  /\ stopFlag' = FALSE
  /\ UNCHANGED <<paused, cancelled, stopping, retired, settingsStop, blockEntries,
                 session, errors, book>>

Pause ==
  /\ ~retired
  /\ paused' = TRUE
  /\ opState' = "PAUSED"
  /\ UNCHANGED <<stopFlag, locked, task, cancelled, stopping, retired, switches, loops,
                 session, errors, book>>

Resume ==
  /\ ~retired /\ opState # "EMERGENCY_STOPPED"
  /\ paused' = FALSE
  /\ loops' = Unpause(loops)
  /\ opState' = "RUNNING"
  /\ UNCHANGED <<stopFlag, locked, task, cancelled, stopping, retired, switches,
                 session, errors, book>>

\* stop() up to its wait for the loop it knows.
StopBeginsPaused ==
  /\ ~retired /\ stopping = 0 /\ task # 0
  /\ stopFlag' = TRUE
  /\ cancelled' = cancelled \cup {task}
  /\ stopping' = task
  /\ UNCHANGED <<opState, paused, locked, task, retired, switches, loops, session, errors, book>>
StopBegins ==
  /\ ~retired /\ stopping = 0 /\ task # 0
  /\ stopFlag' = TRUE /\ paused' = FALSE
  /\ loops' = Unpause(loops)
  /\ cancelled' = cancelled \cup {task}
  /\ stopping' = task
  /\ UNCHANGED <<opState, locked, task, retired, switches, session, errors, book>>

\* ... and from there: the object forgets its task, which a /bot/start in
\* between has replaced, and is dropped.
StopEnds ==
  /\ stopping # 0 /\ loops[stopping] = "done"
  /\ stopping' = 0 /\ task' = 0
  /\ locked' = FALSE
  /\ opState' = "STOPPED"
  /\ retired' = TRUE
  /\ UNCHANGED <<stopFlag, paused, cancelled, switches, loops, session, errors, book>>

\* stop() of an orchestrator without a task.
StopIdle ==
  /\ ~retired /\ stopping = 0 /\ task = 0
  /\ stopFlag' = TRUE /\ paused' = FALSE
  /\ loops' = Unpause(loops)
  /\ locked' = FALSE
  /\ opState' = "STOPPED"
  /\ retired' = TRUE
  /\ UNCHANGED <<task, cancelled, stopping, switches, session, errors, book>>

EmergencyStop ==
  /\ ~retired
  /\ emergency' = TRUE /\ breaker' = TRUE
  /\ opState' = "EMERGENCY_STOPPED"
  /\ UNCHANGED <<control, settingsStop, blockEntries, loops, session, errors, book>>

\* /bot/emergency-stop/off, with its confirmations.
EmergencyOff ==
  /\ ~retired
  /\ emergency' = FALSE /\ breaker' = FALSE /\ settingsStop' = FALSE
  /\ opState' = "WAITING_FOR_MARKET"
  /\ UNCHANGED <<control, blockEntries, loops, session, errors, book>>

\* /bot/close-all and /bot/close sell at the market and leave resting orders alone.
ClosePositions ==
  /\ ~retired /\ book.held
  /\ \E h \in BOOLEAN : book' = [book EXCEPT !.held = h]
  /\ UNCHANGED <<opState, control, switches, loops, session, errors>>

\* The session clock.
MarketMoves ==
  /\ ~simulateOpen
  /\ market' = CASE market = "closed" -> "open"
                 [] market = "open" -> "closing"
                 [] market = "closing" -> "closed"
  /\ UNCHANGED <<simulateOpen, opState, control, switches, loops, errors, book>>

Requests ==
  \/ BotStart
  \/ Pause
  \/ Resume
  \/ StopBegins
  \/ StopIdle
  \/ EmergencyStop
  \/ EmergencyOff
  \/ ClosePositions

Next ==
  \/ \E t \in Loops : LoopWakes(t) \/ LoopIsCancelled(t)
  \/ StopEnds
  \/ Requests
  \/ MarketMoves

\* The event loop wakes every task whose sleep or wait is over.  Nobody has to
\* send a request, and the session clock may stand still.
Fairness ==
  /\ \A t \in Loops : WF_vars(LoopWakes(t) \/ LoopIsCancelled(t))
  /\ WF_vars(StopEnds)

Spec == Init /\ [][Next]_vars /\ Fairness

-----------------------------------------------------------------------------
TypeOK ==
  /\ opState \in OperationalState
  /\ stopFlag \in BOOLEAN /\ paused \in BOOLEAN /\ locked \in BOOLEAN /\ retired \in BOOLEAN
  /\ emergency \in BOOLEAN /\ settingsStop \in BOOLEAN
  /\ breaker \in BOOLEAN /\ blockEntries \in BOOLEAN
  /\ task \in 0..MaxLoops /\ stopping \in 0..MaxLoops /\ cancelled \subseteq Loops
  /\ loops \in [Loops -> Places]
  /\ simulateOpen \in BOOLEAN /\ market \in {"open", "closing", "closed"}
  /\ errors \in 0..DegradedAfter
  /\ book \in Book

\* Only stop() and the close of the session end a loop: no exception of a cycle,
\* and no request, leaves the positions without anyone who watches them.
LoopsEndOnlyWhenStopped ==
  [][\A t \in Loops :
       loops[t] \in Live /\ loops'[t] = "done" => stopFlag' \/ t \in cancelled]_vars

\* Near the close a loop that is not paused closes the session, whatever request
\* and exception comes in between.  Only an order that process_pending refused
\* keeps it from that: its cancellation raises in every cycle.
SessionCloses ==
  market = "closing" /\ LiveLoops # {}
    ~> stopFlag \/ paused \/ market # "closing" \/ book.buy = "refused"

\* resume() looks at the state that is shown, which a pause has overwritten, and
\* shows RUNNING in an emergency.  Any loop that trades takes that back.
EmergencyIsShown ==
  EmergencyOn /\ opState = "RUNNING"
    ~> \/ opState \in {"EMERGENCY_STOPPED", "ERROR"}
       \/ ~EmergencyOn \/ paused \/ market # "open" \/ LiveLoops = {}

\* stop() reaches every loop, also those the orchestrator has lost track of and
\* those that are paused, unless a start takes it back.  (The close of a session
\* does not: it sets _stop and leaves a paused loop waiting.)
StopReachesEveryLoop == stopping # 0 ~> (LiveLoops = {} \/ ~stopFlag)
=============================================================================
