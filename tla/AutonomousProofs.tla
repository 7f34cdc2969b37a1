--------------------------- MODULE AutonomousProofs ---------------------------
(***************************************************************************)
(* The trading service and the strategy it runs.                           *)
(*                                                                         *)
(* Orchestrator: for any number of loops and any settings, no loop ends    *)
(* unless it was stopped.  That stop() reaches every loop, that a session  *)
(* closes and that an emergency is shown needs the fairness of the event   *)
(* loop, which TLC checks.                                                 *)
(*                                                                         *)
(* Exits, Selection and Entry: for any contracts, quotes, prices and       *)
(* limits, the trailing stop never fires, the winner of a selection could  *)
(* be bought, and what is bought keeps the limits on money.                *)
(***************************************************************************)
EXTENDS Orchestrator, MCStrategy, FiniteSetTheorems, WellFoundedInduction, TLAPS

\* A step of the body of _run_loop, told apart by the session clock
LEMMA BodyCases ==
  ASSUME NEW t \in Loops, Body(t)
  PROVE  LET breakerNow == IF EmergencyOn THEN breaker ELSE FALSE
         IN /\ UNCHANGED <<paused, locked, task, cancelled, stopping, retired, emergency,
                           settingsStop, session>>
            /\ \/ /\ loops' = [loops EXCEPT ![t] = "sleeping"]
                  /\ opState' = "WAITING_FOR_MARKET" /\ breaker' = breakerNow
                  /\ UNCHANGED <<stopFlag, blockEntries, errors, book>>
               \/ CloseSession(t, breakerNow)
               \/ Cycle(t, breakerNow)
BY DEF Body

LEMMA EndOfCycleTypes ==
  ASSUME TypeOK, NEW t \in Loops, NEW breakerNow \in BOOLEAN,
         Succeed(t, breakerNow) \/ Raise(t)
  PROVE  /\ errors' \in 0 .. DegradedAfter
         /\ opState' \in OperationalState
         /\ loops' = [loops EXCEPT ![t] = "sleeping"]
BY DEF TypeOK, Succeed, Raise, ShownState, OperationalState, DegradedAfter

LEMMA BodyTypes ==
  ASSUME TypeOK, NEW t \in Loops, Body(t)
  PROVE  TypeOK'
<1> DEFINE breakerNow == IF EmergencyOn THEN breaker ELSE FALSE
<1>1. breakerNow \in BOOLEAN
  BY DEF TypeOK
<1>2. /\ paused' \in BOOLEAN /\ locked' \in BOOLEAN /\ retired' \in BOOLEAN
      /\ emergency' \in BOOLEAN /\ settingsStop' \in BOOLEAN
      /\ task' \in 0 .. MaxLoops /\ stopping' \in 0 .. MaxLoops /\ cancelled' \subseteq Loops
      /\ simulateOpen' \in BOOLEAN /\ market' \in {"open", "closing", "closed"}
  BY BodyCases DEF TypeOK, session
<1>3. \/ /\ loops' = [loops EXCEPT ![t] = "sleeping"]
         /\ opState' = "WAITING_FOR_MARKET" /\ breaker' = breakerNow
         /\ UNCHANGED <<stopFlag, blockEntries, errors, book>>
      \/ CloseSession(t, breakerNow)
      \/ Cycle(t, breakerNow)
  BY BodyCases
<1> HIDE DEF breakerNow
<1>4. CASE /\ loops' = [loops EXCEPT ![t] = "sleeping"]
           /\ opState' = "WAITING_FOR_MARKET" /\ breaker' = breakerNow
           /\ UNCHANGED <<stopFlag, blockEntries, errors, book>>
  BY <1>1, <1>2, <1>4 DEF TypeOK, OperationalState, Places
<1>5. CASE CloseSession(t, breakerNow)
  <2>1. breaker' \in BOOLEAN /\ blockEntries' \in BOOLEAN /\ stopFlag' \in BOOLEAN
    BY <1>1, <1>5 DEF CloseSession, TypeOK
  <2>2. errors' \in 0 .. DegradedAfter /\ opState' \in OperationalState
    BY <1>5 DEF CloseSession, Raise, TypeOK, OperationalState, DegradedAfter
  <2>3. loops' \in [Loops -> Places]
    BY <1>5 DEF CloseSession, Raise, TypeOK, Places
  <2>4. book' \in Book
    BY <1>5 DEF CloseSession, TypeOK, Orders
  <2> QED BY <1>2, <2>1, <2>2, <2>3, <2>4 DEF TypeOK
<1>6. CASE Cycle(t, breakerNow)
  <2>1. book' \in Book /\ UNCHANGED <<stopFlag, blockEntries>>
        /\ (Succeed(t, breakerNow) \/ Raise(t))
    BY <1>6 DEF Cycle
  <2>2. breaker' \in BOOLEAN
    BY <1>1, <1>6 DEF Cycle
  <2>3. loops' \in [Loops -> Places] /\ errors' \in 0 .. DegradedAfter /\ opState' \in OperationalState
    BY <1>1, <2>1, EndOfCycleTypes DEF TypeOK, Places
  <2> QED BY <1>2, <2>1, <2>2, <2>3 DEF TypeOK
<1> QED BY <1>3, <1>4, <1>5, <1>6

\* What every step is: a wake-up of a loop with its body, or a request, or the clock.
LEMMA StepCases ==
  ASSUME [Next]_vars
  PROVE  \/ UNCHANGED vars
         \/ \E t \in Loops : (LoopWakes(t) \/ LoopIsCancelled(t))
         \/ StopEnds \/ BotStart \/ Pause \/ Resume \/ StopBegins \/ StopIdle
         \/ EmergencyStop \/ EmergencyOff \/ ClosePositions \/ MarketMoves
BY DEF Next, Requests

LEMMA OtherTypes ==
  ASSUME TypeOK, BotStart \/ Pause \/ Resume \/ StopBegins \/ StopIdle \/ StopEnds
                 \/ EmergencyStop \/ EmergencyOff \/ ClosePositions \/ MarketMoves
  PROVE  TypeOK'
<1> USE DEF TypeOK, control, switches, session
<1>1. Unpause(loops) \in [Loops -> Places]
  BY DEF Unpause, Places
<1>2. CASE BotStart
  <2>1. PICK t \in Loops : loops' = [loops EXCEPT ![t] = "sleeping"] /\ task' = t
    BY <1>2 DEF BotStart
  <2>2. task' \in 0 .. MaxLoops /\ loops' \in [Loops -> Places]
    BY <2>1, BoundAssumption DEF Loops, Places
  <2> QED BY <1>2, <2>2 DEF BotStart, Startup, OperationalState
<1>3. CASE Pause
  BY <1>3 DEF Pause, OperationalState
<1>4. CASE Resume
  BY <1>1, <1>4 DEF Resume, OperationalState
<1>5. CASE StopBegins
  <2>1. task \in Loops
    BY <1>5, BoundAssumption DEF StopBegins, Loops
  <2> QED BY <1>1, <1>5, <2>1 DEF StopBegins
<1>6. CASE StopIdle
  BY <1>1, <1>6 DEF StopIdle, OperationalState
<1>7. CASE StopEnds
  <2>1. 0 \in 0 .. MaxLoops /\ "STOPPED" \in OperationalState
    BY BoundAssumption DEF OperationalState
  <2> QED BY <1>7, <2>1 DEF StopEnds
<1>8. CASE EmergencyStop
  BY <1>8 DEF EmergencyStop, OperationalState
<1>9. CASE EmergencyOff
  BY <1>9 DEF EmergencyOff, OperationalState
<1>10. CASE ClosePositions
  <2>1. PICK h \in BOOLEAN : book' = [book EXCEPT !.held = h]
    BY <1>10 DEF ClosePositions
  <2>2. book' \in Book
    BY <2>1 DEF Book, Orders
  <2> QED BY <1>10, <2>2 DEF ClosePositions
<1>11. CASE MarketMoves
  BY <1>11 DEF MarketMoves
<1> QED
  BY <1>2, <1>3, <1>4, <1>5, <1>6, <1>7, <1>8, <1>9, <1>10, <1>11

\* Every variable keeps its type, for any number of loops and any settings.
THEOREM TypeCorrect == Spec => []TypeOK
<1>1. ASSUME Init
      PROVE  TypeOK
  <2>1. /\ book \in Book /\ errors \in 0 .. DegradedAfter
        /\ loops \in [Loops -> Places] /\ opState \in OperationalState
    BY <1>1 DEF Init, Book, RestingBuy, Orders, DegradedAfter, Places, OperationalState
  <2>2. settingsStop \in BOOLEAN /\ simulateOpen \in BOOLEAN
    BY <1>1, SettingsAssumption DEF Init
  <2>3. 0 \in 0 .. MaxLoops
    BY BoundAssumption
  <2>4. /\ stopFlag \in BOOLEAN /\ paused \in BOOLEAN /\ locked \in BOOLEAN /\ retired \in BOOLEAN
        /\ emergency \in BOOLEAN /\ breaker \in BOOLEAN /\ blockEntries \in BOOLEAN
    BY <1>1, <2>2 DEF Init
  <2>5. /\ task \in 0 .. MaxLoops /\ stopping \in 0 .. MaxLoops /\ cancelled \subseteq Loops
        /\ market \in {"open", "closing", "closed"}
    BY <1>1, <2>3 DEF Init
  <2> QED BY <2>1, <2>2, <2>4, <2>5 DEF TypeOK
<1>2. ASSUME TypeOK, [Next]_vars
      PROVE  TypeOK'
  <2>1. CASE UNCHANGED vars
    BY <1>2, <2>1 DEF vars, TypeOK, control, switches, session
  <2>2. ASSUME NEW t \in Loops, LoopWakes(t)
        PROVE  TypeOK'
    <3>1. CASE Body(t)
      BY <1>2, <3>1, BodyTypes
    <3>2. CASE ~Body(t)
      BY <1>2, <2>2, <3>2 DEF LoopWakes, TypeOK, control, switches, session, Places
    <3> QED BY <3>1, <3>2
  <2>3. ASSUME NEW t \in Loops, LoopIsCancelled(t)
        PROVE  TypeOK'
    BY <1>2, <2>3 DEF LoopIsCancelled, TypeOK, control, switches, session, Places
  <2> QED BY <1>2, <2>1, <2>2, <2>3, StepCases, OtherTypes
<1> QED BY <1>1, <1>2, PTL DEF Spec

-----------------------------------------------------------------------------
\* Only stop() and the close of the session end a loop: no exception of a cycle, and no
\* request, leaves the positions without anyone who watches them.
THEOREM LoopsAreStopped == Spec => LoopsEndOnlyWhenStopped
<1> DEFINE Stopped == \A t \in Loops :
              loops[t] \in Live /\ loops'[t] = "done" => stopFlag' \/ t \in cancelled
<1>1. ASSUME TypeOK, [Next]_vars
      PROVE  Stopped
  <2> SUFFICES ASSUME NEW t \in Loops, loops[t] \in Live, loops'[t] = "done", ~stopFlag'
               PROVE  t \in cancelled
    OBVIOUS
  <2>1. loops \in [Loops -> Places] /\ loops[t] # "done"
    BY <1>1 DEF TypeOK, Live
  <2>2. ASSUME NEW v \in Loops, Body(v)
        PROVE  FALSE
    <3> DEFINE breakerNow == IF EmergencyOn THEN breaker ELSE FALSE
    <3>1. \/ loops' = [loops EXCEPT ![v] = "sleeping"]
          \/ CloseSession(v, breakerNow)
          \/ Cycle(v, breakerNow)
      BY <2>2, BodyCases
    <3> HIDE DEF breakerNow
    <3>2. loops' = [loops EXCEPT ![v] = "sleeping"]
      BY <3>1 DEF CloseSession, Cycle, Succeed, Raise
    <3> QED BY <2>1, <3>2
  <2>3. CASE \E v \in Loops : LoopWakes(v)
    BY <2>1, <2>2, <2>3 DEF LoopWakes, control
  <2>4. CASE \E v \in Loops : LoopIsCancelled(v)
    BY <2>1, <2>4 DEF LoopIsCancelled
  <2>5. CASE UNCHANGED loops
    BY <2>1, <2>5
  <2>6. CASE BotStart
    BY <2>1, <2>6 DEF BotStart
  <2>7. CASE loops' = Unpause(loops)
    BY <2>1, <2>7 DEF Unpause
  <2>8. CASE StopEnds \/ Pause \/ EmergencyStop \/ EmergencyOff \/ ClosePositions \/ MarketMoves
             \/ UNCHANGED vars
    BY <2>5, <2>8 DEF StopEnds, Pause, EmergencyStop, EmergencyOff, ClosePositions, MarketMoves, vars
  <2>9. CASE Resume \/ StopBegins \/ StopIdle
    BY <2>7, <2>9 DEF Resume, StopBegins, StopIdle
  <2> QED BY <1>1, <2>3, <2>4, <2>6, <2>8, <2>9, StepCases
<1>2. TypeOK /\ [Next]_vars => [Stopped]_vars
  BY <1>1
<1> QED BY <1>2, TypeCorrect, PTL DEF Spec, LoopsEndOnlyWhenStopped


-----------------------------------------------------------------------------
\* Exits.  No highest price is remembered, and so the highest is the mark itself.
NothingRemembered ==
  /\ highWater = [c \in Positions |-> NoPrice]
  /\ \A c \in Positions : holding[c] = NoPosition \/ holding[c].current \in Prices
  /\ \A c \in Positions : "trailing_stop" \notin decided[c]

HoldingTypes ==
  /\ holding = [c \in Positions |-> holding[c]]
  /\ decided = [c \in Positions |-> decided[c]]

ExitsInv == HoldingTypes /\ NothingRemembered

LEMMA EvaluatedWithoutFall ==
  ASSUME ExitsInv, NEW c \in Positions, X!EvaluateExit(c)
  PROVE  ExitsInv'
<1>1. PICK bid \in Prices \cup {NoPrice}, last \in Prices \cup {NoPrice},
           thin \in BOOLEAN, against \in BOOLEAN, lost \in BOOLEAN :
        LET mark == X!Mark(holding[c], bid, last)
            reasons == X!Reasons(c, mark, thin, against, lost)
        IN /\ decided' = [decided EXCEPT ![c] = reasons]
           /\ highWater' = [highWater EXCEPT ![c] =
                              IF reasons # {} THEN NoPrice ELSE X!HighWater(c, mark)]
  BY Zenon DEF X!EvaluateExit
<1>0. UNCHANGED <<holding, today>> /\ holding[c] # NoPosition
  BY DEF X!EvaluateExit, X!Held
<1> DEFINE mark == X!Mark(holding[c], bid, last)
           reasons == X!Reasons(c, mark, thin, against, lost)
<1>2. mark \in Prices
  BY <1>0 DEF X!Mark, ExitsInv, NothingRemembered
<1> HIDE DEF mark
<1>3. X!HighWater(c, mark) = NoPrice
  BY DEF X!HighWater, ExitsInv, NothingRemembered
<1>4. "trailing_stop" \notin reasons
  <2>1. mark \in Nat \ {0} /\ TrailingStop \in Nat \ {0}
    BY <1>2, ExitsAssumption DEF X!PricesAssumption, X!PercentagesAssumption
  <2>2. ~(100 * (mark - mark) >= TrailingStop * mark)
    <3>1. TrailingStop * mark > 0 /\ 100 * (mark - mark) = 0
      BY <2>1
    <3> QED BY <3>1, <2>1
  <2> QED BY <1>3, <2>2 DEF X!Reasons
<1> HIDE DEF reasons
<1>5. /\ decided' = [decided EXCEPT ![c] = reasons]
      /\ highWater' = [highWater EXCEPT ![c] = NoPrice]
      /\ UNCHANGED holding
  BY <1>0, <1>1, <1>3 DEF mark, reasons
<1> QED BY <1>4, <1>5 DEF ExitsInv, HoldingTypes, NothingRemembered

\* Every step of the exits keeps it.
LEMMA ExitsKeep == ExitsInv /\ [X!Next]_X!vars => ExitsInv'
<1> SUFFICES ASSUME ExitsInv, [X!Next]_X!vars PROVE ExitsInv'
  OBVIOUS
<1>1. ASSUME NEW c \in Positions, X!Buy(c)
      PROVE  ExitsInv'
  <2>1. PICK price \in Prices :
          holding' = [holding EXCEPT ![c] =
            IF @ = NoPosition THEN [average |-> price, current |-> price, opened |-> today]
            ELSE [average |-> (@.average + price) \div 2, current |-> price, opened |-> @.opened]]
    BY <1>1 DEF X!Buy
  <2>2. holding'[c].current = price
    BY <2>1 DEF ExitsInv, HoldingTypes
  <2>3. \A d \in Positions \ {c} : holding'[d] = holding[d]
    BY <2>1 DEF ExitsInv, HoldingTypes
  <2>4. holding' = [d \in Positions |-> holding'[d]]
    BY <2>1 DEF ExitsInv, HoldingTypes
  <2>5. UNCHANGED <<highWater, decided>>
    BY <1>1 DEF X!Buy
  <2> QED BY <2>2, <2>3, <2>4, <2>5 DEF ExitsInv, HoldingTypes, NothingRemembered
<1>2. ASSUME NEW c \in Positions, X!MarkPosition(c)
      PROVE  ExitsInv'
  <2>1. PICK price \in Prices :
          holding' = [holding EXCEPT ![c] =
            [average |-> @.average, current |-> price, opened |-> @.opened]]
    BY <1>2 DEF X!MarkPosition
  <2>2. holding'[c].current = price
    BY <2>1 DEF ExitsInv, HoldingTypes
  <2>3. \A d \in Positions \ {c} : holding'[d] = holding[d]
    BY <2>1 DEF ExitsInv, HoldingTypes
  <2>4. holding' = [d \in Positions |-> holding'[d]]
    BY <2>1 DEF ExitsInv, HoldingTypes
  <2>5. UNCHANGED <<highWater, decided>>
    BY <1>2 DEF X!MarkPosition
  <2> QED BY <2>2, <2>3, <2>4, <2>5 DEF ExitsInv, HoldingTypes, NothingRemembered
<1>3. ASSUME NEW c \in Positions, X!Leave(c)
      PROVE  ExitsInv'
  BY <1>3 DEF X!Leave, ExitsInv, HoldingTypes, NothingRemembered
<1>4. CASE X!DayPasses
  BY <1>4 DEF X!DayPasses, ExitsInv, HoldingTypes, NothingRemembered
<1>5. CASE UNCHANGED X!vars
  BY <1>5 DEF X!vars, ExitsInv, HoldingTypes, NothingRemembered
<1> QED BY <1>1, <1>2, <1>3, <1>4, <1>5, EvaluatedWithoutFall DEF X!Next

\* Whatever the prices did before, a fall is never a reason to leave a position: for any
\* contracts, prices and percentages.
THEOREM TrailingStopIsDead == X!Spec => []TrailingStopNeverFires
<1>1. X!Init => ExitsInv
  BY DEF X!Init, ExitsInv, HoldingTypes, NothingRemembered
<1>2. ExitsInv => TrailingStopNeverFires
  BY DEF ExitsInv, NothingRemembered, TrailingStopNeverFires, X!TrailingStopNeverFires
<1> QED BY <1>1, <1>2, ExitsKeep, PTL DEF X!Spec

-----------------------------------------------------------------------------
\* The least of a set of numbers: the step at which something fails first.
LEMMA FirstOfNat ==
  ASSUME NEW T, T \subseteq Nat, T # {}
  PROVE  \E x \in T : \A y \in T : x =< y
<1>. DEFINE less == OpToRel(<, Nat)
<1>1. \A x, y \in T : y < x => <<y, x>> \in less
  BY DEF OpToRel
<1>2. IsWellFoundedOn(less, Nat)
  BY NatLessThanWellFounded, Zenon
<1>. HIDE DEF less
<1>3. PICK x \in T : \A y \in T : ~(<<y, x>> \in less)
  BY <1>2, WFMin
<1>4. \A y \in T : ~(y < x)
  BY <1>1, <1>3
<1>5. \A y \in T : x =< y
  BY <1>4
<1>. QED
  BY <1>5

\* The chain is a sequence of the viable contracts.
LEMMA RankingIsSeq ==
  ASSUME NEW listing \in Listings, NEW type \in {"CALL", "PUT"}
  PROVE  Ranking[listing][type] \in Seq(ToSet(Ranking[listing][type]))
<1>1. Ranking[listing][type] = Ranked(listing, type)
  BY DEF Ranking
<1>. DEFINE viable == {i \in DOMAIN Contracts :
                         Type[Contracts[i]] = type /\ ~Discarded(Contracts[i], listing[Contracts[i]])}
            n == Cardinality(viable)
<1>2. n \in Nat
  <2>1. Contracts \in Seq(ToSet(Contracts))
    BY ChainAssumption
  <2>2. DOMAIN Contracts = 1 .. Len(Contracts) /\ Len(Contracts) \in Nat
    BY <2>1
  <2>3. IsFiniteSet(DOMAIN Contracts)
    BY <2>2, FS_Interval
  <2>4. viable \subseteq DOMAIN Contracts
    OBVIOUS
  <2>. HIDE DEF viable
  <2>. QED
    BY <2>3, <2>4, FS_Subset, FS_CardinalityType
<1>3. \E f : f = Ranked(listing, type) /\ f = [i \in 1 .. n |-> f[i]]
  <2>. DEFINE score == [i \in viable |-> Score(Contracts[i], listing[Contracts[i]])]
              Before(i, j) == score[i] > score[j] \/ (score[i] = score[j] /\ i < j)
              Place(i) == 1 + Cardinality({j \in viable : Before(j, i)})
              best(k) == Contracts[CHOOSE i \in viable : Place(i) = k]
              f == [k \in 1 .. n |-> best(k)]
  <2>1. f = Ranked(listing, type)
    BY Zenon DEF Ranked
  <2>. HIDE DEF best
  <2>2. f = [i \in 1 .. n |-> f[i]]
    OBVIOUS
  <2>. QED
    BY <2>1, <2>2
<1>. HIDE DEF n
<1>4. PICK r : r = Ranked(listing, type) /\ DOMAIN r = 1 .. n /\ r = [i \in 1 .. n |-> r[i]]
  BY <1>3
<1>5. r \in [1 .. n -> ToSet(r)]
  BY <1>4 DEF ToSet
<1>. QED
  BY <1>1, <1>2, <1>4, <1>5

\* Going through the ranking one contract after the other exists, and the result is the last.
Keeps(kept, ranked, exposed) ==
  kept = [n \in 0 .. Len(ranked) |->
            IF n = 0 THEN <<>> ELSE Keep(kept[n - 1], ranked[n], exposed)]

LEMMA KeepsExist ==
  ASSUME NEW listing, NEW type, NEW exposed, NEW ranked, ranked = Ranking[listing][type],
         Len(ranked) \in Nat
  PROVE  \E kept : /\ Keeps(kept, ranked, exposed)
                   /\ Filtered(listing, type, exposed) = kept[Len(ranked)]
<1>. DEFINE Step(f, k) == IF k = 0 THEN <<>> ELSE Keep(f[k - 1], ranked[k], exposed)
            Runs(f, n) == f = [k \in 0 .. n |-> Step(f, k)]
            T == {n \in Nat : ~\E f : Runs(f, n)}
<1>1. T = {}
  <2>. SUFFICES ASSUME T # {} PROVE FALSE
    OBVIOUS
  <2>1. PICK x \in T : \A y \in T : x =< y
    <3>1. T \subseteq Nat
      OBVIOUS
    <3>. HIDE DEF T
    <3>. QED
      BY <3>1, FirstOfNat
  <2>2. CASE x = 0
    <3>. DEFINE g == [k \in 0 .. 0 |-> <<>>]
    <3>1. Runs(g, 0)
      OBVIOUS
    <3>. QED
      BY <2>1, <2>2, <3>1
  <2>3. CASE x # 0
    <3>1. x \in Nat /\ x - 1 \in Nat /\ x - 1 \notin T
      <4>1. T \subseteq Nat
        OBVIOUS
      <4>. HIDE DEF T
      <4>. QED
        BY <2>1, <2>3, <4>1
    <3>2. PICK f : Runs(f, x - 1)
      BY <3>1
    <3>. DEFINE g == [k \in 0 .. x |-> IF k = x THEN Keep(f[x - 1], ranked[x], exposed) ELSE f[k]]
    <3>3. ASSUME NEW k \in 0 .. x PROVE g[k] = Step(g, k)
      <4>1. CASE k = x
        BY <3>1, <2>3, <4>1
      <4>2. CASE k # x
        <5>1. k \in 0 .. x - 1 /\ (k # 0 => k - 1 \in 0 .. x - 1)
          BY <3>1, <4>2
        <5>2. f[k] = Step(f, k)
          BY <3>2, <5>1
        <5>3. g[k] = f[k] /\ (k # 0 => g[k - 1] = f[k - 1])
          BY <5>1, <3>1, <4>2
        <5>. QED
          BY <5>2, <5>3
      <4>. QED
        BY <4>1, <4>2
    <3>4. Runs(g, x)
      <4>1. DOMAIN g = 0 .. x /\ g = [k \in 0 .. x |-> g[k]]
        OBVIOUS
      <4>. HIDE DEF g
      <4>. QED
        BY <4>1, <3>3
    <3>. QED
      BY <3>4, <2>1
  <2>. QED
    BY <2>2, <2>3
<1>2. PICK f : Runs(f, Len(ranked))
  BY <1>1
<1>. DEFINE chosen == CHOOSE f2 : Keeps(f2, ranked, exposed)
<1>3. Keeps(f, ranked, exposed)
  BY <1>2 DEF Keeps
<1>4. Keeps(chosen, ranked, exposed)
  BY <1>3
<1>5. Filtered(listing, type, exposed) = chosen[Len(ranked)]
  BY DEF Filtered, Keeps
<1>. QED
  BY <1>4, <1>5

\* What is kept is a sequence.
LEMMA FilteredIsSeq ==
  ASSUME NEW listing \in Listings, NEW type \in {"CALL", "PUT"}, NEW exposed
  PROVE  \E S : Filtered(listing, type, exposed) \in Seq(S)
<1>1. PICK ranked : ranked = Ranking[listing][type]
  OBVIOUS
<1>. DEFINE S == ToSet(ranked)
<1>2. ranked \in Seq(S)
  BY <1>1, RankingIsSeq
<1>3. Len(ranked) \in Nat /\ \A i \in 1 .. Len(ranked) : ranked[i] \in S
  BY <1>2
<1>4. PICK kept : /\ Keeps(kept, ranked, exposed)
                  /\ Filtered(listing, type, exposed) = kept[Len(ranked)]
  BY <1>1, <1>3, KeepsExist
<1>. DEFINE T == {n \in 0 .. Len(ranked) : kept[n] \notin Seq(S)}
<1>. HIDE DEF S
<1>5. T = {}
  <2>. SUFFICES ASSUME T # {} PROVE FALSE
    OBVIOUS
  <2>1. PICK x \in T : \A y \in T : x =< y
    <3>1. T \subseteq Nat
      BY <1>3
    <3>. HIDE DEF T
    <3>. QED
      BY <3>1, FirstOfNat
  <2>2. kept[x] = IF x = 0 THEN <<>> ELSE Keep(kept[x - 1], ranked[x], exposed)
    BY <1>4, <2>1 DEF Keeps
  <2>3. x # 0
    <3>1. <<>> \in Seq(S) /\ kept[x] \notin Seq(S)
      BY <2>1
    <3>. QED
      BY <2>2, <3>1
  <2>4. x - 1 \in 0 .. Len(ranked) /\ x - 1 \notin T /\ x \in 1 .. Len(ranked)
    BY <1>3, <2>1, <2>3
  <2>5. kept[x - 1] \in Seq(S) /\ ranked[x] \in S
    BY <1>3, <2>4
  <2>6. Keep(kept[x - 1], ranked[x], exposed) \in Seq(S)
    BY <2>5 DEF Keep
  <2>. QED
    BY <2>1, <2>2, <2>3, <2>6
<1>6. Len(ranked) \notin T
  BY <1>5
<1>. QED
  BY <1>3, <1>4, <1>6

\* So it is for the examinations.
Examines(acc, g, shown, listing, p) ==
  acc = [n \in 0 .. Len(shown) |->
           IF n = 0 THEN [gate |-> g, approved |-> <<>>]
           ELSE ExamineOne(acc[n - 1], shown[n], listing[shown[n]], p)]

LEMMA ExaminesExist ==
  ASSUME NEW g, NEW listing, NEW type, NEW exposed, NEW p,
         NEW shown, shown = Filtered(listing, type, exposed), Len(shown) \in Nat
  PROVE  \E acc : /\ Examines(acc, g, shown, listing, p)
                  /\ Examined(g, listing, type, exposed, p) = acc[Len(shown)]
<1>. DEFINE Step(f, k) == IF k = 0 THEN [gate |-> g, approved |-> <<>>]
                          ELSE ExamineOne(f[k - 1], shown[k], listing[shown[k]], p)
            Runs(f, n) == f = [k \in 0 .. n |-> Step(f, k)]
            T == {n \in Nat : ~\E f : Runs(f, n)}
<1>1. T = {}
  <2>. SUFFICES ASSUME T # {} PROVE FALSE
    OBVIOUS
  <2>1. PICK x \in T : \A y \in T : x =< y
    <3>1. T \subseteq Nat
      OBVIOUS
    <3>. HIDE DEF T
    <3>. QED
      BY <3>1, FirstOfNat
  <2>2. CASE x = 0
    <3>. DEFINE h == [k \in 0 .. 0 |-> [gate |-> g, approved |-> <<>>]]
    <3>1. Runs(h, 0)
      OBVIOUS
    <3>. QED
      BY <2>1, <2>2, <3>1
  <2>3. CASE x # 0
    <3>1. x \in Nat /\ x - 1 \in Nat /\ x - 1 \notin T
      <4>1. T \subseteq Nat
        OBVIOUS
      <4>. HIDE DEF T
      <4>. QED
        BY <2>1, <2>3, <4>1
    <3>2. PICK f : Runs(f, x - 1)
      BY <3>1
    <3>. DEFINE h == [k \in 0 .. x |->
                    IF k = x THEN ExamineOne(f[x - 1], shown[x], listing[shown[x]], p) ELSE f[k]]
    <3>3. ASSUME NEW k \in 0 .. x PROVE h[k] = Step(h, k)
      <4>1. CASE k = x
        BY <3>1, <2>3, <4>1
      <4>2. CASE k # x
        <5>1. k \in 0 .. x - 1 /\ (k # 0 => k - 1 \in 0 .. x - 1)
          BY <3>1, <4>2
        <5>2. f[k] = Step(f, k)
          BY <3>2, <5>1
        <5>3. h[k] = f[k] /\ (k # 0 => h[k - 1] = f[k - 1])
          BY <5>1, <3>1, <4>2
        <5>. QED
          BY <5>2, <5>3
      <4>. QED
        BY <4>1, <4>2
    <3>4. Runs(h, x)
      <4>1. DOMAIN h = 0 .. x /\ h = [k \in 0 .. x |-> h[k]]
        OBVIOUS
      <4>. HIDE DEF h
      <4>. QED
        BY <4>1, <3>3
    <3>. QED
      BY <3>4, <2>1
  <2>. QED
    BY <2>2, <2>3
<1>2. PICK f : Runs(f, Len(shown))
  BY <1>1
<1>. DEFINE chosen == CHOOSE f2 : Examines(f2, g, shown, listing, p)
<1>3. Examines(f, g, shown, listing, p)
  BY <1>2 DEF Examines
<1>4. Examines(chosen, g, shown, listing, p)
  BY <1>3
<1>5. Examined(g, listing, type, exposed, p) = chosen[Len(shown)]
  BY DEF Examined, Examines
<1>. QED
  BY <1>4, <1>5

\* A purchase of one contract is refused by a blocked risk manager or by its other checks.
Passes(c, q, p) == ~RefusesPurchase(Reset, 1, Underlying[c], Days[c], q, p)

LEMMA RefusedByOthers ==
  ASSUME NEW g, NEW c, NEW q, NEW p
  PROVE  RefusesPurchase(g, 1, Underlying[c], Days[c], q, p) <=> Blocked(g) \/ ~Passes(c, q, p)
<1>1. ~Blocked(Reset)
  BY DEF Blocked, Reset, InitGate
<1>. QED
  BY <1>1, Zenon DEF RefusesPurchase, Passes

\* Who is approved passes those checks.
LEMMA ApprovedPass ==
  ASSUME NEW g, NEW listing \in Listings, NEW type \in {"CALL", "PUT"}, NEW exposed, NEW p
  PROVE  LET approved == Examined(g, listing, type, exposed, p).approved
         IN approved # <<>> => Passes(Head(approved), listing[Head(approved)], p)
<1>1. PICK shown : shown = Filtered(listing, type, exposed)
  OBVIOUS
<1>2. PICK S : shown \in Seq(S)
  BY <1>1, FilteredIsSeq
<1>3. Len(shown) \in Nat /\ \A i \in 1 .. Len(shown) : shown[i] \in S
  BY <1>2
<1>4. PICK acc : /\ Examines(acc, g, shown, listing, p)
                 /\ Examined(g, listing, type, exposed, p) = acc[Len(shown)]
  BY <1>1, <1>3, ExaminesExist
<1>. DEFINE Passing == {c \in S : Passes(c, listing[c], p)}
            T == {n \in 0 .. Len(shown) : acc[n].approved \notin Seq(Passing)}
<1>. HIDE DEF Passing
<1>5. T = {}
  <2>. SUFFICES ASSUME T # {} PROVE FALSE
    OBVIOUS
  <2>1. PICK x \in T : \A y \in T : x =< y
    <3>1. T \subseteq Nat
      BY <1>3
    <3>. HIDE DEF T
    <3>. QED
      BY <3>1, FirstOfNat
  <2>2. acc[x] = IF x = 0 THEN [gate |-> g, approved |-> <<>>]
                 ELSE ExamineOne(acc[x - 1], shown[x], listing[shown[x]], p)
    BY <1>4, <2>1 DEF Examines
  <2>3. x # 0
    <3>1. <<>> \in Seq(Passing) /\ acc[x].approved \notin Seq(Passing)
      BY <2>1
    <3>. QED
      BY <2>2, <3>1
  <2>4. x - 1 \in 0 .. Len(shown) /\ x - 1 \notin T /\ x \in 1 .. Len(shown)
    BY <1>3, <2>1, <2>3
  <2>5. PICK c, before : /\ c = shown[x] /\ c \in S
                         /\ before = acc[x - 1] /\ before.approved \in Seq(Passing)
    BY <1>3, <2>4
  <2>6. acc[x].approved = IF RefusesPurchase(before.gate, 1, Underlying[c], Days[c], listing[c], p)
                          THEN before.approved ELSE Append(before.approved, c)
    BY <2>2, <2>3, <2>5 DEF ExamineOne
  <2>7. ~RefusesPurchase(before.gate, 1, Underlying[c], Days[c], listing[c], p) => c \in Passing
    BY <2>5, RefusedByOthers DEF Passing
  <2>8. acc[x].approved \in Seq(Passing)
    BY <2>5, <2>6, <2>7
  <2>. QED
    BY <2>1, <2>8
<1>6. acc[Len(shown)].approved \in Seq(Passing)
  BY <1>3, <1>5
<1>7. acc[Len(shown)].approved # <<>> => Head(acc[Len(shown)].approved) \in Passing
  BY <1>6
<1>. QED
  BY <1>4, <1>7 DEF Passing

\* What the last selection says: without a risk manager, or with a winner that passes.
ChoiceInv ==
  \/ choice = NoChoice
  \/ /\ choice = [ listing |-> choice.listing, portfolio |-> choice.portfolio,
                   registered |-> choice.registered, winner |-> choice.winner ]
     /\ \/ choice.winner = NoContract \/ choice.portfolio = NoPortfolio
        \/ Passes(choice.winner, choice.listing[choice.winner], choice.portfolio)

LEMMA ChoiceInvImplies == ChoiceInv => WinnerIsBuyable
<1>. SUFFICES ASSUME ChoiceInv, choice.winner # NoContract, choice.portfolio # NoPortfolio
              PROVE  ~RefusesPurchase(Reset, 1, Underlying[choice.winner], Days[choice.winner],
                                      choice.listing[choice.winner], choice.portfolio)
  BY Zenon DEF WinnerIsBuyable
<1>1. Passes(choice.winner, choice.listing[choice.winner], choice.portfolio)
  BY DEF ChoiceInv, NoChoice
<1>. QED
  BY <1>1, Zenon DEF Passes

TypesOfChain == \A c \in Listed : Type[c] \in {"CALL", "PUT"}

LEMMA ChainTypes == TypesOfChain
  BY ChainAssumption DEF TypesOfChain, Listed

LEMMA SelectionKeeps ==
  ASSUME ChoiceInv, Select \/ SelectWithRisk \/ Register
  PROVE  ChoiceInv'
<1>1. CASE Select
  <2>1. PICK listing \in Listings, type \in {Type[c] : c \in Listed} :
          LET kept == Filtered(listing, type, exposure)
          IN choice' = [ listing |-> listing, portfolio |-> NoPortfolio, registered |-> FALSE,
                         winner |-> IF kept = <<>> THEN NoContract ELSE Head(kept) ]
    BY <1>1 DEF Select
  <2>. QED
    BY <2>1 DEF ChoiceInv
<1>2. CASE SelectWithRisk
  <2>1. PICK listing \in Listings, type \in {Type[c] : c \in Listed}, p \in Portfolios :
          LET result == Examined(gate, listing, type, exposure, p)
          IN choice' = [ listing |-> listing, portfolio |-> p, registered |-> FALSE,
                         winner |-> IF result.approved = <<>> THEN NoContract
                                    ELSE Head(result.approved) ]
    BY <1>2, Zenon DEF SelectWithRisk
  <2>2. type \in {"CALL", "PUT"}
    BY ChainTypes DEF TypesOfChain
  <2>. DEFINE approved == Examined(gate, listing, type, exposure, p).approved
  <2>3. choice' = [ listing |-> listing, portfolio |-> p, registered |-> FALSE,
                    winner |-> IF approved = <<>> THEN NoContract ELSE Head(approved) ]
    BY <2>1
  <2>4. approved # <<>> => Passes(Head(approved), listing[Head(approved)], p)
    BY <2>2, ApprovedPass
  <2>. HIDE DEF approved
  <2>5. CASE approved = <<>>
    BY <2>3, <2>5 DEF ChoiceInv
  <2>6. CASE approved # <<>>
    <3>1. Passes(Head(approved), listing[Head(approved)], p)
      BY <2>4, <2>6
    <3>2. choice' = [ listing |-> listing, portfolio |-> p, registered |-> FALSE,
                      winner |-> Head(approved) ]
      BY <2>3, <2>6
    <3>3. /\ choice'.listing = listing /\ choice'.portfolio = p
          /\ choice'.registered = FALSE /\ choice'.winner = Head(approved)
      BY <3>2
    <3>. QED
      BY <3>1, <3>2, <3>3, Zenon DEF ChoiceInv
  <2>. QED
    BY <2>5, <2>6
<1>3. CASE Register
  <2>1. choice.winner # NoContract /\ choice' = [choice EXCEPT !.registered = TRUE]
    BY <1>3 DEF Register
  <2>2. choice # NoChoice
    BY <2>1 DEF NoChoice
  <2>3. /\ choice = [ listing |-> choice.listing, portfolio |-> choice.portfolio,
                      registered |-> choice.registered, winner |-> choice.winner ]
        /\ \/ choice.portfolio = NoPortfolio
           \/ Passes(choice.winner, choice.listing[choice.winner], choice.portfolio)
    BY <2>1, <2>2 DEF ChoiceInv
  <2>4. choice' = [ listing |-> choice.listing, portfolio |-> choice.portfolio,
                    registered |-> TRUE, winner |-> choice.winner ]
    BY <2>1, <2>3
  <2>5. /\ choice'.listing = choice.listing /\ choice'.portfolio = choice.portfolio
        /\ choice'.registered = TRUE /\ choice'.winner = choice.winner
    BY <2>4
  <2>6. choice' = [ listing |-> choice'.listing, portfolio |-> choice'.portfolio,
                    registered |-> choice'.registered, winner |-> choice'.winner ]
    BY <2>4, <2>5
  <2>. QED
    BY <2>3, <2>5, <2>6 DEF ChoiceInv
<1>. QED
  BY <1>1, <1>2, <1>3

\* For any chain, quotes, limits and portfolios: a winner the risk manager has seen passes all
\* its checks but the breaker, whatever else was examined after it (select_with_risk).
THEOREM TheWinnerIsBuyable == EntrySpec => []WinnerIsBuyable
<1>1. EntryInit => ChoiceInv
  BY DEF EntryInit, ChoiceInv
<1>2. ChoiceInv /\ [EntryNext]_entryVars => ChoiceInv'
  <2>. SUFFICES ASSUME ChoiceInv, [EntryNext]_entryVars PROVE ChoiceInv'
    OBVIOUS
  <2>1. CASE \/ AwaitConfirmation \/ Discard \/ Enter \/ ApiError \/ ResetBreaker \/ TimePasses
             \/ UNCHANGED entryVars
    <3>1. UNCHANGED choice
      BY <2>1, Zenon DEF AwaitConfirmation, Discard, Enter, ApiError, ResetBreaker, TimePasses, entryVars
    <3>. QED
      BY <3>1 DEF ChoiceInv
  <2>2. CASE Ignore \/ BuyWinner \/ \E c \in Listed : Sell(c)
    <3>1. choice' = NoChoice
      BY <2>2, Zenon DEF Ignore, BuyWinner, Sell
    <3>. QED
      BY <3>1 DEF ChoiceInv
  <2>. QED
    BY <2>1, <2>2, SelectionKeeps DEF EntryNext
<1>. QED
  BY <1>1, <1>2, ChoiceInvImplies, PTL DEF EntrySpec

-----------------------------------------------------------------------------
\* Money.  The sums of the amounts up to a contract exist, and the total is the last of them.
Totals(upTo, amounts) ==
  upTo = [n \in 0 .. Len(Contracts) |->
            IF n = 0 THEN 0 ELSE upTo[n - 1] + amounts[Contracts[n]]]

LEMMA TotalsExist ==
  ASSUME NEW amounts, Len(Contracts) \in Nat
  PROVE  \E upTo : Totals(upTo, amounts) /\ Total(amounts) = upTo[Len(Contracts)]
<1>. DEFINE Step(f, k) == IF k = 0 THEN 0 ELSE f[k - 1] + amounts[Contracts[k]]
            Runs(f, n) == f = [k \in 0 .. n |-> Step(f, k)]
            T == {n \in Nat : ~\E f : Runs(f, n)}
<1>1. T = {}
  <2>. SUFFICES ASSUME T # {} PROVE FALSE
    OBVIOUS
  <2>1. PICK x \in T : \A y \in T : x =< y
    <3>1. T \subseteq Nat
      OBVIOUS
    <3>. HIDE DEF T
    <3>. QED
      BY <3>1, FirstOfNat
  <2>2. CASE x = 0
    <3>. DEFINE h == [k \in 0 .. 0 |-> 0]
    <3>1. Runs(h, 0)
      OBVIOUS
    <3>. QED
      BY <2>1, <2>2, <3>1
  <2>3. CASE x # 0
    <3>1. x \in Nat /\ x - 1 \in Nat /\ x - 1 \notin T
      <4>1. x \in Nat /\ x - 1 \in Nat
        BY <2>1, <2>3
      <4>2. ~(x =< x - 1)
        BY <4>1
      <4>. HIDE DEF T
      <4>. QED
        BY <2>1, <4>1, <4>2
    <3>2. PICK f : Runs(f, x - 1)
      BY <3>1
    <3>. DEFINE h == [k \in 0 .. x |->
                    IF k = x THEN f[x - 1] + amounts[Contracts[x]] ELSE f[k]]
    <3>3. ASSUME NEW k \in 0 .. x PROVE h[k] = Step(h, k)
      <4>1. CASE k = x
        BY <3>1, <2>3, <4>1
      <4>2. CASE k # x
        <5>1. k \in 0 .. x - 1 /\ (k # 0 => k - 1 \in 0 .. x - 1)
          BY <3>1, <4>2
        <5>2. f[k] = Step(f, k)
          BY <3>2, <5>1
        <5>3. h[k] = f[k] /\ (k # 0 => h[k - 1] = f[k - 1])
          BY <5>1, <3>1, <4>2
        <5>. QED
          BY <5>2, <5>3
      <4>. QED
        BY <4>1, <4>2
    <3>4. Runs(h, x)
      <4>1. DOMAIN h = 0 .. x /\ h = [k \in 0 .. x |-> h[k]]
        OBVIOUS
      <4>. HIDE DEF h
      <4>. QED
        BY <4>1, <3>3
    <3>. QED
      BY <3>4, <2>1
  <2>. QED
    BY <2>2, <2>3
<1>2. PICK f : Runs(f, Len(Contracts))
  BY <1>1
<1>. DEFINE chosen == CHOOSE f2 : Totals(f2, amounts)
<1>3. Totals(f, amounts)
  BY <1>2 DEF Totals
<1>4. Totals(chosen, amounts)
  BY <1>3
<1>5. Total(amounts) = chosen[Len(Contracts)]
  BY DEF Total, Totals
<1>. QED
  BY <1>4, <1>5

LEMMA ChainFacts ==
  /\ Len(Contracts) \in Nat /\ DOMAIN Contracts = 1 .. Len(Contracts)
  /\ \A n \in 1 .. Len(Contracts) : Contracts[n] \in Listed
  /\ \A c \in Listed : \E n \in 1 .. Len(Contracts) : Contracts[n] = c
  /\ \A m, n \in 1 .. Len(Contracts) : Contracts[m] = Contracts[n] => m = n
<1>1. Contracts \in Seq(Listed) /\ IsInjective(Contracts)
  BY ChainAssumption DEF Listed
<1>2. Len(Contracts) \in Nat /\ DOMAIN Contracts = 1 .. Len(Contracts)
  BY <1>1
<1>. QED
  BY <1>1, <1>2 DEF IsInjective, Listed, ToSet

\* Amounts that differ for one contract differ by it in total.
LEMMA TotalChanges ==
  ASSUME NEW before, NEW after, NEW c \in Listed,
         \A d \in Listed : before[d] \in Nat /\ after[d] \in Nat,
         \A d \in Listed \ {c} : after[d] = before[d]
  PROVE  /\ Total(before) \in Nat /\ Total(after) \in Nat
         /\ Total(after) = Total(before) + after[c] - before[c]
<1>1. PICK s : Totals(s, before) /\ Total(before) = s[Len(Contracts)]
  BY TotalsExist, ChainFacts
<1>2. PICK t : Totals(t, after) /\ Total(after) = t[Len(Contracts)]
  BY TotalsExist, ChainFacts
<1>3. PICK i \in 1 .. Len(Contracts) : Contracts[i] = c
  BY ChainFacts
<1>. DEFINE Agree(n) == /\ s[n] \in Nat /\ t[n] \in Nat
                        /\ t[n] = IF n >= i THEN s[n] + after[c] - before[c] ELSE s[n]
            T == {n \in 0 .. Len(Contracts) : ~Agree(n)}
<1>4. T = {}
  <2>. SUFFICES ASSUME T # {} PROVE FALSE
    OBVIOUS
  <2>1. PICK x \in T : \A y \in T : x =< y
    <3>1. T \subseteq Nat
      BY ChainFacts
    <3>. HIDE DEF T
    <3>. QED
      BY <3>1, FirstOfNat
  <2>2. /\ s[x] = IF x = 0 THEN 0 ELSE s[x - 1] + before[Contracts[x]]
        /\ t[x] = IF x = 0 THEN 0 ELSE t[x - 1] + after[Contracts[x]]
    BY <1>1, <1>2, <2>1 DEF Totals
  <2>3. x # 0
    <3>1. CASE x = 0
      <4>1. s[x] = 0 /\ t[x] = 0 /\ ~(x >= i)
        BY <1>3, <2>2, <3>1
      <4>. QED
        BY <2>1, <4>1
    <3>. QED
      BY <3>1
  <2>4. x - 1 \in 0 .. Len(Contracts) /\ x - 1 \notin T /\ x \in 1 .. Len(Contracts)
    BY ChainFacts, <2>1, <2>3
  <2>5. Agree(x - 1)
    BY <2>4
  <2>6. Contracts[x] \in Listed /\ (Contracts[x] = c <=> x = i)
    BY ChainFacts, <1>3, <2>4
  <2>7. CASE x = i
    <3>1. ~(x - 1 >= i) /\ x >= i
      BY <2>4, <2>7
    <3>2. s[x] = s[x - 1] + before[c] /\ t[x] = t[x - 1] + after[c] /\ t[x - 1] = s[x - 1]
      BY <2>2, <2>3, <2>5, <2>6, <2>7, <3>1
    <3>. QED
      BY <2>1, <2>5, <3>1, <3>2
  <2>8. CASE x # i
    <3>1. (x - 1 >= i) <=> (x >= i)
      BY <1>3, <2>4, <2>8
    <3>2. after[Contracts[x]] = before[Contracts[x]] /\ before[Contracts[x]] \in Nat
      BY <2>6, <2>8
    <3>3. s[x] = s[x - 1] + before[Contracts[x]] /\ t[x] = t[x - 1] + before[Contracts[x]]
      BY <2>2, <2>3, <3>2
    <3>4. s[x - 1] \in Nat /\ t[x - 1] \in Nat /\ before[c] \in Nat /\ after[c] \in Nat
      BY <2>5
    <3>5. s[x] \in Nat /\ t[x] \in Nat
      BY <3>2, <3>3, <3>4, SMTT(20)
    <3>6. t[x] = IF x >= i THEN s[x] + after[c] - before[c] ELSE s[x]
      <4>1. CASE x >= i
        <5>1. t[x - 1] = s[x - 1] + after[c] - before[c]
          BY <2>5, <3>1, <4>1
        <5>. QED
          BY <3>2, <3>3, <3>4, <4>1, <5>1, SMTT(20)
      <4>2. CASE ~(x >= i)
        <5>1. t[x - 1] = s[x - 1]
          BY <2>5, <3>1, <4>2
        <5>. QED
          BY <3>3, <4>2, <5>1
      <4>. QED
        BY <4>1, <4>2
    <3>. QED
      BY <2>1, <3>5, <3>6
  <2>. QED
    BY <2>7, <2>8
<1>5. Agree(Len(Contracts)) /\ Len(Contracts) >= i
  BY <1>3, <1>4, ChainFacts
<1>. QED
  BY <1>1, <1>2, <1>5

-----------------------------------------------------------------------------
\* The least of a set of numbers, and what is not below 0.
LEMMA MinFacts ==
  ASSUME NEW T, T \subseteq Nat, T # {}
  PROVE  Min(T) \in T /\ \A y \in T : Min(T) =< y
<1>1. \E x \in T : \A y \in T : x =< y
  BY FirstOfNat
<1>. QED
  BY <1>1 DEF Min

LEMMA MaxFacts ==
  ASSUME NEW a \in Int, NEW b \in Int
  PROVE  Max({a, b}) = IF a >= b THEN a ELSE b
<1>1. PICK m \in {a, b} : m >= a /\ m >= b
  OBVIOUS
<1>2. \E x \in {a, b} : \A y \in {a, b} : x >= y
  BY <1>1
<1>3. Max({a, b}) \in {a, b} /\ Max({a, b}) >= a /\ Max({a, b}) >= b
  BY <1>2 DEF Max
<1>. QED
  BY <1>3

LEMMA QuotientFacts ==
  ASSUME NEW a \in Nat, NEW b \in Nat \ {0}
  PROVE  /\ a \div b \in Nat
         /\ (a \div b) * b =< a
         /\ a >= b => a \div b >= 1
<1>1. a = b * (a \div b) + (a % b) /\ a % b \in 0 .. b - 1 /\ a \div b \in Int
  OBVIOUS
<1>2. a \div b >= 0
  OBVIOUS
<1>. QED
  BY <1>1, <1>2

LEMMA ProductIsNat == ASSUME NEW a \in Nat, NEW b \in Nat PROVE a * b \in Nat
  OBVIOUS

LEMMA ProductsGrow ==
  ASSUME NEW a \in Nat, NEW m \in Nat, NEW n \in Nat, m =< n
  PROVE  a * m =< a * n /\ m * a =< n * a
  OBVIOUS

\* The account of a portfolio, as the limits on money read it.
Account(p) == /\ p.cash \in Nat /\ p.premium \in Nat /\ p.equity \in Nat

\* One of the limits leaves no room for a contract.
NoRoom(q, p) ==
  \/ ~((p.equity * PositionPct) \div (100 * q.ask) >= 1)
  \/ ~(LossPerTrade \div q.ask >= 1)
  \/ ~(Max({0, MaxTotalPremium - p.premium}) \div q.ask >= 1)
  \/ ~((1000 * Max({0, p.cash - MinReserve})) \div (1002 * q.ask) >= 1)

\* The size suggested: no more than was asked for, and no loss beyond the limit per trade.
\* It is 0 only if one of the limits leaves room for no contract.
LEMMA SuggestionFacts ==
  ASSUME NEW n \in Nat \ {0}, NEW q, NEW p, Account(p),
         q.ask \in Nat \ {0}, q.size \in Nat
  PROVE  LET s == SuggestedQuantity(n, q, p)
         IN /\ s \in Nat /\ s =< n /\ s * q.ask =< LossPerTrade
            /\ s = 0 => NoRoom(q, p)
<1>. DEFINE byPosition == (p.equity * PositionPct) \div (100 * q.ask)
            byLoss == LossPerTrade \div q.ask
            byPremium == Max({0, MaxTotalPremium - p.premium}) \div q.ask
            byReserve == (1000 * Max({0, p.cash - MinReserve})) \div (1002 * q.ask)
            bySize == IF q.size = 0 THEN 50 ELSE q.size
            T == {byPosition, byLoss, byPremium, byReserve, bySize, n}
<1>1. /\ MinReserve \in Nat /\ MaxTotalPremium \in Nat /\ PositionPct \in Nat /\ LossPerTrade \in Nat
      /\ p.cash \in Nat /\ p.premium \in Nat /\ p.equity \in Nat
  BY LimitsAssumption DEF Account
<1>2. SuggestedQuantity(n, q, p) = Min(T)
  BY DEF SuggestedQuantity
<1>3. byPosition \in Nat
  <2>1. p.equity * PositionPct \in Nat /\ 100 * q.ask \in Nat \ {0}
    BY <1>1
  <2>. QED
    BY <2>1, QuotientFacts
<1>4. byLoss \in Nat /\ byLoss * q.ask =< LossPerTrade
  BY <1>1, QuotientFacts
<1>5. byPremium \in Nat
  <2>1. Max({0, MaxTotalPremium - p.premium}) \in Nat
    BY <1>1, MaxFacts
  <2>. QED
    BY <2>1, QuotientFacts
<1>6. byReserve \in Nat
  <2>1. Max({0, p.cash - MinReserve}) \in Nat
    BY <1>1, MaxFacts
  <2>2. 1000 * Max({0, p.cash - MinReserve}) \in Nat /\ 1002 * q.ask \in Nat \ {0}
    BY <2>1
  <2>. QED
    BY <2>2, QuotientFacts
<1>7. bySize \in Nat \ {0}
  OBVIOUS
<1>. HIDE DEF byPosition, byLoss, byPremium, byReserve, bySize
<1>8. T \subseteq Nat /\ T # {}
  BY <1>3, <1>4, <1>5, <1>6, <1>7
<1>9. Min(T) \in T /\ Min(T) =< n /\ Min(T) =< byLoss
  BY <1>8, MinFacts
<1>10. Min(T) \in Nat
  BY <1>8, <1>9
<1>11. Min(T) * q.ask =< LossPerTrade
  <2>1. Min(T) * q.ask =< byLoss * q.ask
    BY <1>4, <1>9, <1>10, ProductsGrow
  <2>2. Min(T) * q.ask \in Nat /\ byLoss * q.ask \in Nat
    BY <1>4, <1>10, ProductIsNat
  <2>. QED
    BY <1>1, <1>4, <2>1, <2>2
<1>12. Min(T) = 0 => byPosition = 0 \/ byLoss = 0 \/ byPremium = 0 \/ byReserve = 0
  BY <1>7, <1>9
<1>13. Min(T) = 0 => \/ ~(byPosition >= 1) \/ ~(byLoss >= 1)
                    \/ ~(byPremium >= 1) \/ ~(byReserve >= 1)
  BY <1>12
<1>. QED
  BY <1>2, <1>9, <1>10, <1>11, <1>13 DEF NoRoom, byPosition, byLoss, byPremium, byReserve

\* An order the limits on money allow is executed for the size suggested, or as it is if none
\* is suggested: never for more, and above the loss per trade only if one contract is.
LEMMA ExecutedSize ==
  ASSUME NEW n \in Nat \ {0}, NEW q, NEW p, Account(p),
         q.ask \in Nat \ {0}, q.size \in Nat, ~BreaksLimitOnMoney(n, q, p)
  PROVE  LET s == SuggestedQuantity(n, q, p)
             bought == IF s = 0 THEN n ELSE s
         IN /\ bought \in Nat \ {0} /\ bought =< n
            /\ bought * q.ask > LossPerTrade => q.ask > LossPerTrade
<1>. DEFINE s == SuggestedQuantity(n, q, p)
<1>1. /\ MinReserve \in Nat /\ MaxTotalPremium \in Nat /\ PositionPct \in Nat /\ LossPerTrade \in Nat
      /\ p.cash \in Nat /\ p.premium \in Nat /\ p.equity \in Nat
  BY LimitsAssumption DEF Account
<1>2. /\ s \in Nat /\ s =< n /\ s * q.ask =< LossPerTrade
      /\ s = 0 => NoRoom(q, p)
  BY SuggestionFacts
<1>. HIDE DEF s
<1>3. CASE s # 0
  <2>1. s * q.ask \in Nat
    BY <1>2, ProductIsNat
  <2>2. ~(s * q.ask > LossPerTrade)
    BY <1>1, <1>2, <2>1
  <2>. QED
    BY <1>2, <1>3, <2>2 DEF s
<1>4. CASE s = 0 /\ n = 1
  <2>1. n * q.ask = q.ask
    BY <1>4
  <2>. QED
    BY <1>4, <2>1 DEF s
<1>5. CASE s = 0 /\ n >= 2
  <2>. DEFINE premium == q.ask * n
  <2>1. premium \in Nat /\ 2 * q.ask =< premium
    <3>1. q.ask * 2 =< q.ask * n
      BY <1>5, ProductsGrow
    <3>. QED
      BY <3>1, ProductIsNat
  <2>2. /\ 1000 * p.cash - 1001 * premium >= 1000 * MinReserve
        /\ p.premium + premium =< MaxTotalPremium
        /\ 100 * premium =< p.equity * PositionPct
    <3>1. /\ ~(1000 * p.cash - 1001 * premium < 1000 * MinReserve)
          /\ ~(p.premium + premium > MaxTotalPremium)
          /\ ~(100 * premium > p.equity * PositionPct)
      BY DEF BreaksLimitOnMoney, WithFee
    <3>2. p.equity * PositionPct \in Nat
      BY <1>1, ProductIsNat
    <3>. HIDE DEF premium
    <3>. QED
      BY <1>1, <2>1, <3>1, <3>2
  <2>. HIDE DEF premium
  <2>3. (p.equity * PositionPct) \div (100 * q.ask) >= 1
    <3>1. p.equity * PositionPct \in Nat /\ 100 * q.ask \in Nat \ {0}
      BY <1>1
    <3>2. p.equity * PositionPct >= 100 * q.ask
      BY <2>1, <2>2, <3>1
    <3>. QED
      BY <3>1, <3>2, QuotientFacts
  <2>4. Max({0, MaxTotalPremium - p.premium}) \div q.ask >= 1
    <3>1. Max({0, MaxTotalPremium - p.premium}) \in Nat
      BY <1>1, MaxFacts
    <3>2. Max({0, MaxTotalPremium - p.premium}) >= q.ask
      BY <1>1, <2>1, <2>2, MaxFacts
    <3>. QED
      BY <3>1, <3>2, QuotientFacts
  <2>5. (1000 * Max({0, p.cash - MinReserve})) \div (1002 * q.ask) >= 1
    <3>1. Max({0, p.cash - MinReserve}) \in Nat /\ Max({0, p.cash - MinReserve}) >= p.cash - MinReserve
      BY <1>1, MaxFacts
    <3>2. 1000 * Max({0, p.cash - MinReserve}) \in Nat /\ 1002 * q.ask \in Nat \ {0}
      BY <3>1
    <3>3. 1000 * Max({0, p.cash - MinReserve}) >= 1002 * q.ask
      BY <1>1, <2>1, <2>2, <3>1
    <3>. QED
      BY <3>2, <3>3, QuotientFacts
  <2>6. ~(LossPerTrade >= q.ask)
    BY <1>1, <1>2, <1>5, <2>3, <2>4, <2>5, QuotientFacts DEF NoRoom
  <2>. QED
    BY <1>1, <1>5, <2>6 DEF s
<1>. QED
  BY <1>2, <1>3, <1>4, <1>5

\* What a fill costs above the quote the order was examined on covers the difference of the
\* prices, with the fee and without it.
Covers(excess, paid, asked, total) ==
  /\ total \in Nat /\ excess \in Nat
  /\ excess >= paid - asked
  /\ 1000 * excess + 1001 * asked >= 1000 * total

LEMMA ExcessCovers ==
  ASSUME NEW paid \in Nat, NEW asked \in Nat, NEW total, NEW excess,
         total = paid + Fee(paid), excess = AtLeast0(total - (asked + Fee(asked)))
  PROVE  Covers(excess, paid, asked, total)
<1>1. /\ paid \div 1000 \in Nat /\ asked \div 1000 \in Nat
      /\ 1000 * (asked \div 1000) =< asked
      /\ paid >= asked => paid \div 1000 >= asked \div 1000
  OBVIOUS
<1>2. total \in Nat /\ total - (asked + Fee(asked)) \in Int
  BY <1>1 DEF Fee
<1>3. excess = IF 0 >= total - (asked + Fee(asked)) THEN 0 ELSE total - (asked + Fee(asked))
  BY <1>2, MaxFacts DEF AtLeast0
<1>. QED
  BY <1>1, <1>2, <1>3 DEF Fee, Covers

\* The account in money nobody owes, and the limits it keeps.
AccountTypes ==
  /\ cash \in Nat
  /\ held \in [Listed -> Nat] /\ cost \in [Listed -> Nat]
  /\ purchase.quantity \in Nat /\ purchase.ask \in Nat /\ purchase.excess \in Nat

AccountInv == AccountTypes /\ LimitsKept

LEMMA PremiumIsNat ==
  ASSUME cost \in [Listed -> Nat]
  PROVE  Premium \in Nat
<1>1. CASE Listed = {}
  <2>1. PICK s : Totals(s, cost) /\ Total(cost) = s[Len(Contracts)]
    BY TotalsExist, ChainFacts
  <2>2. Len(Contracts) = 0
    BY <1>1, ChainFacts
  <2>. QED
    BY <2>1, <2>2 DEF Totals, Premium
<1>2. CASE Listed # {}
  <2>1. PICK c \in Listed : TRUE
    BY <1>2
  <2>. QED
    BY <2>1, TotalChanges DEF Premium
<1>. QED
  BY <1>1, <1>2

LEMMA PortfolioIsAccount ==
  ASSUME AccountTypes, NEW p \in Portfolios
  PROVE  Account(p) /\ p.cash = cash /\ p.premium = Premium
<1>1. Premium \in Nat
  BY PremiumIsNat DEF AccountTypes
<1>2. PICK day \in Sessions : p = Portfolio(day)
  BY DEF Portfolios
<1>3. p.cash = cash /\ p.premium = Premium /\ p.equity = cash + Premium
  BY <1>2 DEF Portfolio
<1>. QED
  BY <1>1, <1>3 DEF Account, AccountTypes

\* An order that was not refused: on a quote, and within the limits on money.
LEMMA Allowed ==
  ASSUME NEW n, NEW c, NEW q \in Quotes \cup {NoQuote}, NEW p,
         ~RefusesPurchase(gate, n, Underlying[c], Days[c], q, p)
  PROVE  /\ q \in Quotes /\ q.ask \in Nat \ {0} /\ q.size \in Nat
         /\ ~BreaksLimitOnMoney(n, q, p)
<1>1. q # NoQuote /\ Quality(q) = "VALID" /\ ~BreaksLimitOnMoney(n, q, p)
  BY Zenon DEF RefusesPurchase
<1>2. q \in Quotes
  BY <1>1
<1>3. q.ask \in Nat \cup {NoPrice} /\ q.size \in Nat
  BY <1>2, QuotesAssumption
<1>4. q.ask # NoPrice /\ ~(q.ask =< 0)
  BY <1>1 DEF Quality
<1>. QED
  BY <1>1, <1>2, <1>3, <1>4

\* A fill of an allowed order keeps the limits, whatever its price.
LEMMA FillKeepsLimits ==
  ASSUME AccountInv, NEW c, NEW n \in Nat \ {0}, NEW bought \in Nat \ {0}, bought =< n,
         NEW p \in Portfolios, NEW q, q.ask \in Nat \ {0}, ~BreaksLimitOnMoney(n, q, p),
         bought * q.ask > LossPerTrade => q.ask > LossPerTrade,
         NEW fill \in Quotes, fill.ask # NoPrice,
         NEW paid \in Nat, paid = fill.ask * bought, NEW asked, asked = q.ask * bought,
         NEW total, total = paid + Fee(paid), total =< cash, cash' = cash - total,
         held' = [held EXCEPT ![c] = @ + bought],
         cost' = [cost EXCEPT ![c] = @ + paid],
         purchase' = [ quantity |-> bought, ask |-> q.ask,
                       excess |-> AtLeast0(total - (asked + Fee(asked))) ]
  PROVE  AccountInv'
<1>1. asked \in Nat /\ asked =< q.ask * n /\ q.ask * n \in Nat
  BY ProductIsNat, ProductsGrow
<1>2. PICK excess : excess = AtLeast0(total - (asked + Fee(asked)))
  OBVIOUS
<1>3. purchase'.quantity = bought /\ purchase'.ask = q.ask /\ purchase'.excess = excess
  BY <1>2
<1>4. /\ total \in Nat /\ excess \in Nat /\ excess >= paid - asked
      /\ 1000 * excess + 1001 * asked >= 1000 * total
  <2>1. Covers(excess, paid, asked, total)
    BY <1>1, <1>2, ExcessCovers
  <2>. QED
    BY <2>1 DEF Covers
<1>5. /\ cash \in Nat /\ held \in [Listed -> Nat] /\ cost \in [Listed -> Nat] /\ Premium \in Nat
      /\ MinReserve \in Nat /\ MaxTotalPremium \in Nat /\ LossPerTrade \in Nat /\ InitialCash \in Nat
  BY PremiumIsNat, LimitsAssumption, BudgetAssumption DEF AccountInv, AccountTypes
<1>6. held' \in [Listed -> Nat] /\ cost' \in [Listed -> Nat]
  <2>1. \A d \in Listed : held[d] + bought \in Nat /\ cost[d] + paid \in Nat
    BY <1>5
  <2>2. \A f, v : f \in [Listed -> Nat] /\ (c \in Listed => v \in Nat)
                   => [f EXCEPT ![c] = v] \in [Listed -> Nat]
    OBVIOUS
  <2>. QED
    BY <1>5, <2>1, <2>2
<1>7. AccountTypes'
  BY <1>3, <1>4, <1>5, <1>6 DEF AccountTypes
<1>8. /\ 1000 * cash - 1001 * (q.ask * n) >= 1000 * MinReserve
      /\ Premium + q.ask * n =< MaxTotalPremium
  <2>1. /\ ~(1000 * p.cash - 1001 * (q.ask * n) < 1000 * MinReserve)
        /\ ~(p.premium + q.ask * n > MaxTotalPremium)
    BY DEF BreaksLimitOnMoney, WithFee
  <2>2. p.cash = cash /\ p.premium = Premium
    BY PortfolioIsAccount DEF AccountInv
  <2>. QED
    BY <1>1, <1>5, <2>1, <2>2
<1>9. Premium' \in Nat /\ Premium' =< Premium + paid
  <2>1. CASE c \in Listed
    <3>1. Total(cost') = Total(cost) + cost'[c] - cost[c] /\ Total(cost') \in Nat
      BY <1>5, <1>6, <2>1, TotalChanges
    <3>2. cost'[c] = cost[c] + paid /\ cost[c] \in Nat
      BY <1>5, <2>1
    <3>3. Premium = Total(cost) /\ Premium' = Total(cost')
      BY DEF Premium
    <3>. QED
      BY <1>5, <3>1, <3>2, <3>3
  <2>2. CASE c \notin Listed
    <3>1. cost' = cost
      BY <1>5, <2>2
    <3>2. Premium = Total(cost) /\ Premium' = Total(cost')
      BY DEF Premium
    <3>3. Premium' = Premium
      BY <3>1, <3>2
    <3>. QED
      BY <1>5, <3>3
  <2>. QED
    BY <2>1, <2>2
<1>10. Premium' =< MaxTotalPremium + purchase'.excess
  BY <1>1, <1>3, <1>4, <1>5, <1>8, <1>9
<1>11. cash' + purchase'.excess >= MinReserve
  BY <1>1, <1>3, <1>4, <1>5, <1>8
<1>12. Min({InitialCash, MinReserve}) \in Nat /\ Min({InitialCash, MinReserve}) =< MinReserve
  BY <1>5, MinFacts
<1>13. cash' + purchase'.excess >= Min({InitialCash, MinReserve})
  BY <1>3, <1>4, <1>5, <1>7, <1>11, <1>12 DEF AccountTypes
<1>14. purchase'.quantity * purchase'.ask > LossPerTrade => purchase'.ask > LossPerTrade
  BY <1>3
<1>. QED
  BY <1>7, <1>10, <1>13, <1>14 DEF AccountInv, LimitsKept

\* Nothing of the account changes, or nothing but the breaker.
LEMMA AccountRests == AccountInv /\ UNCHANGED account => AccountInv'
BY DEF AccountInv, AccountTypes, LimitsKept, Premium, Total, account

LEMMA ExecutionKeepsLimits ==
  ASSUME AccountInv, NEW c, NEW n \in Nat \ {0}, NEW q \in Quotes \cup {NoQuote},
         NEW p \in Portfolios, Execute(c, n, q, p)
  PROVE  AccountInv'
<1>1. CASE RefusesPurchase(gate, n, Underlying[c], Days[c], q, p)
  <2>1. UNCHANGED account
    BY <1>1, Zenon DEF Execute
  <2>. QED
    BY <2>1, AccountRests
<1>2. CASE ~RefusesPurchase(gate, n, Underlying[c], Days[c], q, p)
  <2>1. /\ q \in Quotes /\ q.ask \in Nat \ {0} /\ q.size \in Nat
        /\ ~BreaksLimitOnMoney(n, q, p)
    BY <1>2, Allowed
  <2>2. PICK bought : bought = IF SuggestedQuantity(n, q, p) = 0 THEN n
                               ELSE SuggestedQuantity(n, q, p)
    OBVIOUS
  <2>3. PICK fill \in Quotes : Submit(c, bought, q.ask, fill)
    BY <1>2, <2>2 DEF Execute
  <2>4. Account(p)
    BY PortfolioIsAccount DEF AccountInv
  <2>5. /\ bought \in Nat \ {0} /\ bought =< n
        /\ bought * q.ask > LossPerTrade => q.ask > LossPerTrade
    BY <2>1, <2>2, <2>4, ExecutedSize
  <2>6. CASE UNCHANGED account
    BY <2>6, AccountRests
  <2>7. CASE ~UNCHANGED account
    <3>1. PICK paid, asked, total :
            /\ paid = fill.ask * bought /\ asked = q.ask * bought /\ total = paid + Fee(paid)
      OBVIOUS
    <3>2. /\ fill.ask # NoPrice /\ ~(total > cash)
          /\ cash' = cash - total
          /\ held' = [held EXCEPT ![c] = @ + bought]
          /\ cost' = [cost EXCEPT ![c] = @ + paid]
          /\ purchase' = [ quantity |-> bought, ask |-> q.ask,
                           excess |-> AtLeast0(total - (asked + Fee(asked))) ]
      BY <2>3, <2>7, <3>1, Zenon DEF Submit
    <3>3. fill.ask \in Nat
      BY <3>2, QuotesAssumption
    <3>4. paid \in Nat /\ cash \in Nat
      BY <2>5, <3>1, <3>3, ProductIsNat DEF AccountInv, AccountTypes
    <3>5. total =< cash
      <4>1. Fee(paid) \in Nat
        BY <3>4 DEF Fee
      <4>. QED
        BY <3>1, <3>2, <3>4, <4>1
    <3>. QED
      BY <2>1, <2>5, <3>1, <3>2, <3>4, <3>5, FillKeepsLimits
  <2>. QED
    BY <2>6, <2>7
<1>. QED
  BY <1>1, <1>2

LEMMA EnteringKeepsLimits ==
  ASSUME AccountInv, Enter
  PROVE  AccountInv'
<1>0. PICK q \in Quotes, p \in Portfolios : \E best \in Candidates(q) :
        /\ ~RefusesPurchase(gate, Wanted(q), Underlying[best], Days[best], q, p)
        /\ LET suggested == SuggestedQuantity(Wanted(q), [ask |-> q.ask, size |-> 0], p)
               n == IF suggested = 0 THEN Wanted(q) ELSE suggested
           IN \E fresh \in Quotes \cup {NoQuote} : Execute(best, n, fresh, p)
  BY Zenon DEF Enter
<1>1. PICK best \in Candidates(q) :
        /\ ~RefusesPurchase(gate, Wanted(q), Underlying[best], Days[best], q, p)
        /\ LET suggested == SuggestedQuantity(Wanted(q), [ask |-> q.ask, size |-> 0], p)
               n == IF suggested = 0 THEN Wanted(q) ELSE suggested
           IN \E fresh \in Quotes \cup {NoQuote} : Execute(best, n, fresh, p)
  BY <1>0
<1>2. q.ask \in Nat \ {0}
  BY <1>1, Allowed
<1>3. Wanted(q) \in Nat \ {0}
  <2>1. MaxCapital \div q.ask \in Nat
    BY <1>2, BudgetAssumption, QuotientFacts
  <2>. QED
    BY <2>1, MaxFacts DEF Wanted
<1>4. PICK r : r = [ask |-> q.ask, size |-> 0]
  OBVIOUS
<1>5. r.ask \in Nat \ {0} /\ r.size \in Nat
  BY <1>2, <1>4
<1>6. Account(p)
  BY PortfolioIsAccount DEF AccountInv
<1>7. PICK s : s = SuggestedQuantity(Wanted(q), r, p)
  OBVIOUS
<1>8. s \in Nat
  BY <1>3, <1>5, <1>6, <1>7, SuggestionFacts
<1>9. PICK n : n = IF s = 0 THEN Wanted(q) ELSE s
  OBVIOUS
<1>10. n \in Nat \ {0}
  BY <1>3, <1>8, <1>9
<1>11. \E fresh \in Quotes \cup {NoQuote} : Execute(best, n, fresh, p)
  BY <1>1, <1>4, <1>7, <1>9
<1>. QED
  BY <1>10, <1>11, ExecutionKeepsLimits

LEMMA SaleKeepsLimits ==
  ASSUME AccountInv, NEW c \in Listed, Sell(c)
  PROVE  AccountInv'
<1>1. PICK q \in Quotes : /\ q.bid # NoPrice
                          /\ cash' = cash + q.bid * held[c] - Fee(q.bid * held[c])
  BY DEF Sell
<1>2. /\ held' = [held EXCEPT ![c] = 0] /\ cost' = [cost EXCEPT ![c] = 0]
      /\ purchase' = purchase
  BY DEF Sell
<1>3. /\ cash \in Nat /\ held \in [Listed -> Nat] /\ cost \in [Listed -> Nat] /\ Premium \in Nat
      /\ purchase.excess \in Nat /\ Min({InitialCash, MinReserve}) \in Nat
      /\ MaxTotalPremium \in Nat
  <2>1. InitialCash \in Nat /\ MinReserve \in Nat /\ MaxTotalPremium \in Nat
    BY LimitsAssumption, BudgetAssumption
  <2>2. Min({InitialCash, MinReserve}) \in Nat
    BY <2>1, MinFacts
  <2>. QED
    BY <2>1, <2>2, PremiumIsNat DEF AccountInv, AccountTypes
<1>4. PICK x : x = q.bid * held[c]
  OBVIOUS
<1>5. x \in Nat
  <2>1. q.bid \in Nat /\ held[c] \in Nat
    BY <1>1, <1>3, QuotesAssumption
  <2>. QED
    BY <1>4, <2>1, ProductIsNat
<1>6. cash' \in Nat /\ cash' >= cash
  <2>1. cash' = cash + x - Fee(x)
    BY <1>1, <1>4
  <2>2. Fee(x) \in Nat /\ Fee(x) =< x
    BY <1>5 DEF Fee
  <2>. QED
    BY <1>3, <1>5, <2>1, <2>2
<1>7. held' \in [Listed -> Nat] /\ cost' \in [Listed -> Nat]
  BY <1>2, <1>3
<1>8. Premium' \in Nat /\ Premium' =< Premium
  <2>1. Total(cost') = Total(cost) + cost'[c] - cost[c] /\ Total(cost') \in Nat
    BY <1>2, <1>3, <1>7, TotalChanges
  <2>2. cost'[c] = 0 /\ cost[c] \in Nat
    BY <1>2, <1>3
  <2>3. Premium = Total(cost) /\ Premium' = Total(cost')
    BY DEF Premium
  <2>. QED
    BY <1>3, <2>1, <2>2, <2>3
<1>9. AccountTypes'
  BY <1>2, <1>6, <1>7 DEF AccountInv, AccountTypes
<1>10. /\ Premium =< MaxTotalPremium + purchase.excess
       /\ cash + purchase.excess >= Min({InitialCash, MinReserve})
       /\ purchase.quantity * purchase.ask > LossPerTrade => purchase.ask > LossPerTrade
  BY DEF AccountInv, LimitsKept
<1>11. /\ Premium' =< MaxTotalPremium + purchase'.excess
       /\ cash' + purchase'.excess >= Min({InitialCash, MinReserve})
  BY <1>2, <1>3, <1>6, <1>8, <1>10
<1>. QED
  BY <1>2, <1>9, <1>10, <1>11 DEF AccountInv, LimitsKept

LEMMA AccountInit == EntryInit => AccountInv
<1>. SUFFICES ASSUME EntryInit PROVE AccountInv
  OBVIOUS
<1>1. /\ cash = InitialCash /\ held = [c \in Listed |-> 0] /\ cost = [c \in Listed |-> 0]
      /\ purchase = [quantity |-> 0, ask |-> 0, excess |-> 0]
  BY DEF EntryInit
<1>2. AccountTypes
  BY <1>1, BudgetAssumption DEF AccountTypes
<1>3. Premium = 0
  <2>1. PICK s : Totals(s, cost) /\ Total(cost) = s[Len(Contracts)]
    BY TotalsExist, ChainFacts
  <2>. DEFINE T == {n \in 0 .. Len(Contracts) : s[n] # 0}
  <2>2. T = {}
    <3>. SUFFICES ASSUME T # {} PROVE FALSE
      OBVIOUS
    <3>1. PICK x \in T : \A y \in T : x =< y
      <4>1. T \subseteq Nat
        BY ChainFacts
      <4>. HIDE DEF T
      <4>. QED
        BY <4>1, FirstOfNat
    <3>2. s[x] = IF x = 0 THEN 0 ELSE s[x - 1] + cost[Contracts[x]]
      BY <2>1, <3>1 DEF Totals
    <3>3. x # 0
      BY <3>1, <3>2
    <3>4. x - 1 \in 0 .. Len(Contracts) /\ x - 1 \notin T /\ x \in 1 .. Len(Contracts)
      BY ChainFacts, <3>1, <3>3
    <3>5. s[x - 1] = 0 /\ cost[Contracts[x]] = 0
      BY <1>1, <3>4, ChainFacts
    <3>. QED
      BY <3>1, <3>2, <3>3, <3>5
  <2>. QED
    BY <2>1, <2>2, ChainFacts DEF Premium
<1>4. /\ InitialCash \in Nat /\ MinReserve \in Nat /\ MaxTotalPremium \in Nat /\ LossPerTrade \in Nat
      /\ Min({InitialCash, MinReserve}) =< InitialCash /\ Min({InitialCash, MinReserve}) \in Nat
  <2>1. /\ InitialCash \in Nat /\ MinReserve \in Nat /\ MaxTotalPremium \in Nat
        /\ LossPerTrade \in Nat
    BY LimitsAssumption, BudgetAssumption
  <2>. QED
    BY <2>1, MinFacts
<1>. QED
  BY <1>1, <1>2, <1>3, <1>4 DEF AccountInv, LimitsKept

\* For any chain, quotes and limits, and whatever the market does between the examination of an
\* order and its fill: no purchase breaks the limits on money by more than the fill cost above
\* the quote, and none loses more than the limit per trade unless a single contract does.
THEOREM LimitsAreKept == EntrySpec => [](AccountTypes /\ LimitsKept)
<1>1. AccountInv /\ [EntryNext]_entryVars => AccountInv'
  <2>. SUFFICES ASSUME AccountInv, [EntryNext]_entryVars PROVE AccountInv'
    OBVIOUS
  <2>1. CASE \/ AwaitConfirmation \/ Discard \/ Select \/ SelectWithRisk \/ Register \/ Ignore
             \/ ApiError \/ ResetBreaker \/ TimePasses \/ UNCHANGED entryVars
    <3>1. UNCHANGED account
      BY <2>1, Zenon DEF AwaitConfirmation, Discard, Select, SelectWithRisk, Register, Ignore,
                         ApiError, ResetBreaker, TimePasses, entryVars
    <3>. QED
      BY <3>1, AccountRests
  <2>2. CASE BuyWinner
    <3>1. PICK q \in Quotes \cup {NoQuote}, p \in Portfolios : Execute(choice.winner, 1, q, p)
      BY <2>2 DEF BuyWinner
    <3>. QED
      BY <3>1, ExecutionKeepsLimits
  <2>. QED
    BY <2>1, <2>2, EnteringKeepsLimits, SaleKeepsLimits DEF EntryNext
<1>. QED
  BY <1>1, AccountInit, PTL DEF EntrySpec, AccountInv
=============================================================================
