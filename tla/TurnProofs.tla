------------------------------ MODULE TurnProofs ------------------------------
(***************************************************************************)
(* The turn clock implements the match engine: whatever the timers, the    *)
(* instant-bot loop and the lobby do to a match is a step of the engine's  *)
(* specification or leaves the match alone.  What is proved of the engine  *)
(* then holds of the server, and the clock's own invariants build on it.   *)
(***************************************************************************)
EXTENDS TurnSafety, MatchRules

UsersConnected == connected \subseteq Human

LEMMA ConnectedInit == ClockInit => UsersConnected
  BY DEF ClockInit, UsersConnected

LEMMA ConnectedNext == UsersConnected /\ [ClockNext]_allVars => UsersConnected'
  <1> SUFFICES ASSUME UsersConnected, [ClockNext]_allVars
               PROVE  UsersConnected'
    OBVIOUS
  <1>1. CASE \E p \in MayJoin : HandleJoin(p)
    BY <1>1, MatchAssumption DEF HandleJoin, UsersConnected
  <1>2. CASE \E p \in MayDrop : Drop(p) \/ Reconnect(p)
    BY <1>2 DEF Drop, Reconnect, UsersConnected
  <1>3. CASE \E p \in MayLeave : RemoveMember(p)
    BY <1>3 DEF RemoveMember, UsersConnected
  <1>4. CASE UNCHANGED connected
    BY <1>4 DEF UsersConnected
  <1>5. CASE \E p \in connected : \/ HandlePlayCard(p) \/ HandleDrawCard(p)
                                  \/ HandleProvideInput(p) \/ Interrupt(p)
    BY <1>4, <1>5 DEF HandlePlayCard, HandleDrawCard, HandleProvideInput, Interrupt, Restarts
  <1>6. CASE \/ \E p \in MayCallUno \cap connected : HandleCallUno(p)
             \/ EngineStep \/ Ended \/ UNCHANGED allVars
    BY <1>4, <1>6 DEF HandleCallUno, EngineStep, Ended, clock, allVars
  <1>7. CASE \/ ArmBot \/ ArmInput \/ ArmTurn \/ ArmNothing
             \/ EnterLoop \/ LoopStep \/ LoopDecides \/ LoopCrashes
             \/ TimerPlays \/ TimerIdles \/ HandleUpdateSettings
    BY <1>4, <1>7 DEF ArmBot, ArmInput, ArmTurn, ArmNothing, ArmFor, EnterLoop, LoopStep,
       LoopDecides, LoopCrashes, TimerPlays, TimerIdles, HandleUpdateSettings
  <1> QED
    BY <1>1, <1>2, <1>3, <1>5, <1>6, <1>7 DEF ClockNext

\* Every step of the clock is a step of the engine or none.
LEMMA ClockStep == UsersConnected /\ [ClockNext]_allVars => [Next]_vars
  <1> SUFFICES ASSUME UsersConnected, [ClockNext]_allVars
               PROVE  Next \/ UNCHANGED vars
    OBVIOUS
  <1>1. ASSUME NEW p \in connected, HandlePlayCard(p) \/ HandleDrawCard(p)
                                    \/ HandleProvideInput(p) \/ Interrupt(p)
        PROVE  Next
    <2>1. p \in Human
      BY DEF UsersConnected
    <2> QED
      BY <1>1, <2>1 DEF HandlePlayCard, HandleDrawCard, HandleProvideInput, Interrupt, Next
  <1>2. CASE \E p \in MayCallUno \cap connected : HandleCallUno(p)
    BY <1>2 DEF HandleCallUno, Next
  <1>3. CASE EngineStep \/ Ended
    BY <1>3 DEF EngineStep, Ended, Next
  <1>4. CASE LoopStep \/ TimerPlays
    BY <1>4 DEF LoopStep, TimerPlays, Next
  <1>5. CASE \E p \in MayLeave : RemoveMember(p)
    BY <1>5 DEF RemoveMember, Next
  <1>6. CASE \E p \in MayJoin : HandleJoin(p)
    BY <1>6 DEF HandleJoin, Next
  <1>7. CASE \/ ArmBot \/ ArmInput \/ ArmTurn \/ ArmNothing
             \/ EnterLoop \/ LoopDecides \/ LoopCrashes \/ TimerIdles
             \/ HandleUpdateSettings \/ UNCHANGED allVars
    BY <1>7 DEF ArmBot, ArmInput, ArmTurn, ArmNothing, ArmFor, EnterLoop, LoopDecides,
       LoopCrashes, TimerIdles, HandleUpdateSettings, allVars
  <1>8. CASE \E p \in MayDrop : Drop(p) \/ Reconnect(p)
    BY <1>8 DEF Drop, Reconnect
  <1> QED
    BY <1>1, <1>2, <1>3, <1>4, <1>5, <1>6, <1>7, <1>8 DEF ClockNext

\* The server's turns implement the engine: MatchController never makes a match do
\* what MatchInstance on its own would not.
THEOREM ClockImplementsMatch == ClockSpec => Spec
  <1>1. ClockInit => Init
    BY DEF ClockInit
  <1>2. ClockInit => UsersConnected
    BY ConnectedInit
  <1>3. UsersConnected /\ [ClockNext]_allVars => UsersConnected'
    BY ConnectedNext
  <1>4. UsersConnected /\ [ClockNext]_allVars => [Next]_vars
    BY ClockStep
  <1> QED
    BY <1>1, <1>2, <1>3, <1>4, PTL DEF ClockSpec, Spec

\* No card is lost or doubled by a match that timers and bots play on.
THEOREM ClockConservesCards == ClockSpec => []CardConservation
  BY ClockImplementsMatch, CardsConserved, PTL

-----------------------------------------------------------------------------
(***************************************************************************)
(* The clock's own invariants.  That the loop plays only for a user who is *)
(* away is not inductive: it needs that the engine has effects to resolve  *)
(* only within a handler.                                                  *)
(***************************************************************************)
InHandler == phase # "idle" => control \in {"started", "stepped"}

ClockInv == UsersConnected /\ ClockTypeOK /\ InHandler /\ LoopForAbsent

LEMMA ClockInvInit == ClockInit => ClockInv
  BY ConnectedInit, ClockAssumption
  DEF ClockInit, Init, ClockInv, ClockTypeOK, InHandler, LoopForAbsent, UsersConnected

\* Whoever is at turn or is asked has a name.
LEMMA Names == TypeOK => CurrentPlayer \in Name /\ (IsWaiting => pending_player \in Name)
  <1> SUFFICES ASSUME TypeOK
               PROVE  CurrentPlayer \in Name /\ (IsWaiting => pending_player \in Name)
    OBVIOUS
  <1>1. players \in Seq(Name) /\ current_player_index \in 0 .. Len(players) - 1
    BY DEF TypeOK
  <1>2. players[current_player_index + 1] \in Name
    BY <1>1, LenProperties
  <1> QED
    BY <1>2 DEF TypeOK, CurrentPlayer, At, IsWaiting

\* The steps that hand the match to the engine.
LEMMA PlayingSteps ==
  ASSUME ClockInv, LoopStep \/ TimerPlays \/ EngineStep
         \/ \E p \in connected : \/ HandlePlayCard(p) \/ HandleDrawCard(p)
                                 \/ HandleProvideInput(p) \/ Interrupt(p)
  PROVE  ClockTypeOK' /\ InHandler' /\ LoopForAbsent'
  <1>1. CASE EngineStep
    <2>1. phase # "idle"
      BY <1>1 DEF EngineStep, NestedPlay, Tick, GiveUp, Resolve, AdvanceTurn, DrawCards, SkipTurn, ReverseOrder,
         ChooseColor, DecideDrawnCard, DecideSwapTarget, PassHands, Resolving
    <2>2. control' \in {"started", "stepped"} /\ UNCHANGED clock
      BY <1>1, <2>1 DEF EngineStep, clock, ClockInv, InHandler
    <2> QED
      BY <2>2 DEF ClockInv, ClockTypeOK, InHandler, LoopForAbsent, clock
  <1>2. CASE LoopStep
    BY <1>2 DEF LoopStep, ClockInv, ClockTypeOK, InHandler, LoopForAbsent
  <1>3. CASE TimerPlays
    BY <1>3 DEF TimerPlays, ClockInv, ClockTypeOK, InHandler, LoopForAbsent
  <1>4. ASSUME NEW p \in connected,
               HandlePlayCard(p) \/ HandleDrawCard(p) \/ HandleProvideInput(p) \/ Interrupt(p)
        PROVE  ClockTypeOK' /\ InHandler' /\ LoopForAbsent'
    <2>1. /\ Restarts
          /\ \/ UNCHANGED interruptions
             \/ /\ interruptions < MaxInterruptions
                /\ interruptions' = interruptions + 1
      BY <1>4 DEF HandlePlayCard, HandleDrawCard, HandleProvideInput, Interrupt
    <2>2. interruptions' \in 0 .. MaxInterruptions
      BY <2>1, ClockAssumption DEF ClockInv, ClockTypeOK
    <2> QED
      BY <2>1, <2>2 DEF Restarts, ClockInv, ClockTypeOK, InHandler, LoopForAbsent
  <1> QED
    BY <1>1, <1>2, <1>3, <1>4

\* OnTurnStarted, and a timer that finds nothing to do: the match stays as it is.
LEMMA ArmingSteps ==
  ASSUME TypeOK, ClockInv,
         \/ ArmBot \/ ArmInput \/ ArmTurn \/ ArmNothing
         \/ EnterLoop \/ LoopDecides \/ LoopCrashes \/ TimerIdles
  PROVE  ClockTypeOK' /\ InHandler' /\ LoopForAbsent'
  <1>1. UNCHANGED vars /\ UNCHANGED <<bot_mode, connected, interruptions>>
    BY DEF ArmBot, ArmInput, ArmTurn, ArmNothing, ArmFor, EnterLoop, LoopDecides,
           LoopCrashes, TimerIdles
  <1>2. timer' \in Timer \cup {NoTimer}
    BY Names DEF ArmBot, ArmInput, ArmTurn, ArmNothing, ArmFor, EnterLoop, LoopDecides,
           LoopCrashes, TimerIdles, Armed, Timer, NoTimer, ClockInv, ClockTypeOK
  <1>3. control' \in {"idle", "started", "instant", "stepped", "crashed"}
    BY DEF ArmBot, ArmInput, ArmTurn, ArmNothing, ArmFor, EnterLoop, LoopDecides,
           LoopCrashes, TimerIdles, ClockInv, ClockTypeOK
  <1>4. phase = "idle"
    BY DEF ArmBot, ArmInput, ArmTurn, ArmNothing, EnterLoop, LoopDecides, LoopCrashes,
           TimerIdles, Starting, Resting
  <1>5. control' = "instant" => ~Online(CurrentPlayer)
    BY DEF ArmBot, ArmInput, ArmTurn, ArmNothing, ArmFor, EnterLoop, LoopDecides,
           LoopCrashes, TimerIdles, Resting, PlaysInstantly, LoopEnds
  <1>6. CurrentPlayer' = CurrentPlayer /\ phase' = phase
    BY <1>1 DEF vars, seats, CurrentPlayer, At
  <1> QED
    BY <1>1, <1>2, <1>3, <1>4, <1>5, <1>6
    DEF ClockTypeOK, InHandler, LoopForAbsent, Online, ClockInv

\* The lobby's steps: the controller rests before them.
LEMMA LobbySteps ==
  ASSUME ClockInv,
         \/ \E p \in MayDrop : Drop(p) \/ Reconnect(p)
         \/ \E p \in MayLeave : RemoveMember(p)
         \/ \E p \in MayJoin : HandleJoin(p)
         \/ \E p \in MayCallUno \cap connected : HandleCallUno(p)
         \/ HandleUpdateSettings
         \/ Ended \/ UNCHANGED allVars,
         UsersConnected'
  PROVE  ClockTypeOK' /\ InHandler' /\ LoopForAbsent'
  <1>1. CASE Ended \/ UNCHANGED allVars
    BY <1>1 DEF Ended, Over, allVars, clock, vars, seats, ClockInv, ClockTypeOK, InHandler,
       LoopForAbsent, Online, CurrentPlayer, At
  <1>2. CASE ~(Ended \/ UNCHANGED allVars)
    <2>1. control = "idle" /\ control' \in {"idle", "started"}
      BY <1>2 DEF Drop, Reconnect, RemoveMember, HandleJoin, HandleCallUno,
         HandleUpdateSettings, Resting, clock
    <2>2. phase = "idle" /\ phase' = phase
      BY <1>2 DEF Drop, Reconnect, RemoveMember, HandleJoin, HandleCallUno,
         HandleUpdateSettings, Resting, Leave, Join, CallUno, Handler, Idle, vars
    <2>3. bot_mode' \in BotMode /\ UNCHANGED <<timer, interruptions>>
      BY <1>2, ClockAssumption DEF Drop, Reconnect, RemoveMember, HandleJoin, HandleCallUno,
         HandleUpdateSettings, clock, ClockInv, ClockTypeOK
    <2> QED
      BY <2>1, <2>2, <2>3 DEF ClockInv, ClockTypeOK, InHandler, LoopForAbsent, UsersConnected
  <1> QED
    BY <1>1, <1>2

LEMMA ClockInvNext == TypeOK /\ ClockInv /\ [ClockNext]_allVars => ClockInv'
  <1> SUFFICES ASSUME TypeOK, ClockInv, [ClockNext]_allVars
               PROVE  ClockInv'
    OBVIOUS
  <1>1. UsersConnected'
    BY ConnectedNext DEF ClockInv
  <1>2. ClockTypeOK' /\ InHandler' /\ LoopForAbsent'
    BY <1>1, PlayingSteps, ArmingSteps, LobbySteps DEF ClockNext
  <1> QED
    BY <1>1, <1>2 DEF ClockInv

\* Whatever the table, the modes and the departures: a timer is always that of a
\* player, and the controller's place is one of its code's.
THEOREM ClockTypeCorrect == ClockSpec => []ClockTypeOK
  <1>1. ClockInit => ClockInv
    BY ClockInvInit
  <1>2. TypeOK /\ ClockInv /\ [ClockNext]_allVars => ClockInv'
    BY ClockInvNext
  <1>3. ClockInv => ClockTypeOK
    BY DEF ClockInv
  <1> QED
    BY <1>1, <1>2, <1>3, ClockImplementsMatch, TypeCorrect, PTL DEF ClockSpec

\* The instant-bot loop never starts an iteration for a bot or a user who is there,
\* whatever leaves, joins and reconnections came before it.
THEOREM LoopPlaysForAbsent == ClockSpec => []LoopForAbsent
  <1>1. ClockInit => ClockInv
    BY ClockInvInit
  <1>2. TypeOK /\ ClockInv /\ [ClockNext]_allVars => ClockInv'
    BY ClockInvNext
  <1>3. ClockInv => LoopForAbsent
    BY DEF ClockInv
  <1> QED
    BY <1>1, <1>2, <1>3, ClockImplementsMatch, TypeCorrect, PTL DEF ClockSpec

-----------------------------------------------------------------------------
(***************************************************************************)
(* What the timer and the users owe each other, while the turn stays with  *)
(* whom it was announced to.  Nobody joins, and if somebody leaves it is a *)
(* table of two, where the other one keeps the turn: with three or more    *)
(* seats RemovePlayerMidGame may hand it on (see RemovalKeepsTurn).        *)
(***************************************************************************)
SmallOrClosed == MayJoin = {} /\ (MayLeave = {} \/ \A g \in Games : Len(g.opening) = 2)

TwoSeats == MayLeave = {} \/ (status = "playing" => Len(players) = 2)

\* Who leaves a table of two that plays on leaves his seat to a bot.
LEMMA LeftToBot ==
  ASSUME Inv, TwoSeats, NEW p \in MayLeave, Leave(p), status' = "playing"
  PROVE  /\ status = "playing" /\ p \in Seated
         /\ \E b \in BotName \ Seated : Rename(p, b)
  <1>1. /\ status = "playing" /\ p \in Seated /\ Len(players) = 2
    BY DEF Leave, Handler, Idle, TwoSeats
  <1>2. /\ (\E b \in BotName \ Seated : Rename(p, b)) \/ RemovePlayer(p)
        /\ GoesOn(players')
    BY DEF Leave
  <1>3. ASSUME RemovePlayer(p) PROVE FALSE
    <2>0. Len(players') >= 2
      BY <1>2 DEF GoesOn
    <2>1. players \in Seq(Name) /\ DOMAIN players = 1 .. 2
      BY <1>1, LenProperties DEF Inv, TypeOK
    <2>2. PICK i \in 1 .. 2 : players' = RemoveAt(players, i)
      BY <1>3, <2>1 DEF RemovePlayer
    <2>3. players' = SubSeq(players, 1, i - 1) \o SubSeq(players, i + 1, 2)
      BY <1>1, <2>2 DEF RemoveAt
    <2>4. Len(players') = 1
      BY <1>1, <2>1, <2>3, SMT
    <2> QED
      BY <2>0, <2>4
  <1> QED
    BY <1>1, <1>2, <1>3

\* The seats otherwise stay as they are, and a match that is over stays over.
LEMMA SeatsStay ==
  ASSUME SmallOrClosed, Inv, [Next]_vars
  PROVE  /\ status' = "playing" => status = "playing"
         /\ UNCHANGED players \/ \E p \in MayLeave : Leave(p)
  <1>1. CASE \E p \in MayLeave : Leave(p)
    BY <1>1 DEF Leave, Handler, Idle
  <1>2. CASE \E p \in Human : \E c \in hand[p] : PlayCard(p, c)
    BY <1>2 DEF PlayCard, Play, Handler, Idle
  <1>3. CASE \E p \in Human : DrawCard(p)
    BY <1>3 DEF DrawCard, Draw, Handler, Idle, seats
  <1>4. CASE \E p \in Human : (\E a \in Offered : ProvideInput(p, a)) \/ LateInput(p)
    BY <1>4 DEF ProvideInput, LateInput, Handler, Idle, seats
  <1>5. CASE BotAnswer \/ (\E p \in MayCallUno : CallUno(p))
    BY <1>5 DEF BotAnswer, CallUno, seats
  <1>6. CASE BotMove
    BY <1>6 DEF BotMove, Play, Draw, Handler, Idle, seats
  <1>7. CASE NestedPlay
    <2>1. CASE CanPlay(nested.who, nested.card)
      BY <1>7, <2>1 DEF NestedPlay, Play, CanPlay
    <2>2. CASE ~CanPlay(nested.who, nested.card)
      BY <1>7, <2>2 DEF NestedPlay, seats
    <2> QED
      BY <2>1, <2>2
  <1>8. CASE Tick
    BY <1>8 DEF Tick, GiveUp, Resolve, AdvanceTurn, DrawCards, SkipTurn, ReverseOrder, ChooseColor,
       DecideDrawnCard, DecideSwapTarget, PassHands, Continue, Ask, seats
  <1>9. CASE Over \/ UNCHANGED vars
    BY <1>9 DEF Over, vars, seats
  <1> QED
    BY <1>1, <1>2, <1>3, <1>4, <1>5, <1>6, <1>7, <1>8, <1>9 DEF Next, SmallOrClosed

\* A seat that goes on under another name keeps its place at the table.
LEMMA RenamedTurn ==
  ASSUME TypeOK, NEW p, NEW b, Rename(p, b)
  PROVE  /\ Len(players') = Len(players)
         /\ CurrentPlayer' = IF CurrentPlayer = p THEN b ELSE CurrentPlayer
  <1>1. /\ players \in Seq(Name) /\ DOMAIN players = 1 .. Len(players) /\ Len(players) \in Nat
        /\ current_player_index + 1 \in 1 .. Len(players)
    BY LenProperties, SMT DEF TypeOK
  <1>2. players' = [i \in 1 .. Len(players) |-> IF players[i] = p THEN b ELSE players[i]]
    BY <1>1 DEF Rename
  <1>3. Len(players') = Len(players)
    BY <1>1, <1>2, SMT
  <1> QED
    BY <1>1, <1>2, <1>3 DEF CurrentPlayer, At, Rename

LEMMA TwoSeatsInit == SmallOrClosed /\ Init => TwoSeats
  BY DEF SmallOrClosed, Init, TwoSeats

LEMMA TwoSeatsNext == SmallOrClosed /\ Inv /\ TwoSeats /\ [Next]_vars => TwoSeats'
  <1> SUFFICES ASSUME SmallOrClosed, Inv, TwoSeats, [Next]_vars,
                      MayLeave # {}, status' = "playing"
               PROVE  Len(players') = 2
    BY DEF TwoSeats
  <1>1. status = "playing" /\ Len(players) = 2
    BY SeatsStay DEF TwoSeats
  <1>2. CASE UNCHANGED players
    BY <1>1, <1>2
  <1>3. CASE \E p \in MayLeave : Leave(p)
    <2>1. PICK p \in MayLeave : Leave(p)
      BY <1>3
    <2>2. PICK b : Rename(p, b)
      BY <2>1, LeftToBot
    <2> QED
      BY <1>1, <2>2, RenamedTurn DEF Inv
  <1> QED
    BY <1>2, <1>3, SeatsStay

-----------------------------------------------------------------------------
RunsInv == Inv /\ ClockInv /\ TwoSeats /\ ClockRuns

\* Whom the table rests with, and for what.
Pressed == CurrentPlayer \in BotName \/ IsWaiting \/ bot_mode = "kWaitUntilTurnEnd"

\* A timer is still due when nothing it looks at has changed.
LEMMA SameDue ==
  ASSUME ClockRuns, Resting, status = "playing", UNCHANGED timer,
         CurrentPlayer' = CurrentPlayer, UNCHANGED pending_player,
         Pressed' => Pressed
  PROVE  ClockRuns'
  BY DEF ClockRuns, Pressed, Due, IsWaiting, NoTimer

LEMMA NextRuns ==
  ASSUME SmallOrClosed, ModesDuring \subseteq {"kPlayInstantly"},
         RunsInv, [ClockNext]_allVars
  PROVE  ClockRuns'
  <1>0. [Next]_vars /\ (status' = "playing" => status = "playing")
    BY ClockStep, SeatsStay DEF RunsInv, ClockInv
  <1>1. CASE \/ \E p \in connected : \/ HandlePlayCard(p) \/ HandleDrawCard(p)
                                      \/ HandleProvideInput(p) \/ Interrupt(p)
             \/ LoopStep \/ TimerPlays \/ EnterLoop \/ LoopDecides \/ LoopCrashes
    <2>1. control' # "idle"
      BY <1>1 DEF HandlePlayCard, HandleDrawCard, HandleProvideInput, Interrupt, Restarts,
         LoopStep, TimerPlays, EnterLoop, LoopDecides, LoopCrashes
    <2> QED
      BY <2>1 DEF ClockRuns, Resting
  <1>2. CASE EngineStep
    <2>1. phase # "idle" /\ UNCHANGED control
      BY <1>2 DEF EngineStep, clock, NestedPlay, Tick, GiveUp, Resolve, AdvanceTurn, DrawCards, SkipTurn,
         ReverseOrder, ChooseColor, DecideDrawnCard, DecideSwapTarget, PassHands, Resolving
    <2> QED
      BY <2>1 DEF RunsInv, ClockInv, InHandler, ClockRuns, Resting
  <1>3. CASE ArmBot \/ ArmInput \/ ArmTurn \/ ArmNothing
    <2>1. /\ CurrentPlayer' = CurrentPlayer /\ UNCHANGED <<pending_player, status, bot_mode>>
      BY <1>3 DEF ArmBot, ArmInput, ArmTurn, ArmNothing, ArmFor, vars, seats, question,
         CurrentPlayer, At
    <2>2. CASE ArmBot
      BY <2>1, <2>2 DEF ArmBot, ArmFor, Armed, NoTimer, ClockRuns, Due
    <2>3. CASE ArmInput
      BY <2>1, <2>3 DEF ArmInput, ArmFor, Armed, NoTimer, ClockRuns, Due, IsWaiting
    <2>4. CASE ArmTurn
      BY <2>1, <2>4 DEF ArmTurn, ArmFor, Armed, NoTimer, ClockRuns, Due, IsWaiting
    <2>5. CASE ArmNothing
      BY <2>1, <2>5 DEF ArmNothing, ClockRuns
    <2> QED
      BY <1>3, <2>2, <2>3, <2>4, <2>5
  <1>4. CASE TimerIdles
    <2>1. /\ CurrentPlayer' = CurrentPlayer /\ UNCHANGED <<pending_player, status, bot_mode>>
      BY <1>4 DEF TimerIdles, vars, seats, question, CurrentPlayer, At
    <2> QED
      BY <1>4, <2>1 DEF TimerIdles, RunsInv, ClockRuns, IsWaiting
  <1>5. CASE \/ \E p \in MayDrop : Drop(p) \/ Reconnect(p)
             \/ \E p \in MayCallUno \cap connected : HandleCallUno(p)
             \/ HandleUpdateSettings
    <2>1. /\ CurrentPlayer' = CurrentPlayer /\ UNCHANGED <<pending_player, timer>>
          /\ Resting /\ status = "playing"
          /\ bot_mode' = bot_mode \/ bot_mode' = "kPlayInstantly"
      BY <1>5 DEF Drop, Reconnect, HandleCallUno, HandleUpdateSettings, CallUno, Handler, Idle,
         Resting, clock, vars, seats, question, CurrentPlayer, At
    <2>2. Pressed' => Pressed
      BY <2>1 DEF Pressed, IsWaiting
    <2> QED
      BY <2>1, <2>2, SameDue DEF RunsInv
  <1>6. CASE \E p \in MayLeave : RemoveMember(p)
    <2> SUFFICES ASSUME control' = "idle", status' = "playing"
                 PROVE  ClockRuns'
      BY DEF ClockRuns, Resting
    <2>1. PICK p \in MayLeave : RemoveMember(p)
      BY <1>6
    <2>2. /\ CurrentPlayer # p /\ Leave(p) /\ Resting
          /\ UNCHANGED <<pending_player, timer, bot_mode>>
      BY <2>1 DEF RemoveMember, Leave, question
    <2>3. status = "playing" /\ \E b : Rename(p, b)
      BY <2>2, LeftToBot DEF RunsInv
    <2>4. CurrentPlayer' = CurrentPlayer
      BY <2>2, <2>3, RenamedTurn DEF RunsInv, Inv
    <2>5. Pressed' => Pressed
      BY <2>2, <2>4 DEF Pressed, IsWaiting
    <2> QED
      BY <2>2, <2>3, <2>4, <2>5, SameDue DEF RunsInv
  <1>7. CASE Ended \/ UNCHANGED allVars
    BY <1>7 DEF Ended, Over, allVars, clock, vars, seats, question, CurrentPlayer, At,
       RunsInv, ClockRuns, Resting, Due, IsWaiting, NoTimer
  <1> QED
    BY <1>1, <1>2, <1>3, <1>4, <1>5, <1>6, <1>7 DEF ClockNext, SmallOrClosed

\* While nobody joins, the host does not set the waiting mode during the match and only
\* tables of two are left, no bot at turn, no open question and no turn of the waiting
\* mode is without a timer that its callback will accept: a departure keeps it or calls
\* OnTurnStarted, and a callback that does nothing was not due.
THEOREM ClockAlwaysRuns ==
  ASSUME SmallOrClosed, ModesDuring \subseteq {"kPlayInstantly"}
  PROVE  ClockSpec => []ClockRuns
  <1>1. ClockInit => RunsInv
    BY ClockInvInit, TwoSeatsInit, InitInv
    DEF ClockInit, RunsInv, ClockRuns, Resting
  <1>2. RunsInv /\ [ClockNext]_allVars => RunsInv'
    <2> SUFFICES ASSUME RunsInv, [ClockNext]_allVars PROVE RunsInv'
      OBVIOUS
    <2>1. [Next]_vars
      BY ClockStep DEF RunsInv, ClockInv
    <2>2. Inv' /\ TwoSeats' /\ ClockInv' /\ ClockRuns'
      BY <2>1, NextInv, TwoSeatsNext, ClockInvNext, NextRuns DEF RunsInv, Inv
    <2> QED
      BY <2>2 DEF RunsInv
  <1>3. RunsInv => ClockRuns
    BY DEF RunsInv
  <1> QED
    BY <1>1, <1>2, <1>3, PTL DEF ClockSpec

-----------------------------------------------------------------------------
(***************************************************************************)
(* Who is asked.  A card asks its questions before anything else (one, or  *)
(* one for each rule of seven_zero), and asks them of its player, who then *)
(* has the turn: jumping in gives it to him.                               *)
(***************************************************************************)
InFront(q) == \A i, j \in 1 .. Len(q) : i < j /\ Asks(q[j]) => Asks(q[i])
AsksFirst(q, p) == InFront(q) /\ \A i \in 1 .. Len(q) : Asks(q[i]) => q[i].who = p
AsksNothing(q)  == \A i \in 1 .. Len(q) : ~Asks(q[i])

LEMMA AsksFirstThen ==
  ASSUME NEW p, NEW q \in Seq(Addressed), NEW r \in Seq(Addressed),
         AsksFirst(q, p), AsksNothing(r)
  PROVE  q \o r \in Seq(Addressed) /\ AsksFirst(q \o r, p)
  <1>1. /\ q \o r \in Seq(Addressed) /\ Len(q \o r) = Len(q) + Len(r)
        /\ \A i \in 1 .. Len(q) + Len(r) :
             (q \o r)[i] = IF i <= Len(q) THEN q[i] ELSE r[i - Len(q)]
    BY ConcatProperties
  <1>2. Len(q) \in Nat /\ Len(r) \in Nat
    BY LenProperties
  <1>3. ASSUME NEW i \in 1 .. Len(q) + Len(r), Asks((q \o r)[i])
        PROVE  i <= Len(q)
    <2>1. CASE ~(i <= Len(q))
      BY <1>1, <1>2, <1>3, <2>1 DEF AsksNothing
    <2> QED
      BY <2>1
  <1>4. ASSUME NEW i \in 1 .. Len(q) + Len(r), Asks((q \o r)[i])
        PROVE  (q \o r)[i].who = p
    BY <1>1, <1>2, <1>3, <1>4 DEF AsksFirst
  <1>5. ASSUME NEW i \in 1 .. Len(q) + Len(r), NEW j \in 1 .. Len(q) + Len(r),
               i < j, Asks((q \o r)[j])
        PROVE  Asks((q \o r)[i])
    <2>1. i \in 1 .. Len(q) /\ j \in 1 .. Len(q)
      BY <1>2, <1>3, <1>5
    <2> QED
      BY <1>1, <1>2, <1>5, <2>1 DEF AsksFirst, InFront
  <1> QED
    BY <1>1, <1>4, <1>5 DEF AsksFirst, InFront

LEMMA AskingEffects ==
  ASSUME NEW p \in Name, NEW r \in Name
  PROVE  /\ \A e \in {Coloring(p, 0), Coloring(p, 4), Swapping(p)} : e.who = p
         /\ \A e \in {Advance, Skipping, Reversing, PassingHands, Drawing(p, 2),
                      Drawing(r, 2), Drawing(r, 4)} : ~Asks(e)
  BY DEF Coloring, Swapping, Advance, Skipping, Reversing, PassingHands, Drawing, NewEffect, Asks

LEMMA ShortAsking ==
  ASSUME NEW p, NEW e \in Addressed, NEW f \in Addressed, NEW g \in Addressed,
         Asks(e) => e.who = p, ~Asks(f), ~Asks(g)
  PROVE  /\ \A q \in {<<>>, <<e>>, <<e, f>>, <<e, f, g>>} :
              q \in Seq(Addressed) /\ AsksFirst(q, p)
         /\ \A q \in {<<>>, <<f>>} : q \in Seq(Addressed) /\ AsksNothing(q)
  <1>1. PICK q1, q2, q3, r : q1 = <<e>> /\ q2 = <<e, f>> /\ q3 = <<e, f, g>> /\ r = <<f>>
    OBVIOUS
  <1>2. /\ q1 \in Seq(Addressed) /\ Len(q1) = 1 /\ q1[1] = e
        /\ r \in Seq(Addressed) /\ Len(r) = 1 /\ r[1] = f
    BY <1>1, SMT
  <1>3. q2 \in Seq(Addressed) /\ Len(q2) = 2 /\ q2[1] = e /\ q2[2] = f
    BY <1>1, SMT
  <1>4. q3 \in Seq(Addressed) /\ Len(q3) = 3 /\ q3[1] = e /\ q3[2] = f /\ q3[3] = g
    BY <1>1, SMT
  <1>5. <<>> \in Seq(Addressed) /\ Len(<<>>) = 0
    BY EmptySeq
  <1>6. AsksFirst(<<>>, p) /\ AsksNothing(<<>>)
    BY <1>5 DEF AsksFirst, InFront, AsksNothing
  <1>7. AsksFirst(q1, p) /\ AsksNothing(r)
    BY <1>2 DEF AsksFirst, InFront, AsksNothing
  <1>8. AsksFirst(q2, p)
    BY <1>3 DEF AsksFirst, InFront
  <1>9. AsksFirst(q3, p)
    <2>1. ASSUME NEW i \in 1 .. 3, Asks(q3[i]) PROVE i = 1 /\ q3[i].who = p
      <3>1. i = 1 \/ i = 2 \/ i = 3
        OBVIOUS
      <3> QED
        BY <1>4, <2>1, <3>1
    <2> QED
      BY <1>4, <2>1 DEF AsksFirst, InFront
  <1> QED
    BY <1>1, <1>2, <1>3, <1>4, <1>5, <1>6, <1>7, <1>8, <1>9

\* The same effect over and over.
LEMMA RepeatedAsks ==
  ASSUME NEW p, NEW e \in Addressed, Asks(e) => e.who = p, NEW n \in Nat,
         NEW q, q = [i \in 1 .. n |-> e]
  PROVE  q \in Seq(Addressed) /\ AsksFirst(q, p)
  <1>1. q \in Seq(Addressed) /\ Len(q) = n
    BY Repeated
  <1>2. \A i \in 1 .. n : q[i] = e
    OBVIOUS
  <1> QED
    BY <1>1, <1>2 DEF AsksFirst, InFront

LEMMA QueuedAsksFirst ==
  ASSUME TypeOK, NEW p \in Seated, NEW c \in Card, NEW announced
  PROVE  AsksFirst(Queued(p, c, announced), p)
  <1> DEFINE next == NextPlayer(SeatAfter(p, c))
             uno  == UnoPenalty(p, c, announced)
             x    == CardEffects(p, c, SeatAfter(p, c))
             b    == StandardEffects(p, c, next)
             a    == SevenZeroEffects(p, c)
  <1>1. p \in Name /\ next \in Name
    <2>1. SeatAfter(p, c) \in Int
      BY QueuedTypes, SMT
    <2> QED
      BY <2>1, SeatTypes
  <1> HIDE DEF next
  <1>2. PICK adv, skip, rev, pass, dr, d2, d4, c0, c4, sw :
          /\ adv = Advance /\ skip = Skipping /\ rev = Reversing /\ pass = PassingHands
          /\ dr = Drawing(p, 2) /\ d2 = Drawing(next, 2) /\ d4 = Drawing(next, 4)
          /\ c0 = Coloring(p, 0) /\ c4 = Coloring(p, 4) /\ sw = Swapping(p)
    OBVIOUS
  <1>3. /\ {adv, skip, rev, pass, dr, d2, d4, c0, c4, sw} \subseteq Addressed
        /\ c0.who = p /\ c4.who = p /\ sw.who = p
        /\ ~Asks(adv) /\ ~Asks(skip) /\ ~Asks(rev) /\ ~Asks(pass)
        /\ ~Asks(dr) /\ ~Asks(d2) /\ ~Asks(d4)
    BY <1>1, <1>2, EffectTypes, AskingEffects
  <1>4. a \in Seq(Addressed) /\ AsksFirst(a, p)
    <2>1. PICK n : n = Copies("seven_zero")
      OBVIOUS
    <2>2. n \in Nat
      BY <2>1, CopiesCount
    <2>3. PICK q1, q2 : q1 = [i \in 1 .. n |-> pass] /\ q2 = [i \in 1 .. n |-> sw]
      OBVIOUS
    <2>4. q1 \in Seq(Addressed) /\ AsksFirst(q1, p)
      BY <1>3, <2>2, <2>3, RepeatedAsks
    <2>5. q2 \in Seq(Addressed) /\ AsksFirst(q2, p)
      BY <1>3, <2>2, <2>3, RepeatedAsks
    <2>6. <<>> \in Seq(Addressed) /\ AsksFirst(<<>>, p)
      BY <1>3, ShortAsking
    <2>7. a = q1 \/ a = q2 \/ a = <<>>
      BY <1>2, <2>1, <2>3 DEF SevenZeroEffects
    <2> HIDE DEF a
    <2> QED
      BY <2>4, <2>5, <2>6, <2>7
  <1>5. b \in {<<>>, <<skip>>, <<rev>>, <<d2, skip>>, <<c0>>, <<c0, d4, skip>>}
    BY <1>2, SMT DEF StandardEffects
  <1>6. a = <<>> \/ b = <<>>
    BY SMT DEF SevenZeroEffects, StandardEffects, kSkip, kReverse, kDraw2, kJolly, kJollyDraw4
  <1>7. x \in Seq(Addressed) /\ AsksFirst(x, p)
    <2>1. CASE StackTakes(settings.active_mods, c)
      <3>1. x = <<>> \/ x = <<c4>>
        BY <1>2, <2>1 DEF CardEffects
      <3> HIDE DEF x
      <3> QED
        BY <1>3, <3>1, ShortAsking
    <2>2. CASE ~StackTakes(settings.active_mods, c)
      <3>1. x = a \o b
        BY <2>2 DEF CardEffects, next
      <3> HIDE DEF a, b, x
      <3>2. /\ a \in Seq(Addressed) /\ AsksFirst(a, p)
            /\ b \in Seq(Addressed) /\ AsksFirst(b, p)
        <4>2. \A q \in {<<>>, <<c0>>, <<c0, d4>>, <<c0, d4, skip>>} :
                q \in Seq(Addressed) /\ AsksFirst(q, p)
          BY <1>3, ShortAsking
        <4>3. \A q \in {<<skip>>} : q \in Seq(Addressed) /\ AsksFirst(q, p)
          BY <1>3, ShortAsking
        <4>1. /\ \A q \in {<<rev>>} : q \in Seq(Addressed) /\ AsksFirst(q, p)
              /\ \A q \in {<<d2, skip>>} : q \in Seq(Addressed) /\ AsksFirst(q, p)
          BY <1>3, ShortAsking
        <4> QED
          BY <1>4, <1>5, <4>1, <4>2, <4>3
      <3>3. x = a \/ x = b
        BY <1>6, <3>1, <3>2, SMT
      <3> QED
        BY <3>2, <3>3
    <2> QED
      BY <2>1, <2>2
  <1>8. uno = <<>> \/ uno = <<dr>>
    BY <1>2 DEF UnoPenalty
  <1>9. PICK last : last = <<adv>>
    OBVIOUS
  <1>10. Queued(p, c, announced) = (x \o uno) \o last
    BY <1>2, <1>9 DEF Queued
  <1> HIDE DEF x, uno
  <1>11. /\ uno \in Seq(Addressed) /\ AsksNothing(uno)
         /\ last \in Seq(Addressed) /\ AsksNothing(last)
    BY <1>3, <1>8, <1>9, ShortAsking
  <1>12. x \o uno \in Seq(Addressed) /\ AsksFirst(x \o uno, p)
    BY <1>7, <1>11, AsksFirstThen
  <1> QED
    BY <1>10, <1>11, <1>12, AsksFirstThen

-----------------------------------------------------------------------------
(***************************************************************************)
(* Nobody who is there is played for: the one who is asked has the turn,   *)
(* or has left the table.                                                  *)
(***************************************************************************)
AskedInTurn(e) == Asks(e) => e.who = CurrentPlayer \/ e.who \notin Seated \cap Human

Asking(q) == InFront(q) /\ \A i \in 1 .. Len(q) : AskedInTurn(q[i])

AskInv == status = "playing" => Asking(effect_queue)

\* Only who has a seat is there, and a bot's timer is a bot's.
UsersSeated == status = "playing" => connected \subseteq Seated
BotTimers   == timer.kind = "bot" => timer.who \in BotName

RobInv == QueueInv /\ ClockInv /\ TwoSeats /\ AskInv /\ UsersSeated /\ BotTimers

\* What is left behind an effect that asks nothing asks nothing either; behind one that
\* asks, the rest goes on asking whoever has the turn.
LEMMA ResolvedAsks ==
  ASSUME NEW q \in Seq(Addressed), q # <<>>, Asking(q),
         \/ ~Asks(Head(q))
         \/ CurrentPlayer' = CurrentPlayer /\ UNCHANGED players
  PROVE  Asking(Tail(q))' /\ (~Asks(Head(q)) => Asking(<<Advance>> \o Tail(q))')
  <1>1. PICK t, a : t = Tail(q) /\ a = <<Advance>>
    OBVIOUS
  <1>2. /\ t \in Seq(Addressed) /\ Len(t) = Len(q) - 1 /\ Len(q) \in Nat \ {0}
        /\ \A i \in 1 .. Len(t) : t[i] = q[i + 1]
        /\ Head(q) = q[1]
    BY <1>1, HeadTailProperties, EmptySeq, LenProperties
  <1>3. InFront(t)
    BY <1>2 DEF Asking, InFront
  <1>4. ~Asks(Head(q)) => \A i \in 1 .. Len(t) : ~Asks(t[i])
    <2> SUFFICES ASSUME NEW i \in 1 .. Len(t), Asks(t[i]) PROVE Asks(q[1])
      BY <1>2
    <2>1. /\ 1 \in 1 .. Len(q) /\ i + 1 \in 1 .. Len(q) /\ 1 < i + 1
          /\ Asks(q[i + 1])
      BY <1>2
    <2> QED
      BY <2>1 DEF Asking, InFront
  <1>5. \A i \in 1 .. Len(t) : AskedInTurn(t[i])'
    <2> SUFFICES ASSUME NEW i \in 1 .. Len(t) PROVE AskedInTurn(t[i])'
      OBVIOUS
    <2>1. CASE ~Asks(Head(q))
      BY <1>4, <2>1 DEF AskedInTurn
    <2>2. CASE CurrentPlayer' = CurrentPlayer /\ UNCHANGED players
      <3>1. i + 1 \in 1 .. Len(q) /\ t[i] = q[i + 1]
        BY <1>2
      <3>2. AskedInTurn(q[i + 1])
        BY <3>1 DEF Asking
      <3> QED
        BY <2>2, <3>1, <3>2 DEF AskedInTurn, Seated
    <2> QED
      BY <2>1, <2>2
  <1>6. Asking(t)'
    BY <1>3, <1>5 DEF Asking, InFront
  <1>7. ASSUME ~Asks(Head(q)) PROVE Asking(<<Advance>> \o Tail(q))'
    <2>1. Advance \in Addressed /\ ~Asks(Advance)
      BY DEF Advance, NewEffect, Addressed, Asks, Effect, Kind
    <2>2. a \in Seq(Addressed) /\ Len(a) = 1 /\ a[1] = Advance
      BY <1>1, <2>1, SMT
    <2>3. PICK u : u = a \o t
      OBVIOUS
    <2>4. /\ u \in Seq(Addressed) /\ Len(u) = Len(a) + Len(t)
          /\ \A i \in 1 .. Len(a) + Len(t) :
               u[i] = IF i <= Len(a) THEN a[i] ELSE t[i - Len(a)]
      BY <1>2, <2>2, <2>3, ConcatProperties
    <2>5. \A i \in 1 .. Len(u) : ~Asks(u[i])
      BY <1>2, <1>4, <1>7, <2>1, <2>2, <2>4
    <2>6. Asking(u)'
      BY <2>5 DEF Asking, InFront, AskedInTurn
    <2> QED
      BY <1>1, <2>3, <2>6
  <1> QED
    BY <1>1, <1>6, <1>7

\* A card that is played asks whoever has the turn by it.
LEMMA PlayAsks ==
  ASSUME Inv, JumpInFirst, effect_queue = <<>>,
         NEW p, NEW c, CanPlay(p, c), NEW announced, Play(p, c, announced)
  PROVE  AskInv'
  <1>1. p \in Seated /\ c \in Card
    BY SeatTypes DEF CanPlay, Inv, TypeOK
  <1>2. CurrentPlayer' = p
    <2>1. CASE p # CurrentPlayer
      BY <2>1, JumpedIn DEF Inv
    <2>2. CASE p = CurrentPlayer
      BY <2>2 DEF Play, SeatAfter, CurrentPlayer, At
    <2> QED
      BY <2>1, <2>2
  <1>3. PICK q : q = Queued(p, c, announced)
    OBVIOUS
  <1>4. AsksFirst(q, p) /\ q \in Seq(Addressed) /\ q # <<>>
    BY <1>1, <1>3, QueuedAsksFirst, QueuedTypes DEF Inv
  <1>5. effect_queue' = q
    <2>1. effect_queue' = <<>> \o q
      BY <1>3 DEF Play
    <2> QED
      BY <1>4, <2>1, SMT
  <1>6. InFront(q) /\ \A i \in 1 .. Len(q) : Asks(q[i]) => q[i].who = p
    BY <1>4 DEF AsksFirst
  <1>7. Asking(q)'
    BY <1>2, <1>6 DEF Asking, InFront, AskedInTurn
  <1> QED
    BY <1>5, <1>7 DEF AskInv

\* A card that is drawn is offered to whoever has the turn.
LEMMA DrawAsks ==
  ASSUME Inv, effect_queue = <<>>, Draw(CurrentPlayer)
  PROVE  AskInv'
  <1>1. PICK p : p = CurrentPlayer
    OBVIOUS
  <1>2. CurrentPlayer' = p /\ p \in Name
    BY <1>1, SeatTypes DEF Draw, seats, CurrentPlayer, At, Inv
  <1>3. \/ effect_queue' = Append(<<>>, Advance)
        \/ effect_queue' = <<>>
        \/ \E c \in Card : effect_queue' = <<Deciding(p, c)>> \o <<>>
    <2>1. CASE DrawPenalty(p)
      BY <2>1 DEF DrawPenalty
    <2>2. CASE DrawOne(p)
      <3>1. PICK S \in Draws(p) :
              \/ \E c \in S :
                   IF Mod("force_play") THEN effect_queue' = effect_queue
                   ELSE effect_queue' = <<Deciding(p, c)>> \o effect_queue
              \/ effect_queue' = Append(effect_queue, Advance)
        BY <2>2, Zenon DEF DrawOne
      <3>2. S \subseteq Card
        BY DrawsTypes DEF FromStock, Stock, Buried, Inv, TypeOK
      <3> QED
        BY <3>1, <3>2
    <2> QED
      BY <1>1, <2>1, <2>2 DEF Draw
  <1>4. \E e \in Addressed : /\ effect_queue' = <<>> \/ effect_queue' = <<e>>
                             /\ Asks(e) => e.who = p
    <2>1. \A e : Append(<<>>, e) = <<e>> /\ <<e>> \o <<>> = <<e>>
      BY SMT
    <2>2. Advance \in Addressed /\ ~Asks(Advance)
      BY DEF Advance, NewEffect, Addressed, Asks, Effect, Kind
    <2>3. \A c \in Card : Deciding(p, c) \in Addressed /\ Deciding(p, c).who = p
      BY <1>2 DEF Deciding, NewEffect, Addressed, Asks, Effect, Kind
    <2> QED
      BY <1>3, <2>1, <2>2, <2>3
  <1>5. PICK e \in Addressed : /\ effect_queue' = <<>> \/ effect_queue' = <<e>>
                               /\ Asks(e) => e.who = p
    BY <1>4
  <1>6. PICK q : q = <<e>>
    OBVIOUS
  <1>7. Len(q) = 1 /\ q[1] = e
    BY <1>6, SMT
  <1>8. effect_queue' # <<>> => effect_queue' = q
    BY <1>5, <1>6
  <1>9. Asking(<<>>)'
    BY EmptySeq DEF Asking, InFront
  <1>10. Asking(q)'
    BY <1>2, <1>5, <1>7 DEF Asking, InFront, AskedInTurn
  <1> QED
    BY <1>8, <1>9, <1>10 DEF AskInv

\* Where nobody is played, drawn for or resolved, the question stays with whom it asks.
LEMMA SameAsking ==
  ASSUME AskInv, UNCHANGED <<effect_queue, players>>, CurrentPlayer' = CurrentPlayer,
         status' = "playing" => status = "playing"
  PROVE  AskInv'
  BY DEF AskInv, Asking, InFront, AskedInTurn, Seated

LEMMA LeaverAsks ==
  ASSUME Inv, TwoSeats, AskInv, NEW p \in MayLeave, Leave(p)
  PROVE  AskInv'
  <1> SUFFICES ASSUME status' = "playing" PROVE Asking(effect_queue)'
    BY DEF AskInv
  <1>1. /\ status = "playing" /\ p \in Seated /\ effect_queue' = effect_queue
    BY LeftToBot DEF Leave
  <1>2. PICK b \in BotName \ Seated : Rename(p, b)
    BY LeftToBot
  <1>3. Seated' = (Seated \ {p}) \cup {b} /\ p # b /\ b \notin Human
    BY <1>1, <1>2, RenamedSeats, MatchAssumption
  <1>4. CurrentPlayer' = IF CurrentPlayer = p THEN b ELSE CurrentPlayer
    BY <1>2, RenamedTurn DEF Inv
  <1>5. PICK q : q = effect_queue
    OBVIOUS
  <1>6. Asking(q)
    BY <1>1, <1>5 DEF AskInv
  <1>7. \A e : AskedInTurn(e) => AskedInTurn(e)'
    BY <1>3, <1>4 DEF AskedInTurn
  <1>8. Asking(q)'
    BY <1>6, <1>7 DEF Asking, InFront
  <1> QED
    BY <1>1, <1>5, <1>8

LEMMA NextAsks ==
  ASSUME SmallOrClosed, JumpInFirst, QueueInv, TwoSeats, AskInv, [Next]_vars
  PROVE  AskInv'
  <1>0. Inv
    BY DEF QueueInv
  <1>1. CASE \E p \in MayLeave : Leave(p)
    BY <1>0, <1>1, LeaverAsks
  <1>2. CASE \E p \in Human : \E c \in hand[p] : PlayCard(p, c)
    <2>1. PICK p, c : /\ CanPlay(p, c) /\ Play(p, c, called_uno)
                      /\ Idle /\ ~IsWaiting
      BY <1>2 DEF PlayCard, Handler, CanPlay
    <2> QED
      BY <1>0, <2>1, IdleQueue, PlayAsks
  <1>3. CASE \E p \in Human : DrawCard(p)
    BY <1>0, <1>3, IdleQueue, DrawAsks DEF DrawCard, Handler
  <1>4. CASE BotMove
    <2>1. Idle /\ ~IsWaiting /\ effect_queue = <<>>
      BY <1>0, <1>4, IdleQueue DEF BotMove, Handler
    <2>2. CASE Draw(CurrentPlayer)
      BY <1>0, <2>1, <2>2, DrawAsks
    <2>3. CASE ~Draw(CurrentPlayer)
      <3>1. PICK p, announced : /\ p = CurrentPlayer
                                /\ \E c \in hand[p] : /\ Playable(c, TableFor(p, hand[p]))
                                                       /\ Play(p, c, announced)
        BY <1>4, <2>3 DEF BotMove
      <3>2. PICK c \in hand[p] : Playable(c, TableFor(p, hand[p])) /\ Play(p, c, announced)
        BY <3>1
      <3>3. CanPlay(p, c)
        BY <1>0, <2>1, <3>1, <3>2, CurrentSeated DEF CanPlay, Idle, Inv
      <3> QED
        BY <1>0, <2>1, <3>2, <3>3, PlayAsks
    <2> QED
      BY <2>2, <2>3
  <1>5. CASE NestedPlay
    <2>1. effect_queue = <<>>
      BY <1>5 DEF NestedPlay, QueueInv, Queueing
    <2>2. CASE CanPlay(nested.who, nested.card)
      BY <1>0, <1>5, <2>1, <2>2, PlayAsks DEF NestedPlay
    <2>3. CASE ~CanPlay(nested.who, nested.card)
      BY <1>5, <2>3, SameAsking DEF NestedPlay, seats, CurrentPlayer, At
    <2> QED
      BY <2>2, <2>3
  <1>6. CASE \/ \E p \in Human : (\E a \in Offered : ProvideInput(p, a)) \/ LateInput(p)
             \/ BotAnswer \/ (\E p \in MayCallUno : CallUno(p))
             \/ Over \/ UNCHANGED vars
    BY <1>6, SameAsking DEF ProvideInput, LateInput, BotAnswer, CallUno, Over, vars, seats,
       CurrentPlayer, At
  <1>7. CASE Resolve
    <2>1. CASE UNCHANGED <<effect_queue, status, players, current_player_index>>
      BY <2>1, SameAsking DEF CurrentPlayer, At
    <2>2. CASE ~UNCHANGED <<effect_queue, status, players, current_player_index>>
      <3> SUFFICES ASSUME status' = "playing" PROVE Asking(effect_queue)'
        BY DEF AskInv
      <3>1. PICK q : q = effect_queue
        OBVIOUS
      <3>2. status = "playing" /\ q # <<>> /\ q \in Seq(Addressed)
        BY <1>0, <1>7, <3>1, SeatsStay DEF Resolve, AdvanceTurn, DrawCards, SkipTurn,
           ReverseOrder, ChooseColor, DecideDrawnCard, DecideSwapTarget, PassHands, Resolving,
           Inv, EngineInv, Next
      <3>3. Asking(q)
        BY <3>1, <3>2 DEF AskInv
      <3>4. PICK t, u : t = Tail(q) /\ u = <<Advance>> \o Tail(q)
        OBVIOUS
      <3>5. \/ ~Asks(Head(q))
            \/ CurrentPlayer' = CurrentPlayer /\ UNCHANGED players
        BY <1>7, <3>1
        DEF Resolve, AdvanceTurn, DrawCards, SkipTurn, ReverseOrder, ChooseColor, DecideDrawnCard,
            DecideSwapTarget, PassHands, Resolving, Asks, seats, CurrentPlayer, At
      <3>6. Asking(t)' /\ (~Asks(Head(q)) => Asking(u)')
        BY <3>2, <3>3, <3>4, <3>5, ResolvedAsks
      <3>7. CASE DecideDrawnCard /\ effect_queue' = Append(Tail(q), Advance)
        <4>1. DrawnQueue(q)
          BY <3>1, <3>2, <3>7, PlainTail DEF DecideDrawnCard, Resolving, QueueInv, Queueing
        <4>2. PICK v : v = Append(<<>>, Advance)
          OBVIOUS
        <4>3. effect_queue' = v
          BY <3>7, <4>1, <4>2, DrawnTail
        <4>4. Len(v) = 1 /\ v[1] = Advance
          BY <4>2, SMT
        <4>5. ~Asks(Advance)
          BY DEF Advance, NewEffect, Asks
        <4>6. Asking(v)'
          BY <4>4, <4>5 DEF Asking, InFront, AskedInTurn
        <4> QED
          BY <4>3, <4>6
      <3>8. CASE ~(DecideDrawnCard /\ effect_queue' = Append(Tail(q), Advance))
        <4>1. \/ effect_queue' = Tail(q)
              \/ effect_queue' = <<Advance>> \o Tail(q) /\ ~Asks(Head(q))
          BY <1>7, <2>2, <3>1, <3>8
          DEF Resolve, AdvanceTurn, DrawCards, SkipTurn, ReverseOrder, ChooseColor,
              DecideDrawnCard, DecideSwapTarget, PassHands, Resolving, Asks, Continue, Ask, seats
        <4> QED
          BY <3>4, <3>6, <4>1
      <3> QED
        BY <3>7, <3>8
    <2> QED
      BY <2>1, <2>2
  <1>8. CASE GiveUp
    BY <1>8 DEF GiveUp, AskInv
  <1> QED
    BY <1>1, <1>2, <1>3, <1>4, <1>5, <1>6, <1>7, <1>8 DEF Next, Tick, SmallOrClosed

LEMMA UsersSeatedNext ==
  ASSUME SmallOrClosed, Inv, TwoSeats, UsersConnected, UsersSeated, [ClockNext]_allVars
  PROVE  UsersSeated'
  <1> SUFFICES ASSUME status' = "playing" PROVE connected' \subseteq Seated'
    BY DEF UsersSeated
  <1>1. [Next]_vars /\ status = "playing" /\ connected \subseteq Seated
    BY ClockStep, SeatsStay DEF UsersSeated
  <1>2. CASE \E p \in MayLeave : RemoveMember(p)
    <2>1. PICK p \in MayLeave : Leave(p) /\ connected' = connected \ {p}
      BY <1>2 DEF RemoveMember
    <2>2. p \in Seated /\ \E b \in BotName \ Seated : Rename(p, b)
      BY <2>1, LeftToBot
    <2>3. Seated \ {p} \subseteq Seated'
      BY <2>2, RenamedSeats
    <2> QED
      BY <1>1, <2>1, <2>3
  <1>3. CASE \E p \in MayDrop : Drop(p) \/ Reconnect(p)
    <2>1. Seated' = Seated
      BY <1>3 DEF Drop, Reconnect, vars, seats, Seated
    <2> QED
      BY <1>1, <1>3, <2>1 DEF Drop, Reconnect
  <1>5. CASE \E p \in connected : \/ HandlePlayCard(p) \/ HandleDrawCard(p)
                                  \/ HandleProvideInput(p) \/ Interrupt(p)
    <2>1. UNCHANGED <<connected, players>>
      BY <1>5 DEF HandlePlayCard, HandleDrawCard, HandleProvideInput, Interrupt, Restarts,
         PlayCard, Play, DrawCard, Draw, ProvideInput, LateInput, seats
    <2> QED
      BY <1>1, <2>1 DEF Seated
  <1>6. CASE LoopStep \/ TimerPlays
    <2>1. UNCHANGED <<connected, players>>
      BY <1>6 DEF LoopStep, TimerPlays, BotAnswer, BotMove, Play, Draw, seats
    <2> QED
      BY <1>1, <2>1 DEF Seated
  <1>7. CASE \/ EngineStep \/ \E p \in MayCallUno \cap connected : HandleCallUno(p)
    <2>1. UNCHANGED <<connected, players>>
      BY <1>7 DEF EngineStep, HandleCallUno, CallUno, clock, NestedPlay, Play, Tick, GiveUp, Resolve,
         AdvanceTurn,         DrawCards, SkipTurn, ReverseOrder, ChooseColor, DecideDrawnCard, DecideSwapTarget,
         PassHands, seats
    <2> QED
      BY <1>1, <2>1 DEF Seated
  <1>8. CASE \/ ArmBot \/ ArmInput \/ ArmTurn \/ ArmNothing
             \/ EnterLoop \/ LoopDecides \/ LoopCrashes
             \/ TimerIdles \/ HandleUpdateSettings \/ Ended \/ UNCHANGED allVars
    <2>1. UNCHANGED <<connected, players>>
      BY <1>8 DEF ArmBot, ArmInput, ArmTurn, ArmNothing, ArmFor, EnterLoop, LoopDecides,
         LoopCrashes, TimerIdles, HandleUpdateSettings, Ended, Over, clock, allVars, vars, seats
    <2> QED
      BY <1>1, <2>1 DEF Seated
  <1> QED
    BY <1>2, <1>3, <1>5, <1>6, <1>7, <1>8 DEF ClockNext, SmallOrClosed

LEMMA BotTimersNext ==
  ASSUME BotTimers, [ClockNext]_allVars
  PROVE  BotTimers'
  <1>1. CASE ArmBot \/ ArmInput \/ ArmTurn \/ ArmNothing
    BY <1>1 DEF ArmBot, ArmInput, ArmTurn, ArmNothing, ArmFor, Armed, BotTimers
  <1>2. CASE UNCHANGED timer \/ timer' = NoTimer
    BY <1>2 DEF BotTimers, NoTimer
  <1>3. CASE \/ \E p \in connected : \/ HandlePlayCard(p) \/ HandleDrawCard(p)
                                      \/ HandleProvideInput(p) \/ Interrupt(p)
             \/ \E p \in MayCallUno \cap connected : HandleCallUno(p)
             \/ EngineStep \/ EnterLoop \/ LoopStep \/ LoopDecides \/ LoopCrashes
             \/ TimerPlays \/ TimerIdles
             \/ \E p \in MayDrop : Drop(p) \/ Reconnect(p)
             \/ \E p \in MayLeave : RemoveMember(p)
             \/ \E p \in MayJoin : HandleJoin(p)
             \/ HandleUpdateSettings \/ Ended \/ UNCHANGED allVars
    BY <1>2, <1>3 DEF HandlePlayCard, HandleDrawCard, HandleProvideInput, Interrupt, Restarts,
       HandleCallUno, EngineStep, EnterLoop, LoopStep, LoopDecides, LoopCrashes, TimerPlays,
       TimerIdles, Drop, Reconnect, RemoveMember, HandleJoin, HandleUpdateSettings, Ended,
       clock, allVars
  <1> QED
    BY <1>1, <1>3 DEF ClockNext

\* Between two handlers the decider has the turn, or is nobody who is there.
LEMMA DeciderThere ==
  ASSUME RobInv, phase = "idle", status = "playing", Decider \in connected
  PROVE  Decider = CurrentPlayer
  <1>1. Decider \in Seated \cap Human
    BY DEF RobInv, UsersSeated, ClockInv, UsersConnected
  <1>2. CASE IsWaiting
    <2>1. pending_player = Head(effect_queue).who /\ effect_queue # <<>>
      BY <1>2 DEF RobInv, QueueInv, Inv, EngineInv
    <2>2. Asks(Head(effect_queue))
      BY <1>2, AskedKind DEF RobInv, QueueInv, Asks
    <2>3. AskedInTurn(Head(effect_queue))
      <3>1. /\ effect_queue \in Seq(Addressed)
            /\ Head(effect_queue) = effect_queue[1] /\ 1 \in 1 .. Len(effect_queue)
        BY <2>1, HeadTailProperties, EmptySeq, LenProperties
        DEF RobInv, QueueInv, Inv, EngineInv
      <3> QED
        BY <3>1 DEF RobInv, AskInv, Asking
    <2> QED
      BY <1>1, <1>2, <2>1, <2>2, <2>3 DEF AskedInTurn, Decider
  <1>3. CASE ~IsWaiting
    BY <1>3 DEF Decider
  <1> QED
    BY <1>2, <1>3

LEMMA NobodyRobbedStep ==
  ASSUME RobInv
  PROVE  /\ LoopStep => Decider \notin connected
         /\ TimerPlays /\ Decider \in connected => timer.who = Decider /\ timer.kind # "bot"
  <1>1. ASSUME LoopStep, Decider \in connected PROVE FALSE
    <2>1. /\ phase = "idle" /\ status = "playing" /\ control = "instant"
      BY <1>1 DEF LoopStep, BotAnswer, BotMove, Handler, Idle
    <2>2. CurrentPlayer \in connected
      BY <1>1, <2>1, DeciderThere
    <2> QED
      BY <2>1, <2>2 DEF RobInv, ClockInv, LoopForAbsent, Online
  <1>2. ASSUME TimerPlays, Decider \in connected
        PROVE  timer.who = Decider /\ timer.kind # "bot"
    <2>1. phase = "idle" /\ status = "playing" /\ Due
      BY <1>2 DEF TimerPlays, BotAnswer, BotMove, Handler, Idle
    <2>2. Decider = CurrentPlayer
      BY <1>2, <2>1, DeciderThere
    <2>3. Decider \notin BotName
      BY <1>2, MatchAssumption DEF RobInv, ClockInv, UsersConnected
    <2>4. timer.who = Decider
      BY <2>1, <2>2 DEF Due, Decider
    <2> QED
      BY <2>3, <2>4 DEF RobInv, BotTimers
  <1> QED
    BY <1>1, <1>2

\* While nobody joins and only tables of two are left, wherever jump_in comes before
\* draw_stacking, the instant-bot loop decides nothing for a user who is there, and a
\* timer decides for him only when it was armed for him: the question of a card is that of
\* the player whose turn it is, whichever cards are jumped in, drawn or stacked, and it is
\* nobody's once he has left.
THEOREM NobodyIsRobbed ==
  ASSUME SmallOrClosed, JumpInFirst
  PROVE  ClockSpec => NobodyRobbed
  <1>1. ClockInit => RobInv
    <2> SUFFICES ASSUME ClockInit PROVE RobInv
      OBVIOUS
    <2>1. Init /\ connected \subseteq Seated /\ timer = NoTimer /\ effect_queue = <<>>
      BY DEF ClockInit, Init
    <2>2. Inv /\ Queueing
      BY <2>1, InitInv, OneEffect DEF Queueing, Init
    <2>3. AskInv
      BY <2>1, EmptySeq DEF AskInv, Asking, InFront
    <2>4. BotTimers
      BY <2>1 DEF BotTimers, NoTimer
    <2> QED
      BY <2>1, <2>2, <2>3, <2>4, ClockInvInit, TwoSeatsInit
      DEF RobInv, QueueInv, UsersSeated
  <1>2. RobInv /\ [ClockNext]_allVars => RobInv'
    <2> SUFFICES ASSUME RobInv, [ClockNext]_allVars PROVE RobInv'
      OBVIOUS
    <2>1. [Next]_vars
      BY ClockStep DEF RobInv, ClockInv
    <2>2. QueueInv' /\ TwoSeats' /\ AskInv'
      BY <2>1, NextQueueing, TwoSeatsNext, NextAsks DEF RobInv, QueueInv
    <2>3. ClockInv'
      BY ClockInvNext DEF RobInv, QueueInv, Inv
    <2>4. UsersSeated' /\ BotTimers'
      BY UsersSeatedNext, BotTimersNext DEF RobInv, QueueInv, ClockInv
    <2> QED
      BY <2>2, <2>3, <2>4 DEF RobInv
  <1>3. RobInv => (/\ LoopStep => Decider \notin connected
                   /\ TimerPlays /\ Decider \in connected
                      => timer.who = Decider /\ timer.kind # "bot")
    BY NobodyRobbedStep
  <1> QED
    BY <1>1, <1>2, <1>3, PTL DEF ClockSpec, NobodyRobbed
=============================================================================
