------------------------------ MODULE TurnClock ------------------------------
(***************************************************************************)
(* MatchController around the match engine: the one timer a lobby has for  *)
(* the turn, what it is armed for (OnTurnStarted), what its callbacks find *)
(* when it fires, and the loop in which a bot plays at once for a user who *)
(* is away.  The engine's handlers are those of MatchInstance; here each   *)
(* one gets its caller, and the lobby's changes of connections and seats   *)
(* are what happens between two of them.  As in MatchInstance, an operator *)
(* that no action uses is a seeded fault of the one that follows it.       *)
(*                                                                         *)
(* `control' is the place of the controller's code: "idle" when no handler *)
(* runs, "started" from the call of the engine until OnTurnStarted has     *)
(* been through, "instant" before an iteration of the instant-bot loop and *)
(* "stepped" after its TakeBotTurn.  "crashed" is the loop that goes on    *)
(* with a match that has been destroyed.                                   *)
(***************************************************************************)
EXTENDS MatchInstance

CONSTANTS
  Modes,              \* the values of bot_mode the match may start with
  ModesDuring,        \* bound: those the host may set while it is played
  MayDrop,            \* bound: the users who may be away, now or later
  MaxInterruptions    \* bound: inputs that nobody asked for

BotMode == {"kPlayInstantly", "kWaitUntilTurnEnd"}

ASSUME ClockAssumption ==
  /\ Modes \subseteq BotMode /\ Modes # {} /\ ModesDuring \subseteq BotMode
  /\ MayDrop \subseteq Human /\ MaxInterruptions \in Nat

VARIABLES
  bot_mode,           \* LobbySettings::bot_mode
  connected,          \* the users whose LobbyMember::is_connected holds
  timer,              \* what is scheduled under the key of the lobby's turn
  control,
  seen,               \* the instant-bot loop's before and was_waiting
  interruptions

clock == <<bot_mode, connected, timer, control, seen, interruptions>>
allVars == <<vars, clock>>

\* A timer remembers whom it was armed for: the player at turn or the one asked.
Timer   == [kind : {"bot", "input", "turn"}, who : Name]
NoTimer == [kind |-> "none", who |-> NoName]
Armed(k, p) == [kind |-> k, who |-> p]

Online(p) == p \in BotName \cup connected
Resting   == control = "idle" /\ phase = "idle"
Situation == <<CurrentPlayer, IsWaiting>>
Unseen    == <<NoName, FALSE>>

ClockInit ==
  /\ Init
  /\ bot_mode \in Modes
  /\ connected \in {S \in SUBSET (Seated \cap Human) :
                     S # {} /\ (Seated \cap Human) \ MayDrop \subseteq S}
  /\ timer = NoTimer /\ control = "started"
  /\ seen = Unseen /\ interruptions = 0

-----------------------------------------------------------------------------
(***************************************************************************)
(* The users' handlers: the engine's, then ClearTurnTimer and OnTurnStarted.*)
(***************************************************************************)
Restarts ==
  /\ control = "idle" /\ control' = "started"
  /\ timer' = NoTimer
  /\ UNCHANGED <<bot_mode, connected, seen>>

HandlePlayCard(p) ==
  /\ Restarts /\ UNCHANGED interruptions
  /\ \E c \in hand[p] : PlayCard(p, c)

HandleDrawCard(p) == Restarts /\ UNCHANGED interruptions /\ DrawCard(p)

HandleProvideInput(p) ==
  /\ Restarts /\ UNCHANGED interruptions
  /\ \E a \in Offered : ProvideInput(p, a)

\* An input nobody asked for re-arms the timer all the same.
Interrupt(p) ==
  /\ Restarts
  /\ interruptions < MaxInterruptions /\ interruptions' = interruptions + 1
  /\ LateInput(p)

HandleCallUno(p) == control = "idle" /\ CallUno(p) /\ UNCHANGED clock

\* What Tick and PlayCard do further down the same handler.
EngineStep == (NestedPlay \/ Tick) /\ UNCHANGED clock

-----------------------------------------------------------------------------
(***************************************************************************)
(* OnTurnStarted.                                                          *)
(***************************************************************************)
Starting == control = "started" /\ phase = "idle"

ArmFor(t) ==
  /\ timer' = t /\ control' = "idle"
  /\ UNCHANGED <<vars, bot_mode, connected, seen, interruptions>>

\* The user at turn is away and the lobby lets a bot play for him at once.
PlaysInstantly ==
  /\ bot_mode = "kPlayInstantly"
  /\ CurrentPlayer \notin BotName /\ ~Online(CurrentPlayer)

ArmBot   == Starting /\ status = "playing" /\ CurrentPlayer \in BotName
            /\ ArmFor(Armed("bot", CurrentPlayer))

ArmInputUnasked ==
  /\ Starting /\ status = "playing" /\ CurrentPlayer \notin BotName
  /\ ~PlaysInstantly
  /\ ArmFor(Armed("input", pending_player))

ArmInputWaitingOnly ==
  /\ Starting /\ status = "playing" /\ CurrentPlayer \notin BotName
  /\ ~PlaysInstantly /\ IsWaiting
  /\ ArmFor(IF bot_mode = "kWaitUntilTurnEnd" THEN Armed("input", pending_player) ELSE timer)

\* An open question has a time limit in both modes.
ArmInput ==
  /\ Starting /\ status = "playing" /\ CurrentPlayer \notin BotName
  /\ ~PlaysInstantly /\ IsWaiting
  /\ ArmFor(Armed("input", pending_player))

\* In the instant mode a user who is there has no time limit.
ArmTurn ==
  /\ Starting /\ status = "playing" /\ CurrentPlayer \notin BotName
  /\ ~PlaysInstantly /\ ~IsWaiting
  /\ ArmFor(IF bot_mode = "kWaitUntilTurnEnd" THEN Armed("turn", CurrentPlayer) ELSE timer)

\* The match is over: nothing is armed, and the broadcast destroys the match.
ArmNothing == Starting /\ status # "playing" /\ ArmFor(timer)

EnterLoop ==
  /\ Starting /\ status = "playing" /\ PlaysInstantly
  /\ control' = "instant"
  /\ UNCHANGED <<vars, bot_mode, connected, timer, seen, interruptions>>

\* One iteration: TakeBotTurn, remembering what it found.
LoopStep ==
  /\ control = "instant" /\ control' = "stepped"
  /\ seen' = Situation
  /\ BotAnswer \/ BotMove
  /\ UNCHANGED <<bot_mode, connected, timer, interruptions>>

LoopEndsAtBots == CurrentPlayer \in BotName \/ seen = Situation

\* After the broadcast: a user who is there or a bot is at turn, or nothing seems
\* to have changed; then OnTurnStarted is called again.
LoopEnds == Online(CurrentPlayer) \/ seen = Situation

LoopDecides ==
  /\ control = "stepped" /\ phase = "idle" /\ status = "playing"
  /\ control' = IF LoopEnds THEN "started" ELSE "instant"
  /\ seen' = Unseen
  /\ UNCHANGED <<vars, bot_mode, connected, timer, interruptions>>

\* The broadcast of a match that is over destroys it; the loop does not look.
LoopCrashes ==
  /\ control = "stepped" /\ phase = "idle" /\ status # "playing"
  /\ control' = "crashed"
  /\ UNCHANGED <<vars, bot_mode, connected, timer, seen, interruptions>>

-----------------------------------------------------------------------------
(***************************************************************************)
(* The timer fires.  Its callback plays only if what it was armed for is   *)
(* still the case; otherwise it ends, and nothing is armed any more.       *)
(***************************************************************************)
Due == IF timer.kind = "input" THEN IsWaiting /\ pending_player = timer.who
                               ELSE CurrentPlayer = timer.who

TimerPlaysOnce ==
  /\ Resting /\ timer # NoTimer /\ Due
  /\ timer' = NoTimer
  /\ BotAnswer \/ BotMove
  /\ UNCHANGED <<control, bot_mode, connected, seen, interruptions>>

TimerPlays ==
  /\ Resting /\ timer # NoTimer /\ Due
  /\ timer' = NoTimer /\ control' = "started"
  /\ BotAnswer \/ BotMove
  /\ UNCHANGED <<bot_mode, connected, seen, interruptions>>

TimerIdles ==
  /\ Resting /\ timer # NoTimer
  /\ ~Due \/ status # "playing"
  /\ timer' = NoTimer
  /\ UNCHANGED <<vars, bot_mode, connected, control, seen, interruptions>>

-----------------------------------------------------------------------------
(***************************************************************************)
(* The lobby: connections, departures, joins, and the host's settings.     *)
(***************************************************************************)
\* OnClose, and OnOpen of a member.  Neither looks at the match's timer.
Drop(p) ==
  /\ Resting /\ status = "playing" /\ p \in Seated \cap connected
  /\ connected' = connected \ {p}
  /\ UNCHANGED <<vars, bot_mode, timer, control, seen, interruptions>>

Reconnect(p) ==
  /\ Resting /\ status = "playing" /\ p \in (Seated \cap Human) \ connected
  /\ connected' = connected \cup {p}
  /\ UNCHANGED <<vars, bot_mode, timer, control, seen, interruptions>>

RemoveMemberSilently(p) ==
  /\ Resting
  /\ Leave(p)
  /\ connected' = connected \ {p}
  /\ UNCHANGED <<control, bot_mode, timer, seen, interruptions>>

\* RemoveMember tells the controller only if it was the leaver's turn.
RemoveMember(p) ==
  /\ Resting
  /\ Leave(p)
  /\ connected' = connected \ {p}
  /\ control' = IF CurrentPlayer = p /\ status' = "playing" THEN "started" ELSE "idle"
  /\ UNCHANGED <<bot_mode, timer, seen, interruptions>>

\* HandleJoin does not tell the controller at all.
HandleJoin(p) ==
  /\ Resting
  /\ Join(p)
  /\ connected' = connected \cup {p}
  /\ UNCHANGED <<bot_mode, timer, control, seen, interruptions>>

HandleUpdateSettings ==
  /\ Resting /\ status = "playing"
  /\ bot_mode' \in ModesDuring
  /\ UNCHANGED <<vars, connected, timer, control, seen, interruptions>>

Ended == control \in {"idle", "crashed"} /\ Over /\ UNCHANGED clock

ClockNext ==
  \/ \E p \in connected : \/ HandlePlayCard(p) \/ HandleDrawCard(p)
                          \/ HandleProvideInput(p) \/ Interrupt(p)
  \/ \E p \in MayCallUno \cap connected : HandleCallUno(p)
  \/ EngineStep
  \/ ArmBot \/ ArmInput \/ ArmTurn \/ ArmNothing
  \/ EnterLoop \/ LoopStep \/ LoopDecides \/ LoopCrashes
  \/ TimerPlays \/ TimerIdles
  \/ \E p \in MayDrop : Drop(p) \/ Reconnect(p)
  \/ \E p \in MayLeave : RemoveMember(p)
  \/ \E p \in MayJoin : HandleJoin(p)
  \/ HandleUpdateSettings
  \/ Ended

ClockSpec == ClockInit /\ [][ClockNext]_allVars

\* The event loop finishes the handler it has begun, and a timer that stays armed
\* fires.  One that is re-armed again and again need not: TimerPlays is disabled
\* in between.  No user ever has to do anything.
Fairness ==
  /\ WF_allVars(EngineStep)
  /\ WF_allVars(ArmBot \/ ArmInput \/ ArmTurn \/ ArmNothing \/ EnterLoop)
  /\ WF_allVars(LoopStep \/ LoopDecides \/ LoopCrashes)
  /\ WF_allVars(TimerPlays \/ TimerIdles)

FairClockSpec == ClockSpec /\ Fairness
=============================================================================
