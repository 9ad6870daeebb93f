------------------------------ MODULE TurnSafety ------------------------------
(***************************************************************************)
(* What the turn timer owes the players: the table never stops because one *)
(* of them is away or silent, and nobody who is there is played for.       *)
(***************************************************************************)
EXTENDS TurnClock

\* Every variable of the clock has its type: a timer is always somebody's.
ClockTypeOK ==
  /\ bot_mode \in BotMode /\ connected \subseteq Human
  /\ timer \in Timer \cup {NoTimer}
  /\ control \in {"idle", "started", "instant", "stepped", "crashed"}
  /\ interruptions \in 0 .. MaxInterruptions

\* Whose decision the table waits for.
Decider == IF IsWaiting THEN pending_player ELSE CurrentPlayer

\* A bot at turn, an open question, and in the waiting mode every turn have a
\* timer, and one that its callback will still accept: whatever happened to the
\* table since it was armed.
ClockRuns ==
  (/\ Resting /\ status = "playing"
   /\ CurrentPlayer \in BotName \/ IsWaiting \/ bot_mode = "kWaitUntilTurnEnd")
  => timer # NoTimer /\ Due

\* OnTurnStarted's loop is about to play only for a user who is away: neither a bot
\* nor a user who is there is at turn, and the engine has finished its effects.
LoopForAbsent == control = "instant" => phase = "idle" /\ ~Online(CurrentPlayer)

\* A bot decides for a user who is there only when that user's own time is up:
\* OnTurnStarted's loop stops at him, and no timer armed for another one is his.
NobodyRobbed ==
  [][/\ LoopStep => Decider \notin connected
     /\ TimerPlays /\ Decider \in connected => timer.who = Decider /\ timer.kind # "bot"]_allVars

\* "Colour picks and other mid-turn inputs are now auto-handled by a bot after the
\* turn time limit expires" (CHANGELOG.md:40): no question stays open for ever.
QuestionAnswered ==
  (Resting /\ IsWaiting)
  ~> ((Resting /\ ~IsWaiting) \/ status # "playing" \/ control = "crashed")

\* OnTurnStarted comes to an end, with its loop and its calls of itself.
HandlerReturns == []<>(control \in {"idle", "crashed"})

\* The table rests for good only where the lobby wants it: in the instant mode,
\* with a user at turn who is asked nothing.
GameGoesOn ==
  []<>(\/ control # "idle" \/ status # "playing"
       \/ bot_mode = "kPlayInstantly" /\ CurrentPlayer \in Human /\ ~IsWaiting)

\* A lobby whose match is over has none any more ("If nullptr, the lobby is in the
\* waiting phase", lobby.hpp:99): nothing goes on with it.
NothingPlaysOn == control # "crashed"
=============================================================================
