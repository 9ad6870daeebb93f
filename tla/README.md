# UNI UNO: a TLA+ development

This directory holds a verification development of the UNI UNO server and of
the parts of its client that coordinate with it. The specifications are TLA+
modules translated from the source; TLC checks them on small instances and
TLAPS proves what is said under "What is proved". Paths below are relative to the
repository.

## The system

The backend is one C++ process around a single uWebSockets event loop. Message
handlers and timer callbacks run to completion, one after the other, so the
interleavings that matter are those of *whole handlers* (of several users, of
timers, of connections that close) and of the steps *between* two handlers in
which a question is open. The client is a Svelte application that talks to the
server over one WebSocket.

| Component | State | Operations | Hard behaviour |
|---|---|---|---|
| Match engine (`src/match/match_instance.cpp`) | seats, turn, direction, piles, hands, announcements, effect queue, open question, answer | `Start`, `PlayCard`, `DrawCard`, `ProvideInput`, `CallUno`, `TakeBotTurn`, `Tick`, add and remove a seat | effects that ask and are resolved again; nested `PlayCard`; seats that change while a question is open |
| Rules and mods (`src/match/rules`) | none (they read and change the match) | `ValidatePlay`, `OnCardPlayed`, `OnCardDrawn` | a pipeline that stops at the first mod that handles the event, in the order the lobby lists them |
| Effects (`src/match/effects`) | the player, card or count they were made for | `Resolve`, `Serialize` | carry user names that may be out of date when they are resolved |
| MatchController (`src/controllers/match_controller.cpp`) | one turn timer per lobby | five handlers, `OnTurnStarted`, three kinds of timer callback | a timer that finds the turn has moved on; bots; players who are away |
| LobbyController (`src/controllers/lobby_controller.cpp`) | lobbies, members, host, codes, eviction timers | create, join, rejoin, leave, kick, promote, settings, start | users on two sockets, eviction against reconnection, bots that take seats over |
| Saved matches (same file, `src/database.cpp`) | rows of saved matches and their participants | save, list, resume, delete, purge | a transaction of several statements that may fail or be cut short; lists that are out of date; two rooms with the same match |
| WebServer, rate limiter, login throttle | connections, buckets and failures per address | upgrade, close, message, login | counts that must come back; buckets dropped when idle; logins whose body arrives later |
| Auth, stats, routers, transport | database rows, tokens | single synchronous requests | little that a test would not reach |
| WebSocket store (`frontend/src/lib/stores/ws.svelte.ts`) | socket, pending requests, reconnect timer | `emitAndWait`, connect, dispatch, reconnect | two sockets at once, late close events, requests whose answer never comes |
| Lobby store | the room, the code kept in `localStorage` | join, leave, rejoin after each opening | its view against the server's, over lost answers |
| Game store | the last state received | dispatch on server messages | none: it shows what was sent last |

The lobby owns the match (`Lobby::match`); the controller reaches it through the
lobby and is told of starts, replacements and aborts by callbacks; the engine
calls nobody. Every request passes the limiters of the web server before a handler
sees it. The properties that make each part correct are the hazards of
`PROJECT.json`, each at the line where it bites.

## Modules

| Module | Models |
|---|---|
| `CardRules` | cards and the rule pipeline: `Playable` is the loop over `ValidatePlay`, `StackTakes`, `ReachesJumpIn` and `StackAdds` that over `OnCardPlayed` |
| `MatchInstance` (extends `CardRules`) | the engine: one action per handler or effect, and the lobby's changes of the table |
| `MatchSafety` | its properties |
| `MCMatch` | games for TLC |
| `TurnClock` (extends `MatchInstance`) | MatchController around the engine: the turn timer, its callbacks, the instant-bot loop, connections, departures and joins |
| `TurnSafety`, `MCTurn` | its properties, and games for TLC |
| `Lobby` | LobbyController: rooms, members, hosts, sockets, bots, eviction |
| `LobbySafety`, `MCLobby` | its properties, and small lobbies for TLC |
| `SaveStore` | abstract: a store of whole saves |
| `SavedMatches` | the saved matches: two tables, the transaction that writes them, listing, deleting, resuming, crashes |
| `SavedSafety`, `MCSaved` | its properties, among them that it implements `SaveStore`; two users and two rooms for TLC |
| `TokenBucket` | abstract: a budget for everybody, refilled by the clock |
| `ServerLimits` | `RateLimiter`, its eviction, `LoginThrottle` and the login behind them |
| `LimitsSafety`, `MCLimits` | its properties, among them that it implements `TokenBucket`; a small limiter for TLC |
| `Client` | a browser tab, its sockets, the network, and the user's seat at the server |
| `ClientSafety`, `MCClient` | its properties, and a tab with two sockets for TLC |
| `MatchProofs`, `MatchCards`, `MatchRules` | theorems about `Spec` of the engine: types and questions; cards; announcements, the queue, turns, wins and penalties |
| `TurnProofs` | theorems about `ClockSpec` |
| `LobbyProofs`, `SavedProofs`, `LimitsProofs`, `ClientProofs` | theorems about the other four |

Each component is a specification of its own. Where one needs another it has of it what
it can tell apart: `TurnClock` contains the engine; `Lobby` has of a match the names of
its players; `SavedMatches` has of a room who is in it; `Client` has of a room whether
it lists the user and on which socket.

### How MatchInstance corresponds to the code

`phase` is the place of the event loop: `"idle"` between two handlers, `"tick"`
inside `Tick` (one action per resolved effect), `"overflow"` where `Tick` has been called
with a queue it gives the match up for, `"call"` where `DrawCard` or
`DecideDrawnCardEffect` calls `PlayCard`. A handler is enabled only when the loop
is idle, so the steps of one handler are never interleaved with another one, as in
the code.

| Action | Code |
|---|---|
| `PlayCard`, `DrawCard`, `ProvideInput`, `LateInput`, `CallUno` | the handlers of `MatchController` up to and including the call of `Tick`; `LateInput` is `HandleProvideInput` of a user who was not asked, also when nobody is: `ProvideInput` ignores it, `Tick` asks again or has nothing to do |
| `BotAnswer`, `BotMove` | `TakeBotTurn`, with and without an open question; who decides that it is called (a bot's timer, a player's timeout, the instant mode) belongs to the turn clock, so here it may be called at any moment |
| `NestedPlay` | `PlayCard` called from inside; a refusal goes unnoticed, as in the code |
| `GiveUp` | the branch of `Tick` that finishes a match with more than 64 effects queued, won by nobody |
| `AdvanceTurn`, `DrawCards`, `SkipTurn`, `ReverseOrder`, `ChooseColor`, `DecideDrawnCard`, `DecideSwapTarget`, `PassHands` | `Resolve` of the effect of that name inside `Tick`'s loop |
| `Leave` | `RemoveMember` of a user or a bot (bots can be kicked): the match is ended, a bot takes the seat over (the effects and the question keep the old name) or the seat is closed; then `CheckMatchIntegrity`, and the end of a lobby without humans. Which of the three is open: the host may change the lobby's settings while the match runs, and only the engine's own copy is fixed |
| `Join` | `HandleJoin`: take the first bot's seat over, or a free one |
| `Over` | the match has ended and the controller has dropped it |

What the model abstracts:

- The draw pile is a set. It is shuffled each time it is filled and its order is
  seen by nobody, so drawing its back is drawing any of its cards. A draw of
  several cards takes the pile first, then the reshuffled discard pile
  (`FromStock`, `Yields`). Of the discard pile only the top is told apart.
- A bot plays any playable card; the scores that rank them are left out.
- A name says whether a seat is a bot's (`BotName`); `is_bot` changes only
  together with the name.
- `settings.deck` stands for `GenerateDeck` and the count fields, and
  `starting_cards` is what `ClampSettings` lets through.
- Answers are those the client offers. `ProvideInput` does not validate them.
  `std::stoi` in `effects/standard.cpp:53` and `:66` throws on anything but a number, and
  the first of them takes any number for a colour; these answers are left out.
- `active_mods` may repeat a mod: the patch of the host is merged as it is
  (`lobby_controller.cpp:805`), and the engine makes a rule of every entry
  (`match_instance.cpp:38`). Of the mods only seven-zero does more when it is repeated
  (`Copies`): an effect for each entry. The others set a flag or the turn, or stop the loop.
- A match is one that was started with the room's members, or resumed at a table like the
  room's. `HandleResumeSavedMatch` compares nothing, so a match may also be resumed in a
  room with other members (see Lobby): its players whom nobody is in the room for are played
  by nobody, and what such a table does is not modelled.
- Left out: the last play shown to the clients, statistics, the transaction that
  writes them (its effect on a save is in `SavedMatches`) and `SerializePlayerState`.

An operator that no action uses and that stands right before another one is a
seeded fault (see "Mutants").

### How TurnClock corresponds to the code

A lobby has one timer key for its turn. `timer` is what is scheduled under it: for
which purpose (a bot's move, an open question, a turn in the waiting mode) and for
whom, which is what the callback compares with the table when it fires. `control` is
the place of the controller's code, as `phase` is that of the engine's: a user's
handler calls the engine, clears the timer and calls `OnTurnStarted`, and no other
handler runs before that is over. `seen` holds the two locals that the instant-bot loop
compares.

| Action | Code |
|---|---|
| `HandlePlayCard`, `HandleDrawCard`, `HandleProvideInput`, `Interrupt`, `HandleCallUno` | the handlers; `Interrupt` is an input of somebody who was not asked, also when nobody is, after which the timer starts anew |
| `EngineStep` | what `Tick` and `PlayCard` do further down the same handler |
| `ArmBot`, `ArmInput`, `ArmTurn`, `ArmNothing`, `EnterLoop` | the branches of `OnTurnStarted` |
| `LoopStep`, `LoopDecides`, `LoopCrashes` | one iteration of the instant-bot loop, and what it finds after the broadcast; the cap of twenty iterations makes no difference, since `OnTurnStarted` is called again after it |
| `TimerPlays`, `TimerIdles` | the callbacks, with what they were armed for still the case, or not |
| `Drop`, `Reconnect`, `RemoveMember`, `HandleJoin`, `HandleUpdateSettings` | the lobby. Only `RemoveMember` tells the controller, and only if it was the leaver's turn |

Delays are abstracted: an armed timer may fire at any moment at which no handler runs.
A table that a departure leaves without two seats or without users is aborted at once;
the call of `OnTurnStarted` that `RemoveMember` makes on it just before is left out, and
so is a second match in the same lobby, also one resumed in place of the first.

Fairness is weak, and on the server's own steps only: a handler that has begun goes on
(the loop is single-threaded), and a timer that stays armed while the loop is free
fires. A timer that is re-armed before it fires need not fire, as in the code. No user
ever has to play, answer, leave or come back, and no eviction has to happen.

### How Lobby corresponds to the code

`lobbies` is `lobbies_` (a destroyed room leaves its domain), `next_id` is `next_id_`, and
`sockets` is the `PerSocketData` of the open sockets: whose socket it is and the room it
is bound to (`lobby_code` and `lobby_id`, which change together). `latest`, the socket a
user opened last, is a history variable that only a property reads. The match of a room
is here the sequence of its players' names (`MatchState::players`), and its end
(`NotifyMatchOver`) may come at any time; what happens in it is `MatchInstance` and
`TurnClock`.

| Action | Code |
|---|---|
| `OnOpen`, `OnClose` | the hooks of the web server. A user may have several sockets; a new one takes over his entry, and only the one in the entry takes him off line. A user who is in two rooms comes back to either, as the map orders them |
| `HandleCreate`, `HandleJoin`, `HandleLeave`, `HandlePromote`, `HandleKick`, `HandleUpdateSettings`, `HandleStartGame`, `HandleResumeSavedMatch` | the handlers, each with the `RemoveMember`, `CheckMatchIntegrity`, `SyncBots` and change of host it makes, in one step; a request that is refused changes nothing and is no step |
| `Evict` | one round of the eviction timer's second loop. A tick that evicts several users is several steps: the loop looks at nothing that a step before it could have changed, and each step alone is also a tick. The grace period is abstracted: whoever is off line may be evicted at any time |
| `NotifyMatchOver` | the call of the controller |

`Removed` is `RemoveMember` with its four ways out; the callback `on_player_replaced_` may
play the match to its end, which `MayEnd` leaves open. `Requests` are the settings a room
has after the host's patch has been merged. Names of bots are drawn at random among the
free ones. A socket's address may be used again once it is closed.

`HandleResumeSavedMatch` puts a saved match into the room, in the place of one that is
being played, and compares its table with nobody's: the list the client was shown
compares users only, and may be old. So the table it brings is either the room's or any
other one; `foreign` says that it is another one, and then its seats are not followed
(`match` is empty). It stays `foreign` until that match ends or gives way. Which matches
there are to resume is `SavedMatches`; here there may always be one. The callback
`on_game_started_` may play the resumed match to its end and destroy it, whereupon the
handler reads it (line 983): the same flaw as that of `turn_crash`, and left out here.

Left out: invite codes (a room is found by its id), `HandleList` and `HandleRejoin`, which
change nothing but subscriptions, what is sent, and the listing and deleting of saved
matches (`SavedMatches`).

Fairness: `Evict` of each user in each room. The timer repeats every second for the life
of the server, and a user who stays away has been away for longer than the grace period
in the end. Nobody has to open or close a socket or to send anything.

### How SavedMatches corresponds to the code

`tables` is the database as the server's one connection sees it, `disk` what has been
committed. A handler is one step, as the loop is single-threaded, but for
`SaveMatchStateToDB`: each of its statements is a step, since each may throw and the
process may end after any of them. No handler runs in between (`NoneSaving`).

| Action | Code |
|---|---|
| `UpsertRow`, `DeleteParticipants`, `InsertParticipant`, `Commit` | the statements of `SaveMatchStateToDB`, then the rest of `RemoveMember` (`AfterSave`) |
| `SaveFails` | one of them throws: the exception leaves the `try` block, the destructor of `TransactionGuard` rolls back, and the handler goes on |
| `RemoveMember` | of a user, or of a bot (`Bot`, whichever: it has no part in what is saved), the three ways out of it that differ for saves: the match is ended by a quitter, goes on without him, or ends because too few are left |
| `HandleGetSavedMatchesList` | the purge of expired rows, which may fail unnoticed, and what the client is shown: matches of which exactly the users in the room are participants |
| `HandleDeleteSavedMatch`, `HandleResumeSavedMatch` | by a host who has been shown the match some time, maybe long ago |
| `MatchOver` | the end of a match and the statement that drops its save, which commits with the statistics or not at all |
| `Expire`, `Crash` | a day passes over a row; the process ends, at any moment, and starts again on what was committed |

`foreign_keys` is off in SQLite unless switched on, and `src/database.cpp:87-108` does not
switch it on: `ON DELETE CASCADE` does nothing, and the participants of a deleted row
stay (`WithoutRows`). Of an exported state only the users' seats and the rules are told
apart. Host is whoever asks: he may promote anybody at any time. Row expiry is a flag.

### How ServerLimits corresponds to the code

`buckets` is `buckets_` of each limiter, with `NoBucket` where the map has no key;
`entries` that of the throttle. `Asks` is what both wildcards do: `MaybeEvict`, then
`Allow`. A login is two steps, `HandleLogin` when the headers have arrived and
`LoginFails`, `LoginSucceeds` or `LoginDropped` when the body has, because uWS calls back
for it later and anything may happen in between. Time is a count of ticks; budgets are
counted in fractions of a token so that rates below one per tick are whole numbers, and
the rounding of doubles is left out. `since`, `admitted` and `failed` are history: they
are what somebody counts who begins to watch at any moment.

### How Client corresponds to the code

A link is one WebSocket with both of its ends: what the tab believes of it (`client`),
whether the server has it open (`server`), whether what is sent arrives (`alive`), and the
frames on their way (`up`, `down`). A cut link is noticed by each end when it is; frames
handed over before may or may not have arrived.

| Action | Code |
|---|---|
| `Connect`, `TimerFires`, `PageShows` | `connect()`, the reconnect timer and the visibility listener: the three that open a socket |
| `ClientOpens` | `onopen`, with the handler of the lobby store that sends a rejoin if it has a code |
| `OnClose` | `onclose`, also of an attempt that failed: the socket is forgotten if it is the current one, all pending requests are rejected, the timer is armed |
| `OnMessage` | `_dispatch`: an answer settles its request, and the frame reaches the lobby store |
| `Timeout` | the five seconds of `emitAndWait` |
| `Join`, `Leave` | the lobby store's requests |
| `Upgrade`, `ServerNotices` | the upgrade with the cap per address and `OnSocketOpen`; `OnSocketClosed` |
| `Busy`, `HandleRejoin`, `HandleJoin`, `HandleLeave`, `Removal` | the rate limiter's wildcard and the handlers, with the answers the tab tells apart; kick and eviction |
| `Drop`, `Reload`, `PageHides`, `OtherOpens`, `OtherCloses` | the network, the browser, other tabs of the address |
| `Calm` | from here on no connection drops, the page stays in front and no other tab opens: the assumption of `Reconnects`, as a step that may come at any time |

The ids of requests are used again once no frame that waits carries them (`Abandoned`);
in the code a counter makes them unique. The delay of the reconnect timer, `disconnect()`
(which nothing calls), an expired token and the toast of an error that answers no request
are left out.

Fairness: the timers of the tab fire, and each end of a connection gets on with what
has arrived. Nothing is promised of the user, the host or other tabs.

## Runs

`match_closed` (about two million states): seven games that nobody leaves. Each
game has the few cards that make its mods meet: the plain rules; draw stacking
with no bluffing; jump in listed before draw stacking; seven-zero with force play;
force play with progressive and no bluffing; seven-zero listed twice, so that one seven
asks twice, and 65 times, so that `Tick` gives the match up. Two users and, where direction and
targets matter, a bot as a third seat. Decks of six or seven cards and hands of two
make the stock run out and the discard pile be reshuffled within a few moves, and
every hand end at one card often. It shows:

- `TypeOK`; `CardConservation`: piles and hands partition the deck;
- `QuestionAtHead`: between two handlers of a match that is played effects are queued
  exactly while a question is open, and it is the one the head of the queue asks;
- `UnoFlagHonest`: an announced hand has at most two cards;
- `PenaltyBacked`: an accumulated penalty lies on a draw card of its kind and is
  covered by the pile;
- `LastCardWins`: nobody sits without a card while the match is played;
- `NestedPlayAccepted`: the `PlayCard` whose result nobody looks at is never refused;
- `EffectQueueBounded`: the queue holds five effects at most, or one for each seven-zero
  that is listed and two more; only with more than 62 of them can a match be given up;
- `TurnHandedOver`: without a question the table is handed back only by an advance of the
  turn;
- `JumpInStealsTurn`: whoever jumps in has the turn, where jump in is listed first.

`match_churn` (about 1.2 million states): three games in which users leave, are replaced
by bots, take bots over and hot-join, or a bot is kicked, at any moment between two handlers,
with questions open. `QuestionAtHead` is checked; that types and cards are kept there
too, that announcements are honest and that the queue holds what one card leaves is proved, with any
departures and joins, and `LastCardWins` and `PenaltyBacked` with any departures. The
rest is not claimed under churn: a question whose player has been replaced by a bot keeps
the old name, so that `NestedPlayAccepted` does not hold, and a hot join with an empty
stock gets an empty hand, or hands out the discard pile that a penalty lies on.

`match_removal` is a violation and a finding. `RemovalKeepsTurn`: `RemovePlayerMidGame`
corrects the turn index so that nobody is skipped, but when the last seat has the turn
and an earlier seat goes, the turn jumps to the first seat.

`turn_leave` and `turn_join` (about 250 000 and 150 000 states) are checked under
`FairClockSpec`, in both bot modes. In `turn_leave` two users, or a user and a bot, sit at
the table; one user may be away, come back, leave, be replaced, and the host may change
the mode to the instant one. In `turn_join` a third user takes the free seat of a
running match with seven-zero, listed once or twice, and may then be away; of the properties below it checks
`QuestionAnswered`, with questions `turn_leave` has not. They show:

- `ClockRuns`: a bot at turn, an open question and, in the waiting mode, every turn has a
  timer armed that its callback will accept;
- `LoopForAbsent`: the instant-bot loop is about to play only for a user who is away;
- `NobodyRobbed`: a bot decides for a user who is there only when the time that was armed
  for that user is up;
- `QuestionAnswered`: no question stays open for ever, though no user has to answer;
- `HandlerReturns`: `OnTurnStarted`, which calls itself, comes to an end;
- `GameGoesOn`: the table waits without a limit only in the instant mode, with a user at
  turn who is asked nothing.

They hold for these tables and not for every one. `turn_crash` is a finding: the
instant-bot loop plays the last card, the broadcast destroys the match and the loop reads
it (`NothingPlaysOn`). What else breaks them was met while modelling and is kept out of
the tables above:

- `QuestionAnswered`: the player who is asked for a swap target leaves and a bot gets the
  seat. The effect keeps the old name and asks again for ever
  (`src/match/effects/decide_swap_target.cpp:17`; `CHANGELOG.md:40` reports such stalls
  as fixed).
- `HandlerReturns`: the same with the seat closed and the next player away in the instant
  mode. The loop's guard (`src/controllers/match_controller.cpp:270`) stops it, and
  `OnTurnStarted` at 302 then enters it again.
- `JumpInStealsTurn` with draw stacking listed before jump in: `draw_stacking.cpp:26`
  marks the card as handled, jump in does not run, and the play is accepted without the
  turn being stolen, against the comment in `jump_in.cpp:36`.
- A bot taken over while it is at turn leaves a timer under the wrong name (which is why
  in `turn_join` users join free seats only); a seat closed before that of the player at
  turn moves the turn without telling the clock (`match_removal`); a change from the
  instant mode to the waiting one arms nothing before the next move.

`turn_leave` and `turn_join` keep one user at the table throughout. With everybody away
the instant mode plays the match to its end within one call, which nothing bounds.

`lobby_rooms` (about 290 000 states): a room of three seats, three users, two sockets
between them, so that up to three are members and one is away, four kinds of settings with
a wish for bots below and above the bounds, kicks of users and bots alike, and saved
matches that the host resumes at any moment. It is
symmetric in users and bots. It shows:

- `LobbyTypeOK`, with the number of bots within its bounds: a bot that replaced a user may
  be kicked when the settings want none;
- `RoomFits`: never too many members, nobody twice, always a user;
- `SeatsMirrored`: the table of a match that was started in the room, or resumed at a table
  like the room's, is the room seat by seat while it runs. One resumed at another table is
  not, and nothing evens them out later (`lobby_controller.cpp:971`);
- `HostPassedOn`: a host who goes is followed by somebody connected, if there is one.

`lobby_sockets` (about 160 000 states, under `FairSpec`): two users, three sockets, two
rooms after one another, so that sockets stay bound to a room that their user has left or
that is gone. It shows:

- `SocketsAgree`: who is shown as connected has an open socket, bound to the room;
- `LatestSocketCounts`: the newest socket decides, whichever older ones close;
- `LobbyReclaimed`: a room none of whose users has a socket ends, or one of them returns.

Only users are kicked there, because of what `lobby_stale` shows, a finding: the bot that
takes over from a user who leaves a match keeps his socket. The socket closes, and the
room sends to it (`LiveSockets`); and while it is open, kicking the bot unbinds the user
from the room he has joined since, whereupon nobody notices when he goes.

Two more things that no property states, and that the hazards list: a socket that is still
bound to a room its user has left cannot enter another one; and when the host is evicted
while nobody is connected, he stays the host of a room he is not in, also for those who
come back.

`saved_matches` (about 540 000 states): two users and two rooms that share one match, so
that a save is listed in one room and resumed, deleted, won or saved again in the other;
any statement of the transaction may fail and the server may crash at any point. It is
symmetric in users, rooms and matches. It shows:

- `WholeSaves`: what is committed implements `SaveStore`, a store in which a save is
  replaced or dropped at one stroke and always has all the players it was made for. The
  refinement maps `disk` to the store;
- `WonIsGone`: a match that has been won cannot be resumed, unless dropping its save
  failed or another room was playing the same match;
- `RecentSavesKept`: the purge takes no match that was saved within the day, also when
  the row is that of an older save.

What the code does and its texts do not say, none of it a property here: a resumed match
takes the settings of the room (`lobby_controller.cpp:972`), not those "associated with
the save" (`match_instance.hpp:44`), and writes them into the next save; a match is saved
when a member goes, not "on every move" (`lobby.svelte.ts:61`); with
`quit_deletes_match` and `save_state` both on, the match is saved and not deleted
(`lobby.hpp:46`); the last user to leave a match that goes on leaves a save with no
participants, which nobody is ever shown.

`limits` (about 350 000 states): one limiter with a burst of two requests and a token
every second tick, one account, logins that are read late and out of order, evictions and
sweeps, and somebody who begins to count at any moment. It shows:

- `KeepsBudgets`: the buckets implement `TokenBucket`; creating them late, refilling them
  only when asked and dropping them when idle is invisible. This rests on an assumption
  about the constants, that an idle bucket is full again (300 seconds against at most 20);
- `RateHeld`: in any stretch of time an address has no more admitted than the burst and
  what the rate gives;
- `FailuresBounded`: fewer than twice `MaxFails` failures in any stretch of one lockout. The
  comment in `login_throttle.hpp:15` speaks of a rolling window; the window starts anew when
  it is over, so the bound is nearly twice what a rolling one would give;
- `LockHolds`: no sweep, failure or success, also of a login under way when the account
  was locked, lifts a lock.

`client` (about 425 000 states): one tab with up to two sockets, a cap of two connections
and another tab at the address. It shows:

- `NotStranded`: a tab in front that was told to connect is connected, connecting, or has
  the timer armed;
- `ConnectionsCounted`: the count of an address is the number of connections the server
  has open, and never passes the cap;
- `ViewConverges`: once everything said has arrived, the tab shows a room exactly if the
  room has the user in it, connected by this socket;
- `Reconnects`: when the network holds and the page stays in front, the tab is connected in
  the end and stays so.

The two exceptions in these are behaviours of the code. `limited`: a rejoin refused for
its rate, like one that times out, makes the store forget its room while the user is
still a member of it (after a timeout the answer that is late brings the room back).
`Forgotten`: `connect()` and the timer may each open a socket, nothing closes the older
one, and it takes up a connection of the address; at the cap the refused attempts follow
each other, and each of their closes rejects all pending requests. And `ViewConverges` is
about a socket that was alone in use since it was opened: the frames of two sockets
overtake each other.

### Bounds

The bounds are the constants: the tables, decks and hands of `MCMatch` and `MCTurn`, who
may leave, join, be away and press the button; of `Lobby` the users, the seats of a room
(three or two for `kMaxMembers`), the sockets open at a time, the rooms ever created (one
or two, one at a time), the settings asked for and who is kicked; and `MaxInterruptions`, the number of
inputs nobody asked for (one: a member who sends them for ever re-arms the timer for
ever). Of `SavedMatches` they are the users, rooms and matches in use at one time and the
settings, of which those without saving are left out; of `ServerLimits` the clock
(`MaxTime`, seven ticks: more than twice a lockout and longer than an idle bucket is kept)
and the logins awaited at a time (`MaxReading`); of `Client` the sockets in use, the
requests that wait, the frames under way in one direction (`MaxQueue`, one), and the
connections of other tabs. Nothing else is capped. Three seats are enough for direction, for "the next player" to differ from
"the previous one" and for a choice of targets; two for the special cases of reverse
and of the swap. Two colours are enough for a colour to match or not.

### Mutants

Each property of a passing run has a mutant in `PROJECT.json`: a change of one
definition as a plausible bug would make it (a reshuffle that keeps the top card in
both piles, a swap of hands that leaves the announcements behind, an advance queued
before the penalty, a transaction that is not rolled back, a bucket dropped while it is
owed requests, a close event of an old socket that forgets the new one). TLC finds the
property violated in each.

## What is proved

For every value of the constants that satisfies the named assumptions of the modules
(`CardAssumption`, `MatchAssumption`, `ClockAssumption`, `LobbyAssumption`,
`SavedAssumption`, `LimitsAssumption`, `ClientAssumption`), in particular any number of
users, bots, cards, games, departures, joins, rooms, sockets and clients:

| Theorem | States | Where it needs more |
|---|---|---|
| `TypeCorrect`, `QuestionsAtHead` | `[]TypeOK`, `[]QuestionAtHead` of the engine | |
| `CardsConserved` | `[]CardConservation` | |
| `AnnouncementsHonest`, `QueueStaysSmall` | `[]UnoFlagHonest`, `[]EffectQueueBounded`: at most five effects or what the listed seven-zeros make of one card, and a match is given up only with more than 62 of them | |
| `LastCardsWin`, `PenaltiesBacked` | `[]LastCardWins`, `[]PenaltyBacked` | nobody joins |
| `DrawnCardsArePlayed`, `TurnsHandedOver` | `[]NestedPlayAccepted`, `TurnHandedOver` | nobody joins or leaves |
| `JumpersHaveTheTurn` | `JumpInStealsTurn` | every game lists jump in before draw stacking |
| `ClockImplementsMatch` | `ClockSpec => Spec`: all of the above hold of the clock too | |
| `ClockConservesCards`, `ClockTypeCorrect`, `LoopPlaysForAbsent` | `[]CardConservation`, `[]ClockTypeOK`, `[]LoopForAbsent` of the clock | |
| `ClockAlwaysRuns` | `[]ClockRuns` | nobody joins, who leaves leaves a table of two, the waiting mode is not set during a match |
| `NobodyIsRobbed` | `NobodyRobbed` | nobody joins, who leaves leaves a table of two, jump in before draw stacking |
| `LobbyTypeCorrect`, `RoomsFit`, `HostsArePassedOn`, `LatestSocketsCount` | `[]LobbyTypeOK`, `[]RoomFits`, `HostPassedOn`, `[]LatestSocketCounts` | |
| `TablesMirrorRooms` | `[]SeatsMirrored` | matches started in the room, or resumed at a table like the room's (in the formula) |
| `SocketsAlwaysAgree` | `[]SocketsAgree` | only users are kicked |
| `SavedTypeCorrect`, `SavesAreWhole` | types; `SavedMatches` implements `SaveStore` | |
| `WonMatchesAreGone`, `RecentSavesAreKept` | `[]WonIsGone`, `[]RecentSavesKept` | |
| `LimitsTypeCorrect`, `BudgetsAreKept` | types; `ServerLimits` implements `TokenBucket` | |
| `RatesAreHeld`, `FailuresAreBounded`, `LocksHold` | `[]RateHeld`, `[]FailuresBounded`, `LockHolds` | |
| `ClientTypeCorrect`, `TabNotStranded`, `ConnectionsAreCounted`, `ViewsConverge` | the four invariants of the run `client` | |

These are all the invariants, action properties and refinements that the passing runs
check.

### What the proofs rest on

The assumptions say what the code guarantees: user names and bot names differ, absent
values are none of them, a table opens with at least two different names and the deck
has a card for the discard pile after the deal (`ClampSettings` and `HandleStartGame`);
a card is white exactly if it is a joker (`GenerateDeck`); there are at least as many bot
names as seats (`SyncBots` draws until it finds a free one). Those about limits hold of
the default values (`src/webserver.cpp:28-33`) and of those of `Evict` in
`rate_limiter.hpp` and `login_throttle.hpp`; they are settings of the environment, and a
limiter that refills more slowly than in 300 seconds breaks them.

The hypotheses in the third column are not for the provers' sake. Without each of them the
code does otherwise:

- with joins, an empty stock leaves the newcomer without a card, and what he is dealt may
  be the pile that a penalty lies on;
- with departures, the question of a player whom a bot replaced keeps the old name, so
  that the card he was to play is refused and the turn is not handed on;
- a saved match resumed in a room it does not fit leaves members without a seat, or players
  nobody plays, until it ends (`lobby_controller.cpp:971`);
- draw stacking listed before jump in takes the card without giving the turn
  (`draw_stacking.cpp:26`);
- from a table of three or more a departure may move the turn without telling the clock
  (`match_removal`), a bot taken over at turn leaves its timer under the wrong name
  (`lobby_controller.cpp:472`), and a change to the waiting mode arms nothing
  (`lobby_controller.cpp:804`);
- the bot that took over from a user keeps his socket's address, and kicking it unbinds
  whoever has that address by then (`lobby_stale`).

### The engine

`TypeOK` is not inductive. `Inv` in `MatchProofs` adds `EngineInv`: when and by
whom the engine waits (`Asks`, `Addressed`), that an answer lying ready fits the effect
at the head (`Fits`: a colour for the colour choice, zero or one for the drawn card),
and that a nested call names a card and a player. `active_type' = provided_input` is the
step that needs it. There is one lemma per action. `MatchCards` adds `Conserved` and
`OneSeatEach` (no name has two seats: the hands of a duplicate name would be counted
twice by a rotation, and a rename would overwrite a hand); its lemmas say what `Take`
does to the partition, that a rotation permutes hands, and so on per action.

`MatchRules` builds on both:

- `UnoInv` adds that whoever is announced has a seat (`Announced`), or an announcement
  could pass to whoever gets the name next.
- `QueueInv` says what a queue looks like (`Queueing`): effects of which the last is the
  advance of the turn, or the decision about a drawn card and nothing else, whose
  resolution may call `PlayCard`; and nothing is queued when `PlayCard` is called.
  `SizeInv` adds its length (`Sizing`): what the rules make of one card, which is five
  effects at most, or one for each seven-zero and two more. The bound alone is not
  inductive, because a nested `PlayCard` queues more.
- `DrawnInv` adds that the card which a question or a nested call names still fits the
  table (`DrawnFits`): since it was judged nothing was played, and the player's hand has
  only grown by cards that cannot make it a bluff. `TurnsHandedOver` follows from it and
  from the place of the advance in the queue.
- `EmptyHandsWin` needs only the cards besides: the proof follows every way by which they
  leave a hand, after which the hand has a card or the match is over.
- `PenaltyInv` says that either there is no penalty and nothing queued that would add to
  it, or a draw card of its kind is on top and the pile under it is worth the penalty and
  what the queue is about to add (`PenaltyFree`, `PenaltyLies`); in the second case
  nobody draws from the stock before it is paid.

### The turn clock

`TurnProofs` shows that every step of the clock is one of the engine or leaves the match
alone; it needs only that whoever is connected is a user. `LoopForAbsent` is not inductive
without `InHandler`: the engine has effects left to resolve only while a handler or the
loop's `TakeBotTurn` runs, so that nothing moves the turn between the loop's look at it
and its next iteration. The theorem about the timer rests on `TypeCorrect` through the
refinement: who is at turn or asked is somebody with a name.

`ClockRuns` needs little more (`RunsInv`): a step that arms a timer arms the one the
table waits for, a step between two handlers does not move the turn, and a callback that
does nothing was not due. `NobodyRobbed` speaks of whoever decides, so `RobInv` has to
know who is asked: `AskInv` says that the effects that ask are at the front of the queue
(a seven-zero listed twice asks twice) and ask the player whose turn it is, wherever jump
in gives him the turn before the question is queued; `UsersSeated` that only who has a
seat is connected; `BotTimers` that a bot's timer is a bot's.

### The lobby

`LobbyInv` says of each room that it is `Sound`: its members are different, fit the seats,
are not bots only, and are the table of its match in the same order (`Seating`), but for
a match that is `foreign`, of which the room keeps no table. A
handler is a composition of `Removed`, `Synced`, `PassedOn` and the like; each has a
lemma that says it keeps what `Sound` says, and what becomes of the host. The lemmas about
`Kept` (the members that stay, in their order) are proved from the position each one gets
rather than by induction.

`LatestInv` adds for `LatestSocketCounts` that no socket is bound to a room yet to be made,
and follows the latest socket of each user through the rooms he has been in (`Seated`);
`ReachInv` adds for `SocketsAgree` that the socket in an entry is open, bound to the room
and of that very user.

### Saves, limits

`SavedProofs` carries `Halfway`: how far an open transaction has come. Until it commits it
has touched the rows and participants of one match only; the participants inserted and
those still to be inserted are together those of the room; hence a commit is one `Put` of
`SaveStore`, a rollback or a crash is a stutter, and so is whatever happens to the
participants of a match that has no row.
For `WonIsGone` it looks at every place a save could come back from: the rows,
committed or not, and the rooms that play the match (`NoTraceLeft`: a match that is gone
has no trace in any of them). For `RecentSavesKept` the row about to be committed must be
good for the day as well (`KeptFresh`), because the purge reads the rows and not
`today`.

`LimitsProofs` shows first that a bucket is dropped only when it is full
(`SweepIsInvisible`) and that time refills a budget at once or step by step to the same
amount; the refinement follows. For `RatesAreHeld` the invariant adds the budget to what
has been admitted: both together are at most the burst and what the rate has given since the
watch began. For `FailuresAreBounded` it tells apart in which window, and
before or after which lock, the failures that somebody has counted lie.

### The client

`ClientProofs` has first one invariant of three conjuncts, with one lemma per action: a step
either leaves both ends of every socket as they were (`SameEndsKeep`), opens or closes
one end at the server, where the cardinality of the open ones moves with the count, or
closes ends of the tab and arms the timer with it.

`ViewConverges` speaks only of a socket with nothing under way, and is far from inductive.
`ViewInv` says of the socket in use what the frames under way promise (`Good`):

- a frame that shows the room to somebody who is no member is followed by one that hides
  it, and a frame that hides it from a member by one that shows it;
- a member who does not see his room has a frame that will show it under way, has asked
  for it, or was refused for his rate; and a tab that shows a room its user is not in
  has a frame under way that hides it, or a rejoin that the server will answer with one;
- every rejoin that is pending has its frame, or its answer, under way.

It needs besides that a tab which shows a room remembers its code (`Remembered`), that
requests are pending only while a socket is open (`Awaited`), and that a seat is held
by a connection the server has open (`SeatOpen`). The lemmas about `Has` and `Followed` say
what appending a frame, taking the first and forgetting old request ids do to such
promises; there is one lemma per action above them.

### What is only model-checked

The liveness properties: `QuestionAnswered`, `HandlerReturns`, `GameGoesOn`,
`LobbyReclaimed` and `Reconnects`. Liveness under fairness and `ENABLED` are out of the
prover's reach, as is what recursive definitions compute; the project declares no recursive
operator. Outside the hypotheses of the table above the properties there are known to
fail or not claimed.

## Not modelled

- Registration, tokens and password hashing (single synchronous steps over the database
  and a library), statistics (reads), static files and the operational endpoint.
- The conversion of database rows and the migrations; what `ExportState` writes of cards
  and effects, beyond the seats and the rules: a restored match begins between two
  handlers, in a state `MatchInstance` may be in.
- `connections_` of the web server: the close of an older socket of a user erases the entry
  of the newer one, but nothing reads it.
- In the tab: rooms and saves that are listed, settings, the game store, logging out
  (which does not close the socket), rendering and forms.
- The generated message contract and the build.

## What is left

1. `TurnGame`: an abstract game (whose turn, who is asked, who has won) that
   `MatchInstance` implements.
2. Weaker hypotheses for `ClockAlwaysRuns` and `NobodyIsRobbed`: larger tables from which
   only seats behind that of the player at turn are closed, or where leavers are always
   replaced, and joins that take free seats only.
3. Two rooms at a time in `lobby_sockets`, and a match with takeovers of bots at turn.
