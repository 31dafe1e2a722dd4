# Kung Fu Chess: a verification development

Kung Fu Chess is chess without turns.  Pieces travel across the board in real
time, several at once, rest after every journey, and may jump to dodge (and
take) an enemy that comes in.  A game is played over a server that keeps the
authoritative board; clients send commands and draw what the server reports.

This directory holds TLA+ modules that model the program, TLC configurations
that check them on small boards, and proofs, checked by TLAPS, that hold for
boards of any size.

## 1. The system

| Component | Code | State it keeps | Operations |
|---|---|---|---|
| Geometry, motions, jumps, rests | `shared/logic/realtime/{include/motion.hpp,src/motion.cpp}` | path, step index and clock of one motion; clock of a jump or rest | `travelPath`, `advance`, `completeStep`, `stopHere` |
| Board and pieces | `shared/logic/model` | a grid of pointers; per piece its cell, kind, state | `addPiece`, `removePiece`, `movePiece`, `setPieceState` |
| Movement rules | `shared/logic/rules` | none | `legalDestinations` per kind, `validateMove`, `promotedKind` |
| Real-time arbiter | `shared/logic/realtime/src/real_time_arbiter.cpp` | vectors of motions, jumps, rests | `startMotion`, `startJump`, `advance` |
| Game engine | `shared/logic/engine` | board, arbiter, over flag, event bus | `requestMove`, `requestJump`, `wait`, `endGame`, `legalDestinationsFor` |
| Game record | `shared/logic/game_record` | score of each side, move log | listens on the bus |
| Session, room, seats, ratings | `server/app/src/{game_session,room,seat_table,rating_settler}.cpp` | seats and members, the vacancy countdowns, one engine | `addClient`, `applyCommand`, `handleDisconnect`, `tick` |
| Lobby | `server/app/src/{room_manager,matchmaker}.cpp` | logged-in clients, rooms, the search queue | `handleMessage`, `handleDisconnected`, `tick` |
| Server loop, network, user store | `server/app/src/server_main.cpp`, `server/net`, `server/store` | connections by id, user table | one thread: `poll` runs the handlers of what arrived, then `tick` |
| Remote client | `client/net/src/{remote_game,networked_game}.cpp` | the last frame received, own colours, room, roster, countdown, searching | `receive`, `sendCommand`, `legalDestinationsFor`, the lobby requests |
| WebSocket client | `client/net/src/websocket_client.cpp` | connection, inbox | `send`, `poll` |
| Loopback client | `client/net/src/loopback_game.cpp` | a session and a remote game in one process | as the remote client |
| Controller and frame loop | `client/input`, `client/app/src/game_app.cpp` | the selected cell, the window's own log and score | clicks, double-clicks, one frame |
| Lobby screen | `client/app/src/lobby_controller.cpp` | is the room dialog open, the text in its box | clicks on its buttons |
| Wire formats | `shared/logic/io` | none | encode and decode |
| View | `client/view` | animation clocks | layout, scene, drawing |

The engine calls the arbiter, which changes the board; the engine turns the
arbiter's reports into events on a synchronous bus; the session forwards events
to its clients and lets the rating settler listen for the fallen king.  The room
adds the forfeit countdowns, the room manager routes messages to rooms.  A
client keeps no game: every tick of the server ends in a full frame, and the
client replaces what it shows by it; moves and captures are announced besides,
and from these the window keeps its own log and score.  All of the server's
logic runs on one thread, and so does all of a client's: concurrency is in the
*game* (many pieces under way, resolved in some order within a tick), in the
*order of messages* of independent clients, their disconnects and the ticks, and
between a *client and the server*, whose requests and answers cross.

What is hard here, and what makes each part correct:

* **Arbiter**: which of several crossings of one tick happens first; pieces
  captured in mid-pass; jumpers lifted off the board and put back later; clocks
  that outlive their pieces.  No piece may be lost, doubled, or moved without a
  motion of its own; every journey ends.
* **Engine**: everything the tick reported must be scored once, promoted, and
  end the game, in a loop that runs after the fact; what was published as
  accepted must start.
* **Room and lobby**: forfeits against reconnects, a finished game settled once,
  a client in one room only.
* **Client**: a view rebuilt from whatever messages arrived, commands given on an
  older view than the server's, searches that end while they are cancelled.
* **Wire formats**: squares named from the other end of the board, several
  fields in one word, texts that arrive with a part missing.

PROJECT.json lists the components with what is and is not modelled, and every
hazard at its line with the properties that watch it.

## 2. Modules

| Module | Models | Kind |
|---|---|---|
| `Geometry` | paths, durations | pure operators |
| `Board` | the board as a record, its methods as operators | pure operators |
| `MovementRules` | rules, validation, promotion | pure operators |
| `Arbiter` | `RealTimeArbiter` | state machine |
| `GameEngine` (extends `Arbiter`) | `GameEngine`, `ScoreBoard` | state machine, the specification of one game |
| `GameProperties` | what a game promises | properties |
| `MCGameEngine` | small positions for TLC | model checking |
| `Match` | a game as its room sees it | pure operators |
| `MatchSpec` | what a game promises its room | abstract specification, implemented by `GameEngine` |
| `Entries` | maps and vectors of the code | pure operators |
| `Rating` | Elo ratings | pure operators |
| `Matchmaker` | `Matchmaker` | pure operators on the queue |
| `Room` (takes `Match`, `Rating`) | `Room`, `GameSession`, `SeatTable`, `RatingSettler` | pure operators on a room |
| `Lobby` (takes `Room`, `Matchmaker`) | `RoomManager`, the connections, the main loop, the account store | state machine, the specification of the server |
| `LobbyProperties` | what the server promises | properties |
| `MCLobby` | accounts and symmetry for TLC | model checking |
| `Notation` | flags, piece tokens, squares, commands | pure operators |
| `StateCodec` (extends `Notation`) | frames, and boards as text | pure operators |
| `WireFormat` (extends `StateCodec`) | every message of the protocol | pure operators |
| `Spelling` (extends `WireFormat`) | what words of letters and numerals look like, as assumptions that TLC evaluates | facts about strings |
| `Wire` (extends `Spelling`) | texts that are written, damaged and read, and the replica | state machine |
| `Replica` (extends `MovementRules`) | what `RemoteGame` makes of a frame | pure operators |
| `Selection` (extends `Replica`) | layout, `BoardMapper`, `Controller`, dispatch of mouse actions | pure operators |
| `Play` (extends `GameEngine`, `Selection`) | a session and a window over it | state machine, the composition for one game |
| `Screen` (extends `LobbyProperties`) | the lobby, a socket and the Home screen | state machine, the composition for the lobby |
| `MCWire`, `MCPlay`, `MCScreen` | messages, positions and accounts for TLC | model checking |
| `GameProofs`, `PromiseProofs`, `FlightProofs` | proofs about a game, each building on the one before | TLAPS |
| `EntriesProofs` | lemmas about vectors: joined, shortened, filtered | TLAPS |
| `LobbyProofs` (extends `EntriesProofs`) | proofs about a room and the server | TLAPS |
| `PlayProofs` (extends `FlightProofs`), `ScreenProofs` (extends `LobbyProofs`) | proofs about the two compositions with a window | TLAPS |
| `WireProofs` (extends `Wire`, `EntriesProofs`) | proofs about messages, frames and board files | TLAPS |

### How a tick is modelled

`GameEngine::wait(ms)` is one call that resolves every crossing of the tick,
lands jumps and processes the reports.  It is modelled as a sequence of actions:
`StartTick` advances all clocks and ends rests; one `ResolveCrossing` action per
crossing (`EnterFreeCell`, `CaptureOccupant`, `StopBeforeFriend`,
`YieldToAirborne`, one per `EntryOutcome`); one `Land` action per landing; one
`DeliverReport` per report.  While the tick is `Busy` no command and no other
tick is enabled, so the quiet states are exactly the states between two calls in
the code.  Properties of every single step (order of crossings, life of a piece)
can thus be stated, and an exception of the code in the middle of a tick would
show as a deadlock: the guards leave out the cases in which the code throws or
dereferences null.  There is one such case, `LandAtRest` with no piece on the
cell; `EveryJumpHasItsPiece` states it as an invariant and `game_ghost` reaches
it.

The vectors of motions and jumps are functions from tickets (ticket order is
vector order); a resolved motion leaves at once, while the code marks it and
drops it after the pass, skipping it meanwhile.  The rests are a set: two rests
of one piece begun on one cell at the same time would be the same entry and have
the same effect.

A report names the captured piece where the code keeps its kind and colour;
neither changes once a piece is off the board.  `elapsedMs_` stamps events and
is left out.  The MoveLog is its length, bounded by `MaxMoves`.

### The server

The server's state is in `Lobby`: the connections, `clients_`, `rooms_`, the
Play queue and the account store.  A room is a value, as an object of the code
is, and `Room` has one operator per method of `Room`, `GameSession`, `SeatTable`
and `RatingSettler`; `Lobby` has one action per message that changes something
(`Connect`, `Login`, `CreateRoom`, `JoinRoom`, `SeekAndWait` and `SeekAndMeet`
for the two outcomes of `handleSeek`, `CancelSeek`, `Command`), one for a lost
connection (`Disconnect`), and a tick: `StartTick` ages the searches, then
`RoomTicks(r)` runs `Room::tick` for each room, in any order, since room ids are
random.  Between `StartTick` and the last room no message is handled.  A client
id is never reused (`nextId++`), so `Client` bounds the connections of a
behaviour; a user who returns comes with another id.

A loop that erases from a vector is `Filtered` (of `Entries`): the entries at the
positions kept, in their order.  The loop over a room's countdowns erases all
that have run out and forfeits for each; since a forfeit ends the game and is
refused once it is over, only the first in the vector counts, and `CountDown`
says so.  Both forms are free of recursion, so that the provers can reason about
them.

Inside a room the game is an abstraction, `Match`: is it over, which kings are
left, is anything under way.  Any tick may take any of the kings left while
something is under way, also after the end.  `MatchSpec` states this as a
specification of its own, and the run `game_pawns` shows that `GameEngine`
implements it (`KeepsItsPromise`, which `EngineKeepsItsPromise` proves for every
board), with *a king is left while its capture is
unreported* and *something is under way while a motion, a jump or a report is
pending* as the mapping.  So what is checked of the server holds with the real
engine in the place of the abstraction.  The converse is not claimed: that a
tick can take a king depends on the board.

What is left out of `Lobby`: everything it sends (`Play` and `Screen` add what a
client hears), the fields `lastSecondSent` and `Vacancy::rating`, refused
requests, which change nothing there, and passwords.  Elo gains are a table: the
gain is a step function of the rating difference with 32 steps, whose places
were computed from the formula of `rating.cpp`.

### The client

*A game* (`Play`).  The server's side is the whole `GameEngine` with what
`GameSession` adds: who may command, a message for every accepted move
(`MoveMessage`), every capture as its report is delivered, and a frame at the end
of each tick and at a forfeit.  The window's side is `RemoteGame` (`Receive`) and
`GameApp` (`DrawGame`): one action per message received and one per frame with
mouse actions, which hands them to the controller of `Selection` in the order
`MouseWindow` collected them.  Between them are two queues, one per direction.
A window may come at any time (`Join`) and be given one colour, none (a
spectator) or both: both is local play, where `LoopbackGame` takes both seats of
a session in its own process.  The opponents are reduced to their accepted
commands.  A tick is as many actions as in `GameEngine`; nothing of the window
runs between them, which loses no behaviour: the window notices the server only
by messages, and messages may be late.

*The lobby* (`Screen`).  The server's side is `Lobby` with what `RoomManager`,
`Room`, `GameSession` and `RatingSettler` send to one connection, `Me`, the
refused requests included; the window's side is the Home screen, the lobby's half
of `RemoteGame` and the socket.  The other connections do whatever `Lobby` allows,
commands included, so a king may fall while a seat is held.  The window's own
commands, and what a game broadcasts, are in `Play`.  Every settlement is followed
by a roster; where both kings fall in one tick there is one, the last.
A socket that closes loses what is on its way in both directions: a request that
arrives before the close has arrived before the action `Close`, and a window that
has lost its connection shows what it showed.

*Pixels.*  `Selection` has the layout (`BoardOrigin`, `CellPixel`) the scene is
drawn by and the `BoardMapper` clicks are read by.  Pieces under way are drawn
between squares and are not among those whose square can be clicked.

*Texts* (`Wire`).  A text is a sequence of lines of words, so separators are not
spelled out and a damaged text has lost a whole word or line or gained a line.
Letters and digits are modelled where the code computes with them: squares
(`a1` is the bottom row), tokens, the cut of a command in two squares, numerals.

## 3. Runs

| Run | Instance | Question |
|---|---|---|
| `game_encounters` | 2x4, knight, king, rook, 4 commands, ticks of 500 ms | do board, motions, jumps and rests stay consistent through captures under way, jumps entered from both sides, rests outlived? |
| `game_crossings` | 3x3, two rooks and a knight, 3 commands, ticks of 800 ms, fair | are simultaneous crossings resolved in their true order; are the highlighted squares the accepted moves; does every journey, jump and rest end? |
| `game_pawns` | 4x2, pawns against king and pawn, 4 commands | are all captures scored, kings' ends noticed, pawns promoted; does the engine implement `MatchSpec`? |
| `lobby_absences` | 3 connections, 2 users, 1 room with moves | are absent players' seats held and given back to them only; are ratings exchanged when a game ends? |
| `lobby_seats` | 3 connections, 2 rooms, no moves | is a colour ever shared; do seats and members agree? |
| `lobby_settles` | 2 connections that may log in again, 1 room, fair | do queue, clients, seats and members agree; do searches and absences end? |
| `wire` | 24 messages of every kind and 2 frames, a board of 10 rows and 2 columns | is what is read what was written; is a damaged frame refused, or shows only less? |
| `play` | 1x3, a rook and a king that can take each other, 2 commands, a window for one player or for both, fair | does the window keep the server's records, never show a board ahead of its score, highlight what the engine accepts, select what is clicked, jump without side effects, and catch up when play stops? |
| `screen` | 2 connections, 2 users, 1 room without moves, fair | are the room, the colour, the countdown and the names on the screen the server's once all has arrived; does every search end on the screen? |
| `game_ghost` | 3x6, a rook and two pawns, 5 commands, ticks of 500 ms | does a jump always come down on its piece? (no) |
| `lobby_two_settlements`, `play_ownership` | as `lobby_absences` and `play` | statements of the code's comments that it does not keep; see the findings in PROJECT.json |

**Bounds of the game.**  `MaxMoves` bounds the accepted commands of a game
(the constant of the guard in `PublishAccepted`), `Tickets` the motions and
jumps that exist at once, `Deltas` the lengths of a tick, and the boards are
small.  A crossing, a jump and a rest take 1000 ms each, as in the code, so ticks
of 500 ms let a second command start half-way through the first; with 800 ms
the first and the second crossing of a journey overshoot the end of the tick by
different amounts, which the order of crossings needs.  The server's ticks are
at most 100 ms long: a tick of the model stands for several of them in which no
command comes.  With ticks longer than a crossing, which only script mode has,
`CrossingsInTrueOrder` fails: `advanceMotions` resolves one crossing of each
motion per pass, whatever the passes that follow hold.  Four commands allow a capture of a piece under way whose
capturer is taken in turn, and a jump entered and left again.  Three pieces of
two colours are the fewest with which friend, enemy and bystander meet; the
starting positions are chosen so that all four outcomes of a crossing, landings
with and without a victim, promotions and the fall of a king happen (TLC's
coverage shows every action taken).

`game_encounters` follows its behaviours up to the first jump that lands on a
piece under way (`CONSTRAINT OnlyMovingPiecesTravel`): from there on a motion
carries pieces that are not its own, which is `game_ghost`'s subject, and
`NoPieceIsLost`, `EveryJumpHasItsPiece`, `AcceptedCommandsStart` and
`LifecycleIsRespected` may fail.  On its instance that cuts off 10 of some 285000 states.  The other
invariants do not depend on it: TypeOK, BoardInSync and EveryMotionHasItsPiece
are proved without it.  `game_ghost` needs six columns and five commands, too
many to explore whole; `RookUnderWay` has TLC look at the part in which the rook
is sent first and stays in its row.

**Bounds of the server.**  Time is counted in ticks (`TickMs = 1`), the 20 s of
a held seat and the 60 s of a search are one or two of them: what matters is
whether anything comes between the drop and the expiry, and which of two
countdowns comes first.  Three connections give two players and a third that
joins, watches or is the return of one who dropped; two users make two
connections of one user unavoidable.  `Contested` names the rooms in which
anybody moves: with moves in both rooms of a run the ratings alone take more
states than TLC can visit, so moves are checked with one room and several rooms
without moves, where games still end by forfeit.  `Relogins` says whether a
connection may log in twice, which the shipped client never does and the
handler allows.

**Bounds of the client.**  `MaxDown` bounds the messages on their way when the
server acts and `MaxUp` the requests: a server that is not read from for long
waits, in the model, until the window has read.  `MaxDown = 2` leaves a frame and
an event, or the two answers of one request, on their way while the next arrive;
`MaxUp = 2` in `screen` lets a search be followed by its own cancellation, one
command in `play` be overtaken by what the board does meanwhile.  Cells of two
pixels and panels of one make all the boundaries of the layout reachable:
`Points` holds a first and a last pixel of a cell, one beyond the board and one
in a panel.  The king's fall and a forfeit both happen in `play`, with two
commands and 1000 ms ticks.  Ten rows are the fewest whose squares have names of
two lengths.  The games of `screen` end by forfeit only: moves and fairness together
are too many states, so no king falls there, and a roster or a countdown after a
king is never on its way.  The invariants of `screen` are proved with moves in any
of the rooms (`Contested` is any set of them).  A second room and second logins are
left to the runs of `Lobby` and to the proofs.

**Deadlock** is checked in all runs: the loop can always tick.

**Fairness.**  Nothing is assumed of players and connections: nobody has to
move, click, return or give up.  What is assumed is that the loops run:

* `FairSpec` of `GameProperties`: weak fairness of the steps of a tick.  The
  frame loop of `game_app.cpp` and the main loop of `server_main.cpp` tick for as
  long as the program runs, and `wait` returns.
* `FairSpec` of `Lobby`: weak fairness of `StartTick`, and of taking a room out
  of `due`, the rooms that the tick in progress has not come to yet.  Only
  `RoomTicks` takes a room out and it is enabled for every room in `due`, so this
  is the fairness of `RoomTicks`, stated in a form TLC evaluates without
  computing the tick of a room.
* `FairPlaySpec`: weak fairness of the server's tick and of the window's
  `Receive`, the `poll()` of its loop.
* `FairScreenSpec`: weak fairness of `Receive`, strong fairness of the server's
  handling of the window's requests and of its two ticks.  In the code both go on
  in one loop: `poll()` handles all that has arrived, then `tick` runs.  In the
  model each is disabled while the other is under way or `down` is full, again
  and again, so that weak fairness would allow one of them to be put off for ever
  by the interleaving alone.

### What the runs that find violations show

* `game_ghost`: a landing jump does not end the journey of the piece it takes,
  which then carries off the piece that has landed.  That one wakes up on the
  way, is accepted a jump, and is taken out of the air by the motion it rides on:
  its landing finds no piece on the cell and dereferences null, which ends the
  server.  On the same instance `AcceptedCommandsStart` fails too: a carried piece
  is accepted a move, published to log and clients, that `startMotion` refuses.
* `lobby_two_settlements`: pieces under way still take a king after a forfeit,
  and the game is rated a second time.  TLC's behaviour lets one command be under
  way through the whole of a scaled-down grace; in the program it is one that the
  player who stayed starts in the last seconds of it.
* `play_ownership`: a command names a square and the colour of what the window
  showed there.  The server compares the colour with the seat, but not with the
  piece: if the piece was taken while the command was on its way, the command
  moves the piece of the opponent that took it.

Other statements of comments that the code does not keep, each noted at its
hazard: a landing jump may take a friend that took the arriver first
(`real_time_arbiter.cpp:246`); a client that gets into a second room is forgotten
in the first, whose seat is kept for good (`room_manager.hpp:39-40`); the rating a
connection logged in with overwrites what its account has won since
(`game_session.hpp:69-70`); a player who returns to a held seat is shown no names
until the ratings change, because the roster goes out before the player is a
member again (`wire_message.hpp:35-36`); the seconds of a held seat are announced
after a king has fallen too, though a game that is over is not forfeited, and the
last of them stays on the screen after a forfeit (`remote_game.hpp:87`); any error
about a room takes a search off the screen that the server goes on with
(`remote_game.hpp:78`); a search asked for before the connection is open is dropped
and shown for ever (`websocket_client.cpp:63`); a piece in the air is highlighted
moves that the engine refuses (`remote_game.cpp:97`).  The properties name these
exceptions where they leave them out.

## 4. Proofs

All theorems hold for every value of the constants that the named assumptions of
the modules allow: every board size, set of pieces, starting position, set of
tick lengths and number of commands of a game; any number of connections, rooms
and accounts, any ratings, any grace and search time of the server; any sequences
of messages and snapshots over the wire.  The assumptions only give the constants
their types, with two exceptions: `PiecesAreFinite`, which counting the pieces
lost needs, and the spelling of words (see *The wire*).

Each proof has one lemma per action, one for `Next`, and a theorem that combines
them.  Most properties are not inductive; what follows is why, and what was
added.

### The game

* `TypeCorrect == Spec => []TypeOK` (`GameProofs`).  `TypeOK` says among others
  that a motion's clock never runs below zero and that its step is inside its
  path.  Completing a step subtracts the step's duration, which is safe only for
  a motion that is entering its next cell: `TypeInv` adds `PassIsPending`, every
  motion of the pass in progress is entering its next cell.  The path is one of
  cells of the board by `TravelPathOnBoard` (`GameProofs`), whose arithmetic is
  that a point between two coordinates on the board is on the board.
* `HighlightsAreAccepted == Spec => []HighlightsAreTheAcceptedMoves`
  (`GameProofs`).  The highlighting and the acceptance of a move are two functions
  of the code with different tests in different orders; they agree in every
  state of the right type.
* `BoardStaysInSync == Spec => []BoardInSync` (`GameProofs`), with
  `SyncInv == TypeInv /\ BoardInSync`.  Lemmas show what each method of the board
  does to the agreement of grid and pieces; the invariant adds the lifted pieces: lifting takes a piece that is on the board, so not one that is
  already lifted or captured, and landing puts it back on a cell that the same
  step has emptied.
* `MotionsHaveTheirPieces == Spec => []EveryMotionHasItsPiece` (`GameProofs`),
  with `MotionInv == TypeInv /\ EveryMotionHasItsPiece`.  Its two conjuncts hold
  each other up: a piece that walks off leaves an empty cell, on which no other
  motion stands because no two share a cell; and a motion walks onto a free cell,
  on which no other motion stands because a motion's cell is occupied.  It holds
  also after a landing on a piece under way, since the lander takes its cell.
* `FallenKingIsNoticed == Spec => []KingTakenEndsTheGame` and
  `EngineKeepsItsPromise == Spec => KeepsItsPromise` (`PromiseProofs`), with
  `ReportInv`: `SyncInv`, the reports pending name captured pieces, each once,
  promotion makes no king and unmakes none, and a captured king is in a pending
  report unless the game is over.  A capture hands its victim over to a report,
  the delivery of the report to `over`.  It needs `SyncInv` because a step that
  sets a piece to rest must not bring a captured one back.  Under the refinement
  a command is a `Command`, a forfeit a `Forfeit`, and every step of a tick a
  `Wait`: `DeliverReport` takes the king it reports, the others take nobody.
* `EveryCaptureIsScored == Spec => []ScoresMatchCaptures` (`PromiseProofs`), with
  `ScoreInv`: `ReportInv`, and a score is the worth of the opponent's pieces that
  are captured and no longer reported (`Settled`).  A capture adds its victim to
  both sides of that difference, the delivery of a report takes it out of one.
  Worth is counted by kinds (nine times the queens, and so on), since the sum
  over a set is a fold, whose value the provers cannot compute; a piece is
  counted as what it was when it fell, because only pieces on the board are
  promoted.
* `CrossingsComeInOrder == TicksAreShort /\ Spec => [][CrossingsInTrueOrder]_vars`
  (`FlightProofs`).  `TicksAreShort` says that a tick is shorter than the
  crossing of a square, 1000 ms; the server clamps its ticks to 100 ms
  (`server_main.cpp`).  Then no motion crosses twice in a tick (`KeepsPace`), so
  that a pass holds all the crossings there are (`PaceInv`), and taking the
  earliest of the pass is taking the earliest of all.  Without the condition the
  property is false, see *Bounds of the game*.
* `PiecesAreNotLost`, `JumpsHaveTheirPieces`, `AnnouncedCommandsStart`,
  `PiecesLiveOneLife` and `FarPawnsArePromoted` (`FlightProofs`) hold up to the
  first landing on a piece under way: they are theorems of
  `Spec /\ UpToAGhost`, where `UpToAGhost == [][OnlyMovingPiecesTravel]_vars` is
  the CONSTRAINT of the runs that check the same properties.  The code does break
  the condition, and `game_ghost` shows a null pointer dereferenced afterwards:
  it is the exact border of what is true, not a convenience of the proofs.
  `FlightInv` adds to the invariants above that an airborne piece has a jump
  below it, that there is one jump on a cell at most, and an argument about time,
  `ArriversWait`: whoever has entered a jumper's cell still travels, or has not
  rested for longer than the jump lasts already, or the jump is due.  A rest takes
  as long as a jump, so the arriver wakes up no sooner than the jumper lands, and
  nobody can start a second jump, or a journey, from the cell in between.  That is why
  `yieldToAirborne` finds the jump it looks for.
* `FarPawnsArePromoted` assumes besides that no pawn starts on its far row
  (`NoPawnStartsOnItsFarRow`; the program never promotes one that does, and the
  position of `config/start_position.txt` has none).  `PawnInv` says that a pawn on its far row
  is in a report of the tick and neither travels nor jumps, so it is promoted
  where it was reported; it comes there only at the end of a journey, because
  there is no square beyond (`EndsAtEdges`).

### The server

* The first part of `LobbyProofs` shows what each method of a room does to `RoomInv`: its type,
  seats exclusive, members seated, each vacancy the seat of a client that is no
  member, under its name and colour, and no colour held open twice.  None of
  these is inductive without the others: the seat of a vacancy is given to
  whoever returns under its name, which keeps seats exclusive only because the
  absent client is seated on that colour and is removed.
* `LobbyInv` (`LobbyProofs`) puts the rooms together with the connections: the
  holders of vacancies are gone for good, whoever is logged in is connected and a
  member of the room it is said to be in, whoever searches is logged in and
  searches once.  It gives `LobbyTypeCorrect`, `OneClientOnAColor`,
  `AbsentSeatsStayHeld`, `MembersStaySeated` and `SearchersStayPresent`, one for
  each invariant of the runs of `Lobby`.
* `HeldSeatsReturn == Spec => HeldSeatsReturnToTheirPlayers`: only a countdown
  that runs out, and then the game is over, or the return of the same user
  takes a vacancy away.
* `RatingsOnlyChangeHands == Spec => RatingsAreExchanged`: for all ratings, what
  one player wins the other loses, and the end of a game moves points as long as
  the two are less than 720 apart.  Beyond, the gain of the stronger rounds to
  nothing, which the property says.  A tick in which both kings fall settles
  twice and may move nothing in sum; the property leaves it out.
* The loops over vectors are filters and searches for the first entry that
  fits.  In the place of induction the proofs use that a non-empty set of numbers
  has a least element (`Least` in `EntriesProofs`), which the library states for
  sets.

### The client

Both compositions are refinements of what they are composed of:
`SessionPlaysTheGame == PlaySpec => Spec` (`PlayProofs`) and
`LobbyServesTheScreen == ScreenSpec => Spec` (`ScreenProofs`), `Spec` being that of
the game and of the server.  What the windows see and how late they see it changes
nothing in either, and all theorems above hold there.

* `RecordsAreKept == PlaySpec => []NoEventIsForgotten` and
  `ScoresKeepUp == PlaySpec => []ScoresKeepUpWithTheBoard` (`PlayProofs`), with
  `RecordInv`: `ScoreInv`, and three sums over the messages on their way.  What
  the panel shows, what is on its way to it and what it missed before it came make
  up the session's record; and every frame on its way comes behind the reports of
  all the pieces that are missing in it.  The sums are recursive functions over
  the queue; the proofs use only what one message more at its end, or one less at
  its head, does to them.
* `JumpsLeaveTheSelection == PlaySpec => JumpsDisturbNothing`, with `InputInv`: the
  dispatch of a frame acts on one of its actions only, whose kind is that of the
  last (`OneActionCounts`), and a double-click leaves the selection alone and sends
  a jump or nothing (`DrawFacts`).
* `DrawnSquaresAreClicked == PlaySpec => []SquaresDrawnAreClicked`, with
  `ClickInv`: every frame on its way is of a board on which grid and pieces agree
  (`FramesAgree`), and the map from pixels to cells inverts the layout for cells of
  any size.
* `HighlightsAreMirrored == PlaySpec /\ UpToAGhost => []HighlightsMirrorTheEngine`.
  The window knows pieces by the motions and rests of a frame, the engine by their
  state.  `BusyInv` (`FlightProofs`) ties the two together: a moving piece has a
  motion, a resting one a rest, whoever travels is not idle (`TravellersAreBusy`),
  and whoever stands where a rest began, be it the rest of a piece captured since,
  is moving or wakes up no sooner than that rest ends (`RestsOutlived`).  These are
  lost when a piece lands on one under way: the motion goes on with the lander,
  which the engine may know as idle while the window shows it as busy.
  The condition `UpToAGhost` is that of the game's proofs; the position of the run
  `play` is too small for such a landing, so there it needs no constraint.
* `RoomShownIsTrue`, `PlayersMayCommand`, `CountdownsAreTrue` and
  `RosterShownIsTrue` (`ScreenProofs`) say of `RoomIsShown`, `PlayersMayPlay`,
  `NoFalseCountdown` and `RosterIsTrue` that they hold always.  All four speak of
  the moments in which nothing is on its way; `ScreenInv` speaks of every moment,
  of what the window will show when it has read all it has been sent (`Told`): of
  each kind of message the last one decides.  So each step of the server only has
  to keep right what was right before (`ServerStep`), and reading a message changes
  nothing (`ReadingIsHeard`).  Three more facts are needed: the login is the first
  request and goes out once (`LoginIsFirst`), as a second would take the window
  home without telling it; a room in which somebody is awaited stays one until
  that player is back, which is told, or the game is over; and a drop or a tick
  changes neither the names in a roster nor who sits where, nor the ratings unless it
  settles.  The last two are facts about `Room` (`DropKeepsRoom`, `RoomTickResult`,
  `UnsettledTick`).  Another connection's command starts a move and changes nothing
  the screens are told (`CommandIsSilent`).  The proofs cover any number of
  rooms a window is in at a time, which the run cannot: it creates one.

### The wire

* `TextsAreCarried == Spec => []TextInv` (`WireProofs`): a text on its way is what
  was written, altered at most once and in the way `damage` says.  Of a frame it
  says what is left: it is *spoilt*, and `decodeState` makes nothing of it, if a
  line lacks a field; *partial*, with no lines but such as were sent or have no
  keyword, if it lacks a line or a keyword; *intact* if it is the frame, or has a
  line of no keyword more.
* `FramesCorrectTheReplica == Spec => []FramesCorrect`,
  `BadFramesAreRefused == Spec => BadFramesChangeNothing` and
  `DamageHides == Spec => DamageOnlyHides` follow from what `decodeState` makes of
  the three kinds.  The frame is read line by line: each line that `encodeState`
  writes is read as what it was written from (`PieceIsRead`, `MotionIsRead`,
  `CooldownIsRead`, ...), a spoilt line makes the whole a refusal
  (`BadLineSpoils`), a partial frame shows less (`FramesHide`), and a whole one
  gives back all of the pieces, motions and rests (`WholeFramesAreRead`).  That the
  pieces are all there needs that the rows and columns pass every cell once
  (`CellsInOrderFacts`), which is division with remainder, and what a filter keeps
  of a sequence and in which order (`BlockFacts`, `FilteredInOrder`).
* `MessagesAreRead == Spec => []MessagesSurvive`: one lemma for each alternative
  (`CommandsSurvive`, `RostersSurvive`, ...).  A command is cut in the middle:
  `HalfFacts` says that this is where the second square begins if and only if the
  two names are of equal length, and `CommandIsCutWrong` that otherwise one of the
  halves is no square.  Login and roster are lists of lines of which the last with a
  keyword counts; that there is one only rests on the keywords being different.
* `BoardsAreRead == (Width > 1 /\ Height > 1) => (Spec => []BoardsSurvive)` (stated as
  ASSUME/PROVE).  The printed grid is found between its markers (`RowsAreFound`,
  `NoRowsAreFound` if the first is lost, `RowsAreFoundOpen` if the second is),
  rebuilt with the ids 1, 2, ... in the order of its rows (`GridIsBuilt`), and
  refused as uneven when a token is lost (`LostTokenIsRefused`).  The hypothesis is
  the border of what is true: with one column, the row that has lost its token is
  blank and skipped like a blank line, and the board comes out a row lower; with
  one row there is no other to be uneven with.  The boards of the program are of
  8 rows and columns.
* *What is assumed.*  The provers know strings neither by their characters nor as
  the value of `ToString`.  `Spelling` states what is needed of single words, as
  named assumptions: numerals are read back as their number, a token has two
  letters, the name of a square is a letter and a numeral, a command is the token
  and the two names in a row, cut beside the middle it has a letter or a digit in
  the wrong place, and none of these words is a keyword or a marker.  TLC evaluates
  them all at the start of the run `wire`, for ten rows, two columns and more than
  a thousand numbers.  Boards are at most 26 columns wide (`SizeType`), the letters
  there are; the code goes on with the characters behind `z`.

### What is only model-checked

* Liveness (`EveryPieceSettles`, `SearchesEnd`, `AbsencesEnd`, `WindowCatchesUp`,
  `SearchesEndOnScreen`): out of TLAPS's reach.
* How a word is spelt (`Spelling`): TLC evaluates the assumptions for the squares,
  tokens and numbers of the run `wire`.
* `BoardsSurvive` on boards of a single row or column, where it speaks of what a
  damaged file hides: it is false there, see *The wire*.

Every other property of a passing run has a theorem.

## 5. Plan

Done in this order: the game (modules `Geometry` to `GameProperties`), its first
proofs, the server, the codecs, the client, the proofs of the game's, of the
server's, of the client's and of the wire's invariants.  Left, in order of
importance:

1. **Script mode**: parser and runner of `texttests`.
2. **Sliding pieces**: the animator and the pixels between two squares.

## 6. Not modelled

* Sprites, animation clocks, fonts and the wording of status lines: they read the
  game and change nothing in it.  Of the view only the layout and the scene are
  modelled.
* Script mode (`texttests`, `script_mode.cpp`), which runs one game without a
  client; arguments and files.
* The logger; SQL, registration and password hashing (`Screen` lets any login
  succeed or be refused).
* Vendored libraries.  The WebSocket library is the environment of `Lobby`,
  `Screen` and `Play`: it delivers each connection's open, messages and close in
  order, at any time the loop polls, and its threads share nothing with the
  program but a locked queue.  The event bus calls its subscribers synchronously
  in order and is part of the actions that publish.
* Two exceptions that end the server, on messages no window sends: a rank no `int`
  holds (`std::stoi` in `move_notation.cpp:62`) is unreadable in `SquareFromName` like
  any other rank too high, and a jump off the board (`Board::getPieceAt`, called by
  `game_engine.cpp:94`) is refused in `AcceptsJump`.  Windows send squares of the
  board, and no property depends on either.
* `elapsedMs_`, the time stamps of events and the texts of the move log: nothing
  depends on them.
