-------------------------------- MODULE Play --------------------------------
(***************************************************************************)
(* One game on the server and one window that shows it: GameSession        *)
(* (server/app) announces the moves, the captures and a frame after every  *)
(* tick; RemoteGame (client/net) and GameApp (client/app) receive them,    *)
(* keep the records, and send the commands of the mouse.                   *)
(*                                                                         *)
(* The server and the window are two processes, one thread each, and the   *)
(* messages of either direction arrive in order, at any time.  The window  *)
(* may come at any time; the other players are there from the start and    *)
(* give any command for pieces of another colour than the window's.        *)
(* Nothing of the window runs between the steps of one tick: all it could  *)
(* notice is messages, and those may as well arrive later.                 *)
(***************************************************************************)
EXTENDS GameEngine, Selection

CONSTANTS
    Roles,      \* the colours a window may be given: one for a player, none
                \* for a spectator, both for local play
    Points,     \* the pixels the mouse may be on
    MaxDown,    \* bounds: the messages on their way when the server
    MaxUp       \* acts, and the commands on theirs

ASSUME RolesType == Roles \subseteq SUBSET Color
ASSUME PointsType == Points \subseteq Int \X Int
ASSUME BoundsType == MaxDown \in Nat /\ MaxUp \in Nat

VARIABLES
    ticking,    \* the server is in GameSession::tick
    seat,       \* the window's colours, NoSeat before it comes
    downlink,   \* messages from the server to the window
    uplink,     \* commands from the window to the server
    shown,      \* RemoteGame: the frame last received
    own,        \* RemoteGame: the colours assigned to it
    panel,      \* GameApp: its ScoreBoard, and the length of its MoveLog
    missed,     \* history: the server's records when the window came
    selected,   \* Controller::selected_
    pressed     \* where the mouse was last pressed: a double-click is there

engineVars == vars
linkVars == <<seat, downlink, uplink>>
windowVars == <<shown, own, panel, selected, pressed>>
playVars == <<engineVars, linkVars, windowVars, ticking, missed>>

NoSeat == {"none"}

\* getSnapshot, as encodeState sends it.
SnapshotOf(b, ended, travelling, rests) ==
    [board |-> b,
     over |-> ended,
     motions |-> {[from |-> CurrentCell(travelling[t]), to |-> NextCell(travelling[t])] :
                     t \in DOMAIN travelling},
     cooldowns |-> {r.cell : r \in rests}]

Snapshot == SnapshotOf(board, over, active, resting)

Records == [score |-> score, moves |-> logged]

NoRecords == [score |-> [color \in Color |-> 0], moves |-> 0]

PlayInit ==
    /\ Init
    /\ ticking = FALSE
    /\ seat = NoSeat
    /\ downlink = << >>
    /\ uplink = << >>
    /\ shown = Snapshot
    /\ own = {}
    /\ panel = NoRecords
    /\ missed = NoRecords
    /\ selected = {}
    /\ pressed = {}

-----------------------------------------------------------------------------
(***************************************************************************)
(* The server.                                                             *)
(***************************************************************************)
Tell(messages) ==
    downlink' = IF seat = NoSeat THEN downlink ELSE downlink \o messages

MayAct == ~ticking /\ ~Busy /\ Len(downlink) < MaxDown

\* addClient: the role goes to the one who comes.  A LoopbackGame takes both
\* seats in its constructor, and hands all messages of either to its window.
Join(role) ==
    /\ MayAct
    /\ seat = NoSeat
    /\ seat' = role
    /\ downlink' = << [tag |-> "ROLE", colors |-> role] >>
    /\ missed' = Records
    /\ UNCHANGED <<engineVars, ticking, uplink, windowVars>>

MoveMessage == [tag |-> "MOVE"]

Perform(from, to) ==
    /\ IF from = to THEN RequestJump(from) ELSE RequestMove(from, to)
    /\ Tell(<<MoveMessage>>)

\* "You may only command your own colour": the colour the command names.  A
\* LoopbackGame sends it from the seat of that colour.
MayApply(command) == command.player \in seat

Accepts(command) ==
    /\ MayApply(command)
    /\ IF command.from = command.to THEN AcceptsJump(command.from)
       ELSE AcceptsMove(command.from, command.to)

ApplyCommand ==
    LET command == Head(uplink)
    IN  /\ MayAct
        /\ uplink # << >>
        /\ IF Accepts(command) THEN Perform(command.from, command.to)
           ELSE UNCHANGED <<engineVars, downlink>>
        /\ uplink' = Tail(uplink)
        /\ UNCHANGED <<ticking, seat, windowVars, missed>>

OthersCommand(from, to) ==
    /\ MayAct
    /\ Occupied(board, from) /\ ColorOf(board.at[from]) \notin seat
    /\ Perform(from, to)
    /\ UNCHANGED <<ticking, seat, uplink, windowVars, missed>>

FrameMessage(frame) == [tag |-> "STATE", frame |-> frame]

\* forfeit: the final frame is pushed at once.
Forfeit ==
    /\ MayAct
    /\ ~over
    /\ EndGame
    /\ Tell(<<FrameMessage(SnapshotOf(board, TRUE, active, resting))>>)
    /\ UNCHANGED <<ticking, seat, uplink, windowVars, missed>>

BeginTick ==
    /\ MayAct
    /\ \E delta \in Deltas : Wait(delta)
    /\ ticking' = TRUE
    /\ UNCHANGED <<linkVars, windowVars, missed>>

CaptureMessage(color, kind) == [tag |-> "CAPTURE", color |-> color, kind |-> kind]

\* The capture is announced as the engine's report of it is delivered.
CaptureMessages(report) ==
    IF report.captured = NoPiece THEN << >>
    ELSE << CaptureMessage(ColorOf(report.captured), board.kind[report.captured]) >>

WorkTick ==
    /\ \/ /\ \E t \in Tickets : Resolve(t) \/ LandJump(t)
          /\ UNCHANGED downlink
       \/ /\ DeliverReport
          /\ Tell(CaptureMessages(Head(reports)))
    /\ UNCHANGED <<ticking, seat, uplink, windowVars, missed>>

\* Mutant: the frame is broadcast before the reports are delivered.
TickIsResolved == ticking /\ Crossings = {} /\ Landings = {}

TickIsDone == ticking /\ ~Busy

\* Mutant: once the game is over there is nothing left to broadcast.
BroadcastUntilOver == IF over THEN << >> ELSE <<FrameMessage(Snapshot)>>

BroadcastOfTick == <<FrameMessage(Snapshot)>>

EndTick ==
    /\ TickIsDone
    /\ Tell(BroadcastOfTick)
    /\ ticking' = FALSE
    /\ UNCHANGED <<engineVars, seat, uplink, windowVars, missed>>

ServerTick == BeginTick \/ WorkTick \/ EndTick

-----------------------------------------------------------------------------
(***************************************************************************)
(* The window.  GameApp's loop alternates poll(), the handlers of what has *)
(* arrived, with the mouse actions of a frame; poll() may find nothing.    *)
(***************************************************************************)
\* Mutant: nothing is recorded once the game is over.
RecordedUntilOver(message) ==
    CASE message.tag = "CAPTURE" /\ ~shown.over ->
            [panel EXCEPT !.score[OpponentOf(message.color)] = @ + CostOf(message.kind)]
      [] message.tag = "MOVE" /\ ~shown.over -> [panel EXCEPT !.moves = @ + 1]
      [] OTHER -> panel

FrameAfter(message) == IF message.tag = "STATE" THEN message.frame ELSE shown

OwnAfter(message) ==
    IF message.tag = "ROLE" THEN own \cup message.colors ELSE own

RecordedAfter(message) ==
    CASE message.tag = "CAPTURE" ->
            [panel EXCEPT !.score[OpponentOf(message.color)] = @ + CostOf(message.kind)]
      [] message.tag = "MOVE" -> [panel EXCEPT !.moves = @ + 1]
      [] OTHER -> panel

Receive ==
    LET message == Head(downlink)
    IN  /\ ~ticking
        /\ downlink # << >>
        /\ downlink' = Tail(downlink)
        /\ shown' = FrameAfter(message)
        /\ own' = OwnAfter(message)
        /\ panel' = RecordedAfter(message)
        /\ UNCHANGED <<engineVars, ticking, seat, uplink, selected, pressed, missed>>

Click(p) == [double |-> FALSE, at |-> p]
DoubleClick(p) == [double |-> TRUE, at |-> p]

\* What the window has collected while it drew the frame (MouseWindow::onMouse):
\* a double-click follows a click, that may have fallen into an earlier frame.
MouseActions ==
    {<<Click(p)>> : p \in Points}
    \cup {<<Click(p), DoubleClick(p)>> : p \in Points}
    \cup {<<DoubleClick(p)>> : p \in pressed}

DrawGame(actions) ==
    LET done == Dispatched(shown, own, selected, actions)
        last == actions[Len(actions)]
    IN  /\ ~ticking
        /\ seat # NoSeat
        /\ Len(uplink \o done.commands) <= MaxUp
        /\ selected' = done.selected
        /\ uplink' = uplink \o done.commands
        /\ pressed' = IF last.double THEN {} ELSE {last.at}
        /\ UNCHANGED <<engineVars, ticking, seat, downlink, shown, own, panel, missed>>

PlayNext ==
    \/ \E role \in Roles : Join(role)
    \/ ApplyCommand
    \/ \E from, to \in Cells : OthersCommand(from, to)
    \/ Forfeit
    \/ ServerTick
    \/ Receive
    \/ \E actions \in MouseActions : DrawGame(actions)

PlaySpec == PlayInit /\ [][PlayNext]_playVars

\* The server's loop ticks, and the window's loop polls, as long as they run.
FairPlaySpec == PlaySpec /\ WF_playVars(ServerTick) /\ WF_playVars(Receive)

-----------------------------------------------------------------------------
(***************************************************************************)
(* "So the two cannot disagree" (GameApp, of the layout): a click on a     *)
(* piece that is drawn on its square selects that piece, and a click on a  *)
(* highlighted square is one command to go there: it is never taken for a  *)
(* reselection, a click beside the board or on a piece that may not be     *)
(* commanded.                                                              *)
(***************************************************************************)
SquaresDrawnAreClicked ==
    /\ \A view \in PiecesDrawn(shown) :
          HandleClick(shown, own, {}, view.at).selected = {shown.board.cell[view.piece]}
    /\ \A s \in selected, c \in Cells :
          CellPixel(c) \in HighlightsDrawn(shown, own, selected) =>
              LET done == HandleClick(shown, own, selected, CellPixel(c))
              IN  /\ done.selected = {}
                  /\ Len(done.commands) = 1
                  /\ Head(done.commands).from = s
                  /\ Head(done.commands).to = c

\* How many of these messages are on their way.
OnTheWay(messages) == Cardinality({i \in DOMAIN downlink : downlink[i] \in messages})

Captures(color, kinds) == {CaptureMessage(color, kind) : kind \in kinds}

(***************************************************************************)
(* The window's own records are the server's, since the window came: what  *)
(* it counts, with what is still on its way, is what the server has        *)
(* counted, captures on the way, captures of a landing and captures after  *)
(* a forfeit included.                                                     *)
(***************************************************************************)
NoEventIsForgotten ==
    seat # NoSeat =>
        /\ panel.moves + OnTheWay({MoveMessage}) + missed.moves = logged
        /\ \A color \in Color :
              LET Worth(n, kinds) == n * OnTheWay(Captures(OpponentOf(color), kinds))
              IN  panel.score[color] + missed.score[color]
                  + Worth(9, {"Queen"}) + Worth(5, {"Rook"})
                  + Worth(3, {"Bishop", "Knight"}) + Worth(1, {"Pawn"})
                      = score[color]

\* The pieces a frame shows as taken.
Fallen(frame, color, kinds) ==
    {p \in Piece : /\ frame.board.state[p] = "Captured"
                   /\ ColorOf(p) = color
                   /\ frame.board.kind[p] \in kinds}

(***************************************************************************)
(* The board never runs ahead of the score: every piece the frame shows as *)
(* taken has been counted, since a capture is announced before the frame   *)
(* that shows it.                                                          *)
(***************************************************************************)
ScoresKeepUpWithTheBoard ==
    seat # NoSeat =>
        \A color \in Color :
            LET Worth(n, kinds) ==
                    n * Cardinality(Fallen(shown, OpponentOf(color), kinds))
            IN  panel.score[color] + missed.score[color] >=
                    Worth(9, {"Queen"}) + Worth(5, {"Rook"})
                    + Worth(3, {"Bishop", "Knight"}) + Worth(1, {"Pawn"})

(***************************************************************************)
(* "A display aid, mirroring the engine's gate" (RemoteGame): while the    *)
(* window shows the server's present state, what it highlights for a piece *)
(* of its own is what the engine would accept; except for a piece in the   *)
(* air, which it takes to be free.                                         *)
(***************************************************************************)
HighlightsMirrorTheEngine ==
    shown = Snapshot =>
        \A c \in Cells :
            MayCommand(shown, own, c) /\ board.state[board.at[c]] # "Airborne" =>
                HighlightsFor(shown, own, c) = LegalDestinationsFor(c)

(***************************************************************************)
(* "The answer comes back as the next state" (RemoteGame): when play stops *)
(* the window ends up showing the server's state, whatever was clicked,    *)
(* forfeited, or travelling when the game ended.                           *)
(***************************************************************************)
WindowCatchesUp == <>[](seat # NoSeat => shown = Snapshot)

(***************************************************************************)
(* "You may only command your own colour" (GameSession::applyCommand): a   *)
(* command of the window that is carried out moves a piece of its colour.  *)
(***************************************************************************)
CommandsMoveOwnPieces ==
    [][uplink' # uplink /\ logged' # logged =>
         ColorOf(board.at[Head(uplink).from]) \in seat]_playVars

(***************************************************************************)
(* The opening click of a double-click is dropped, lest it "leave a stray  *)
(* selection on the piece that just jumped" (GameApp::dispatchBoardInput): *)
(* a frame that ends in a double-click leaves the selection as it was and  *)
(* sends one jump at most.  What an earlier frame made of the opening      *)
(* click stands.                                                           *)
(***************************************************************************)
JumpsDisturbNothing ==
    [][pressed' = {} /\ (selected' # selected \/ Len(uplink') > Len(uplink)) =>
         /\ selected' = selected
         /\ Len(uplink') = Len(uplink) + 1
         /\ LET jump == uplink'[Len(uplink')] IN jump.from = jump.to]_playVars

=============================================================================
