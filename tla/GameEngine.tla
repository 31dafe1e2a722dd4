----------------------------- MODULE GameEngine -----------------------------
(***************************************************************************)
(* GameEngine (shared/logic/engine): the command boundary of one game.  It *)
(* checks a command against the rules and the piece's state, hands it to   *)
(* the arbiter, and turns the arbiter's reports into captures announced,   *)
(* promotions, and the end of the game.  The ScoreBoard of                 *)
(* shared/logic/game_record, which listens to the announced captures on    *)
(* the engine's bus, is the variable score.                                *)
(*                                                                         *)
(* wait(ms) is a StartTick followed by every ResolveCrossing, Land and     *)
(* DeliverReport the tick gives rise to.  Commands come between ticks: the *)
(* program runs on one thread, and its loop alternates the two.            *)
(***************************************************************************)
EXTENDS Arbiter

CONSTANTS
    StartCell,  \* where each piece stands at first
    StartKind,  \* and what it is
    Deltas,     \* the lengths of a tick, in ms
    MaxMoves    \* bound on the commands accepted in one game

ASSUME PiecesAreFinite == IsFiniteSet(Piece)
ASSUME StartCellType == StartCell \in [Piece -> Cells]
ASSUME StartCellsDistinct ==
    \A p, q \in Piece : StartCell[p] = StartCell[q] => p = q
ASSUME StartKindType == StartKind \in [Piece -> Kind]
ASSUME DeltasAreNaturals == Deltas \subseteq Nat
ASSUME MaxMovesIsNatural == MaxMoves \in Nat

VARIABLES
    over,       \* GameState::over_
    score,      \* ScoreBoard: what each side's captures were worth
    logged      \* how many MoveEvents the MoveLog has recorded

vars == <<arbiterVars, over, score, logged>>

CostOf(kind) ==
    CASE kind = "King"   -> 0
      [] kind = "Queen"  -> 9
      [] kind = "Rook"   -> 5
      [] kind = "Bishop" -> 3
      [] kind = "Knight" -> 3
      [] kind = "Pawn"   -> 1

StartBoard ==
    [at |-> [c \in Cells |->
                IF \E p \in Piece : StartCell[p] = c
                THEN CHOOSE p \in Piece : StartCell[p] = c
                ELSE NoPiece],
     cell |-> StartCell,
     kind |-> StartKind,
     state |-> [p \in Piece |-> "Idle"]]

Init ==
    /\ board = StartBoard
    /\ active = << >>
    /\ airborne = << >>
    /\ resting = {}
    /\ pass = {}
    /\ reports = << >>
    /\ over = FALSE
    /\ score = [color \in Color |-> 0]
    /\ logged = 0

-----------------------------------------------------------------------------
(***************************************************************************)
(* Commands.  A refused command changes nothing and is not a step.         *)
(***************************************************************************)
\* Mutant: the end of the game is not looked at.
AcceptsMoveAfterEnd(source, destination) ==
    /\ ValidMove(board, source, destination)
    /\ Available(board.at[source])

AcceptsMove(source, destination) ==
    /\ ~over
    /\ ValidMove(board, source, destination)
    /\ Available(board.at[source])

\* A square off the board makes Board::getPieceAt throw.  Here it is refused: the
\* windows send squares of the board, and no statement here is about others.
AcceptsJump(c) ==
    /\ ~over
    /\ c \in Cells
    /\ Occupied(board, c)
    /\ Available(board.at[c])

\* publishAccepted announces the command before the arbiter is asked to start
\* it, and the MoveLog records every announcement.
PublishAccepted ==
    /\ logged < MaxMoves
    /\ logged' = logged + 1

RequestMove(source, destination) ==
    /\ ~Busy
    /\ AcceptsMove(source, destination)
    /\ StartMotion(source, destination)
    /\ PublishAccepted
    /\ UNCHANGED <<over, score>>

RequestJump(c) ==
    /\ ~Busy
    /\ AcceptsJump(c)
    /\ StartJump(c)
    /\ PublishAccepted
    /\ UNCHANGED <<over, score>>

\* A forfeit.  Travel, jumps and rests go on: wait() does not look at over_.
EndGame ==
    /\ ~Busy
    /\ over' = TRUE
    /\ UNCHANGED <<arbiterVars, score, logged>>

\* Mutant: the piece's state is not looked at.
LegalDestinationsAnyState(c) ==
    IF over \/ ~Occupied(board, c) THEN {} ELSE LegalDestinations(board, board.at[c])

\* The squares a display may offer for the piece on c.
LegalDestinationsFor(c) ==
    IF over \/ ~Occupied(board, c) \/ ~Available(board.at[c])
    THEN {}
    ELSE LegalDestinations(board, board.at[c])

-----------------------------------------------------------------------------
(***************************************************************************)
(* wait(ms).                                                               *)
(***************************************************************************)
Wait(delta) == StartTick(delta) /\ UNCHANGED <<over, score, logged>>

Resolve(t) == ResolveCrossing(t) /\ UNCHANGED <<over, score, logged>>

LandJump(j) == Land(j) /\ UNCHANGED <<over, score, logged>>

\* Mutant: a pawn whose arrival is a capture is not promoted.
PromotesUnlessCapture(report) == report.landed /\ report.captured = NoPiece

\* A pawn that has just arrived may be promoted; one that has jumped may not.
Promotes(report) == report.landed

\* A capture is scored, a king taken ends the game, a pawn on its far row --
\* whatever piece stands on the reported cell now -- is promoted.
DeliverReport ==
    LET report == Head(reports)
        taken == report.captured
        lander == board.at[report.destination]
    IN  /\ Crossings = {} /\ Landings = {}
        /\ reports # << >>
        /\ reports' = Tail(reports)
        /\ score' = IF taken = NoPiece THEN score
                    ELSE [score EXCEPT ![OpponentOf(ColorOf(taken))] =
                            @ + CostOf(board.kind[taken])]
        /\ over' = (over \/ (taken # NoPiece /\ board.kind[taken] = "King"))
        /\ board' = IF Promotes(report) /\ lander # NoPiece
                    THEN [board EXCEPT !.kind[lander] = PromotedKind(board, lander)]
                    ELSE board
        /\ UNCHANGED <<active, airborne, resting, pass, logged>>

TickStep ==
    \/ \E delta \in Deltas : Wait(delta)
    \/ \E t \in Tickets : Resolve(t)
    \/ \E j \in Tickets : LandJump(j)
    \/ DeliverReport

Next ==
    \/ \E source, destination \in Cells : RequestMove(source, destination)
    \/ \E c \in Cells : RequestJump(c)
    \/ EndGame
    \/ TickStep

Spec == Init /\ [][Next]_vars

\* The main loop ticks the game for as long as the program runs.
FairSpec == Spec /\ WF_vars(TickStep)

-----------------------------------------------------------------------------
TypeOK ==
    /\ ArbiterTypeOK
    /\ over \in BOOLEAN
    /\ score \in [Color -> Nat]
    /\ logged \in 0 .. MaxMoves

=============================================================================
