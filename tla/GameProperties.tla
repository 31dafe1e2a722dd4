--------------------------- MODULE GameProperties ---------------------------
(***************************************************************************)
(* What one game promises: the properties of GameEngine that the TLC runs  *)
(* check and GameProofs proves.                                            *)
(***************************************************************************)
EXTENDS GameEngine

IsCaptured(p) == board.state[p] = "Captured"

\* The pieces lifted out by an enemy that entered the cell they jump over.
IsLifted(p) == \E j \in DOMAIN airborne : airborne[j].lifted = p

(***************************************************************************)
(* The grid and the pieces tell one story: a piece the grid shows stands   *)
(* on that cell by its own account, a captured or lifted piece is on no    *)
(* cell, and no piece is lifted by two jumps.  The rules read the cell_    *)
(* field of a piece and the arbiter reads the grid, so a step that updates *)
(* one and not the other would make them play different games.             *)
(***************************************************************************)
BoardInSync ==
    /\ CellsAgree(board)
    /\ \A p \in Piece : IsCaptured(p) \/ IsLifted(p) => ~OnBoard(board, p)
    /\ \A p \in Piece : IsLifted(p) => board.state[p] = "Airborne"
    /\ \A i, j \in DOMAIN airborne :
          airborne[i].lifted = airborne[j].lifted
          /\ airborne[i].lifted # NoPiece => i = j

(***************************************************************************)
(* No piece is ever lost: one that is neither captured nor held up by a    *)
(* jump is on the board.  yieldToAirborne takes a jumper off the grid      *)
(* whether or not it finds the Jump that is to put it back.                *)
(***************************************************************************)
NoPieceIsLost ==
    \A p \in Piece : IsCaptured(p) \/ IsLifted(p) \/ OnBoard(board, p)

(***************************************************************************)
(* The arbiter never asks the board for a piece that is not there when it  *)
(* resolves a crossing (Board throws CellEmptyError, and classifyEntry     *)
(* would dereference null): every motion has a piece on its present cell,  *)
(* and no two motions share a cell, so that a capture ends at most one.    *)
(***************************************************************************)
EveryMotionHasItsPiece ==
    /\ \A t \in DOMAIN active : Occupied(board, CurrentCell(active[t]))
    /\ \A s, t \in DOMAIN active :
          CurrentCell(active[s]) = CurrentCell(active[t]) => s = t

(***************************************************************************)
(* "No enemy arrived: the piece just lands and cools down" (landAirborne   *)
(* dereferences the piece it finds on the cell): a jump that nobody has    *)
(* entered has its piece below it, in the air.  It holds up to the first   *)
(* landing on a piece under way, see OnlyMovingPiecesTravel.               *)
(***************************************************************************)
EveryJumpHasItsPiece ==
    \A j \in DOMAIN airborne :
        airborne[j].lifted = NoPiece =>
            LET p == board.at[airborne[j].cell]
            IN  p # NoPiece /\ board.state[p] = "Airborne"

(***************************************************************************)
(* A command that was accepted -- and published to every client as a move  *)
(* -- does start: requestMove and requestJump ignore the answer of the     *)
(* arbiter, which refuses a motion from a cell that has one.               *)
(***************************************************************************)
AcceptedCommandsStart ==
    [][logged' # logged =>
         \/ \E t \in DOMAIN active' : t \notin DOMAIN active
         \/ \E j \in DOMAIN airborne' : j \notin DOMAIN airborne]_vars

(***************************************************************************)
(* The life of a piece: only an idle piece starts to move or jump, every   *)
(* journey and jump ends in a rest and every rest in idleness, a piece in  *)
(* the air is never captured, and a captured one never comes back.         *)
(***************************************************************************)
LifeSteps ==
    { <<"Idle", "Moving">>, <<"Idle", "Airborne">>,
      <<"Moving", "Resting">>, <<"Airborne", "Resting">>,
      <<"Resting", "Idle">> }
    \cup ({"Idle", "Moving", "Resting"} \X {"Captured"})

LifecycleIsRespected ==
    [][\A p \in Piece :
         board'.state[p] = board.state[p]
         \/ <<board.state[p], board'.state[p]>> \in LifeSteps]_vars

(***************************************************************************)
(* "the crossings in the order they truly happened" (crossingsByArrival):  *)
(* no piece enters its next cell while another motion that crossed earlier *)
(* has still to be resolved.                                               *)
(***************************************************************************)
Enters(t) ==
    /\ Mover(t) # NoPiece
    /\ board.at[NextCell(active[t])] # Mover(t)
    /\ board'.at[NextCell(active[t])] = Mover(t)

CrossingsInTrueOrder ==
    [][\A t, u \in Crossings :
         Enters(t) => ArrivalOvershoot(active[u]) <= ArrivalOvershoot(active[t])]_vars

-----------------------------------------------------------------------------
(***************************************************************************)
(* No capture is lost and none is counted twice: between ticks, the score  *)
(* of each side is the worth of all the pieces the other side has lost, as *)
(* what they were when they fell.  "stopping early would lose the captures *)
(* that happened alongside the decisive one" (GameEngine::wait).           *)
(***************************************************************************)
Lost(color, kinds) ==
    {p \in Piece : IsCaptured(p) /\ ColorOf(p) = color /\ board.kind[p] \in kinds}

ScoresMatchCaptures ==
    ~Busy =>
        \A color \in Color :
            LET Worth(n, kinds) == n * Cardinality(Lost(OpponentOf(color), kinds))
            IN  score[color] = Worth(9, {"Queen"}) + Worth(5, {"Rook"})
                               + Worth(3, {"Bishop", "Knight"}) + Worth(1, {"Pawn"})

(***************************************************************************)
(* A king taken by whatever means -- by a mover, by a jump coming down --  *)
(* has ended the game by the end of the tick.                              *)
(***************************************************************************)
KingTakenEndsTheGame ==
    ~Busy => \A p \in Piece : IsCaptured(p) /\ board.kind[p] = "King" => over

(***************************************************************************)
(* Between ticks no pawn stands on its far row.  Promotion happens after   *)
(* all the tick's crossings and landings, to the piece that then stands on *)
(* a reported cell, so a pawn could be missed when several pieces meet     *)
(* there in one tick.                                                      *)
(***************************************************************************)
FarRow(p) == IF p \in White THEN 0 ELSE Height - 1

PawnsArePromoted ==
    ~Busy =>
        \A p \in Piece :
            OnBoard(board, p) /\ board.cell[p][1] = FarRow(p)
            => board.kind[p] # "Pawn"

(***************************************************************************)
(* legalDestinationsFor "only highlights moves the engine would actually   *)
(* accept", and all of them, while pieces travel, jump and rest.           *)
(***************************************************************************)
HighlightsAreTheAcceptedMoves ==
    ~Busy =>
        \A source \in Cells :
            LegalDestinationsFor(source) =
                {destination \in Cells : AcceptsMove(source, destination)}

(***************************************************************************)
(* The engine keeps the promise its room relies on: a king whose capture   *)
(* has not been reported yet is still to be taken, and a game is under way *)
(* while anything travels, is in the air or waits to be reported.          *)
(***************************************************************************)
KingPiece == {p \in Piece : StartKind[p] = "King"}

Unreported == {reports[i].captured : i \in DOMAIN reports}

MatchNow ==
    [over       |-> over,
     kings      |-> {k \in KingPiece : IsCaptured(k) => k \in Unreported},
     travelling |-> active # << >> \/ airborne # << >> \/ reports # << >>]

Promise == INSTANCE MatchSpec WITH King <- KingPiece, match <- MatchNow

KeepsItsPromise == Promise!Spec

-----------------------------------------------------------------------------
(***************************************************************************)
(* Every journey, jump and rest comes to an end: a piece that is not idle  *)
(* is idle or captured at some later time, as long as the loop keeps       *)
(* ticking.                                                                *)
(***************************************************************************)
EveryPieceSettles ==
    \A p \in Piece :
        board.state[p] \in {"Moving", "Airborne", "Resting"}
        ~> board.state[p] \in {"Idle", "Captured"}

-----------------------------------------------------------------------------
(***************************************************************************)
(* A statement the comments of the code make and the code does not keep.   *)
(* "A captured piece stops travelling, whether or not it was under way"    *)
(* (captureAt): a motion never outlives its piece, so what stands on its   *)
(* present cell is a piece that is Moving.  A jump that lands on a piece   *)
(* under way breaks it (landAirborne ends no motion), and from then on the *)
(* motion carries whatever stands on its cell.  The properties of the      *)
(* arbiter are checked up to the first such landing: the runs that check   *)
(* them have this as their CONSTRAINT.                                     *)
(***************************************************************************)
OnlyMovingPiecesTravel ==
    \A t \in DOMAIN active :
        LET p == board.at[CurrentCell(active[t])]
        IN  p # NoPiece => board.state[p] = "Moving"

=============================================================================
