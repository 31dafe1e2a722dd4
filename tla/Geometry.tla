------------------------------ MODULE Geometry ------------------------------
(***************************************************************************)
(* The squares of the board and the walk of a travelling piece over them:  *)
(* the pure functions of shared/logic/realtime/src/motion.cpp and the      *)
(* bounds of shared/logic/model/src/board.cpp.  A Position{row, col} is    *)
(* the pair <<row, col>>, counted from 0 at the top left as in the code.   *)
(***************************************************************************)
EXTENDS Integers, Sequences

CONSTANTS
    Height,     \* rows of the board
    Width       \* columns of the board

\* The constructor of Board rejects a board with no row or no column.
ASSUME DimensionsPositive == Height \in Nat \ {0} /\ Width \in Nat \ {0}

Cells == (0 .. Height - 1) \X (0 .. Width - 1)

\* One square takes squareTravelMs; jumps and rests last one second each.
SquareTravelMs == 1000
JumpDurationMs == 1000
CooldownMs == 1000

Distance(a, b) == IF a < b THEN b - a ELSE a - b

DirectionOf(a, b) == IF a < b THEN 1 ELSE IF b < a THEN -1 ELSE 0

\* Chebyshev distance.
CellSteps(from, to) ==
    LET rows == Distance(from[1], to[1])
        cols == Distance(from[2], to[2])
    IN  IF rows > cols THEN rows ELSE cols

IsStraightLine(from, to) ==
    \/ from[1] = to[1]
    \/ from[2] = to[2]
    \/ Distance(from[1], to[1]) = Distance(from[2], to[2])

TravelDurationMs(from, to) == CellSteps(from, to) * SquareTravelMs

\* The cell reached after n single-cell steps of a straight walk.
Along(from, to, n) ==
    << from[1] + n * DirectionOf(from[1], to[1]),
       from[2] + n * DirectionOf(from[2], to[2]) >>

(***************************************************************************)
(* The cells a move visits, origin first: every square of a rank, file or  *)
(* diagonal, and only the two ends of any other move, which is a leap.     *)
(***************************************************************************)
TravelPath(from, to) ==
    IF IsStraightLine(from, to)
    THEN [n \in 1 .. CellSteps(from, to) + 1 |-> Along(from, to, n - 1)]
    ELSE <<from, to>>

\* The time of one crossing: the journey's time shared by its crossings.
StepDurationOf(from, to) ==
    LET crossings == Len(TravelPath(from, to)) - 1
    IN  IF crossings < 1 THEN 0
        ELSE TravelDurationMs(from, to) \div crossings

=============================================================================
