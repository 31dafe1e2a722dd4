----------------------------- MODULE GameProofs -----------------------------
(***************************************************************************)
(* Type correctness of one game, for boards of any size, any pieces in any *)
(* starting position and ticks of any length, with what it rests on: the   *)
(* walk of a travelling piece, and what the methods of Board preserve.     *)
(* And, in its second half, that the grid and the pieces stay in step.     *)
(***************************************************************************)
EXTENDS GameProperties, TLAPS

LEMMA DistanceIsNatural ==
    ASSUME NEW a \in Int, NEW b \in Int
    PROVE  Distance(a, b) \in Nat
  BY DEF Distance

LEMMA CellStepsIsNatural ==
    ASSUME NEW from \in Cells, NEW to \in Cells
    PROVE  CellSteps(from, to) \in Nat
  BY DimensionsPositive, DistanceIsNatural DEF CellSteps, Cells

\* A coordinate that walks n of the d steps from a to b stays between them.
LEMMA CoordinateStaysBetween ==
    ASSUME NEW limit \in Nat, NEW a \in 0 .. limit, NEW b \in 0 .. limit,
           NEW d \in Nat, d = Distance(a, b) \/ a = b,
           NEW n \in 0 .. d
    PROVE  a + n * DirectionOf(a, b) \in 0 .. limit
  <1>1. CASE a < b
    <2>1. DirectionOf(a, b) = 1 /\ d = b - a
      BY <1>1 DEF DirectionOf, Distance
    <2> QED BY <2>1, <1>1
  <1>2. CASE b < a
    <2>1. DirectionOf(a, b) = -1 /\ d = a - b
      BY <1>2 DEF DirectionOf, Distance
    <2>2. a + n * DirectionOf(a, b) = a - n
      BY <2>1
    <2> QED BY <2>1, <2>2, <1>2
  <1>3. CASE a = b
    <2>1. DirectionOf(a, b) = 0
      BY <1>3 DEF DirectionOf
    <2> QED BY <2>1
  <1> QED BY <1>1, <1>2, <1>3

\* A straight walk never leaves the board.
LEMMA StraightWalkStaysOnBoard ==
    ASSUME NEW from \in Cells, NEW to \in Cells, IsStraightLine(from, to),
           NEW n \in 0 .. CellSteps(from, to)
    PROVE  Along(from, to, n) \in Cells
  <1> DEFINE d == CellSteps(from, to)
  <1>1. /\ from[1] \in 0 .. Height - 1 /\ to[1] \in 0 .. Height - 1
        /\ from[2] \in 0 .. Width - 1 /\ to[2] \in 0 .. Width - 1
        /\ Height - 1 \in Nat /\ Width - 1 \in Nat
    BY DimensionsPositive DEF Cells
  <1>2. d \in Nat
    BY CellStepsIsNatural
  <1>3. /\ d = Distance(from[1], to[1]) \/ from[1] = to[1]
        /\ d = Distance(from[2], to[2]) \/ from[2] = to[2]
    BY <1>1 DEF IsStraightLine, CellSteps, Distance
  <1>4. from[1] + n * DirectionOf(from[1], to[1]) \in 0 .. Height - 1
    BY <1>1, <1>2, <1>3, CoordinateStaysBetween
  <1>5. from[2] + n * DirectionOf(from[2], to[2]) \in 0 .. Width - 1
    BY <1>1, <1>2, <1>3, CoordinateStaysBetween
  <1> QED BY <1>4, <1>5 DEF Along, Cells

(***************************************************************************)
(* A path begins with the origin and visits cells of the board only.       *)
(***************************************************************************)
THEOREM TravelPathOnBoard ==
    ASSUME NEW from \in Cells, NEW to \in Cells
    PROVE  /\ TravelPath(from, to) \in Seq(Cells)
           /\ Len(TravelPath(from, to)) \in Nat \ {0}
           /\ TravelPath(from, to)[1] = from
  <1>1. CASE IsStraightLine(from, to)
    <2> DEFINE d == CellSteps(from, to)
    <2>1. d \in Nat
      BY CellStepsIsNatural
    <2>2. \A n \in 1 .. d + 1 : Along(from, to, n - 1) \in Cells
      BY <2>1, <1>1, StraightWalkStaysOnBoard
    <2>3. TravelPath(from, to) = [n \in 1 .. d + 1 |-> Along(from, to, n - 1)]
      BY <1>1 DEF TravelPath
    <2> HIDE DEF d
    <2>4. TravelPath(from, to) \in [1 .. d + 1 -> Cells]
      BY <2>2, <2>3
    <2>5. TravelPath(from, to) \in Seq(Cells) /\ Len(TravelPath(from, to)) = d + 1
      BY <2>1, <2>4
    <2>6. Along(from, to, 0) = from
      <3>1. /\ from = <<from[1], from[2]>>
            /\ from[1] \in Int /\ from[2] \in Int
        BY DimensionsPositive DEF Cells
      <3>2. /\ DirectionOf(from[1], to[1]) \in Int
            /\ DirectionOf(from[2], to[2]) \in Int
        BY DEF DirectionOf
      <3> QED BY <3>1, <3>2 DEF Along
    <2>7. TravelPath(from, to)[1] = Along(from, to, 0)
      BY <2>1, <2>3
    <2> QED BY <2>1, <2>5, <2>6, <2>7
  <1>2. CASE ~IsStraightLine(from, to)
    <2>1. TravelPath(from, to) = <<from, to>>
      BY <1>2 DEF TravelPath
    <2> QED BY <2>1
  <1> QED BY <1>1, <1>2

(***************************************************************************)
(* A path comes to an edge row only with its last step, unless it runs     *)
(* along that row: there is no square beyond the edge to go on to.         *)
(***************************************************************************)
EndsAtEdges(path) ==
    \A n \in 2 .. Len(path) - 1 :
        path[n][1] \in {0, Height - 1} => path[n - 1][1] = path[n][1]

LEMMA TravelPathEndsAtEdges ==
    ASSUME NEW from \in Cells, NEW to \in Cells
    PROVE  EndsAtEdges(TravelPath(from, to))
  <1> DEFINE path == TravelPath(from, to)
             dir == DirectionOf(from[1], to[1])
             d == CellSteps(from, to)
  <1>1. path \in Seq(Cells) /\ d \in Nat
    BY TravelPathOnBoard, CellStepsIsNatural
  <1>2. CASE IsStraightLine(from, to)
    <2>1. path = [n \in 1 .. d + 1 |-> Along(from, to, n - 1)]
      BY <1>2 DEF TravelPath
    <2>2. dir \in {-1, 0, 1} /\ from[1] \in Int
      BY DimensionsPositive DEF DirectionOf, Cells
    <2>3. \A n \in 1 .. d + 1 : path[n][1] = from[1] + (n - 1) * dir
      BY <1>1, <2>1 DEF Along
    <2>4. Len(path) = d + 1
      <3> HIDE DEF path, d
      <3> QED BY <1>1, <2>1
    <2>5. \A n \in 1 .. d + 1 : path[n][1] \in 0 .. Height - 1
      <3> HIDE DEF path, d
      <3>1. \A n \in 1 .. d + 1 : path[n] \in Cells
        BY <1>1, <2>4
      <3> QED BY <3>1 DEF Cells
    <2> HIDE DEF path, d, dir
    <2> SUFFICES ASSUME NEW n \in 2 .. Len(path) - 1, path[n][1] \in {0, Height - 1}
                 PROVE  path[n - 1][1] = path[n][1]
      BY DEF EndsAtEdges, path
    <2>6. n - 1 \in 1 .. d + 1 /\ n \in 1 .. d + 1 /\ n + 1 \in 1 .. d + 1
      BY <1>1, <2>4
    <2>7. /\ path[n - 1][1] = from[1] + (n - 2) * dir
          /\ path[n][1] = from[1] + (n - 1) * dir
          /\ path[n + 1][1] = from[1] + n * dir
      BY <2>3, <2>6
    <2>8. /\ path[n - 1][1] \in 0 .. Height - 1 /\ path[n + 1][1] \in 0 .. Height - 1
      BY <2>5, <2>6
    <2>9. CASE dir = 0
      BY <2>2, <2>6, <2>7, <2>9
    <2>10. CASE dir = 1
      <3>1. /\ path[n - 1][1] = path[n][1] - 1 /\ path[n + 1][1] = path[n][1] + 1
        BY <2>2, <2>6, <2>7, <2>10
      <3> QED BY <2>8, <3>1, DimensionsPositive
    <2>11. CASE dir = -1
      <3>1. /\ path[n - 1][1] = from[1] - (n - 2)
            /\ path[n][1] = from[1] - (n - 1)
            /\ path[n + 1][1] = from[1] - n
        <4>1. \A k \in Int : from[1] + k * dir = from[1] - k
          BY <2>2, <2>11
        <4>2. n \in Int /\ n - 1 \in Int /\ n - 2 \in Int
          BY <2>6
        <4> QED BY <2>7, <4>1, <4>2
      <3>2. n \in Int
        BY <2>6
      <3> QED BY <2>2, <2>8, <3>1, <3>2, DimensionsPositive
    <2> QED BY <2>2, <2>9, <2>10, <2>11
  <1>3. CASE ~IsStraightLine(from, to)
    BY <1>3 DEF TravelPath, EndsAtEdges
  <1> QED BY <1>2, <1>3

LEMMA StepDurationIsNatural ==
    ASSUME NEW from \in Cells, NEW to \in Cells
    PROVE  StepDurationOf(from, to) \in Nat
  <1> DEFINE n == Len(TravelPath(from, to)) - 1
             d == CellSteps(from, to) * 1000
  <1>1. n \in Int
    BY TravelPathOnBoard
  <1>2. d \in Nat
    BY CellStepsIsNatural
  <1>3. StepDurationOf(from, to) = IF n < 1 THEN 0 ELSE d \div n
    BY DEF StepDurationOf, TravelDurationMs, SquareTravelMs
  <1> HIDE DEF n, d
  <1> QED BY <1>1, <1>2, <1>3

-----------------------------------------------------------------------------
LEMMA SetStateType ==
    ASSUME NEW b \in BoardValue, NEW p, NEW s \in State
    PROVE  SetState(b, p, s) \in BoardValue
  BY DEF SetState, BoardValue

LEMMA RemovePieceType ==
    ASSUME NEW b \in BoardValue, NEW c
    PROVE  RemovePiece(b, c) \in BoardValue
  BY DEF RemovePiece, BoardValue

LEMMA MovePieceType ==
    ASSUME NEW b \in BoardValue, NEW from \in Cells, NEW to \in Cells
    PROVE  MovePiece(b, from, to) \in BoardValue
  BY DEF MovePiece, BoardValue

LEMMA PlacePieceType ==
    ASSUME NEW b \in BoardValue, NEW p \in Piece, NEW c \in Cells
    PROVE  PlacePiece(b, p, c) \in BoardValue
  BY DEF PlacePiece, BoardValue

LEMMA SetPieceStateType ==
    ASSUME NEW b \in BoardValue, NEW c, NEW s \in State
    PROVE  SetPieceState(b, c, s) \in BoardValue
  BY SetStateType DEF SetPieceState

-----------------------------------------------------------------------------
LEMMA SetStateAgrees ==
    ASSUME NEW b \in BoardValue, NEW p, NEW s, CellsAgree(b)
    PROVE  CellsAgree(SetState(b, p, s))
  BY DEF SetState, BoardValue, CellsAgree, Occupied

LEMMA RemovePieceAgrees ==
    ASSUME NEW b \in BoardValue, NEW c, CellsAgree(b)
    PROVE  CellsAgree(RemovePiece(b, c))
  BY DEF RemovePiece, BoardValue, CellsAgree, Occupied

\* A piece on a cell is on no other.
LEMMA PieceOnOneCell ==
    ASSUME NEW b, CellsAgree(b), NEW c \in Cells, NEW d \in Cells,
           Occupied(b, c), b.at[c] = b.at[d]
    PROVE  c = d
  BY DEF CellsAgree, Occupied

LEMMA MovePieceAgrees ==
    ASSUME NEW b \in BoardValue, CellsAgree(b),
           NEW from \in Cells, NEW to \in Cells,
           Occupied(b, from), ~Occupied(b, to)
    PROVE  CellsAgree(MovePiece(b, from, to))
  <1> DEFINE p == b.at[from]
             m == MovePiece(b, from, to)
  <1>1. p \in Piece
    BY DEF BoardValue, Occupied
  <1>2. m.cell = [b.cell EXCEPT ![p] = to]
    BY DEF MovePiece, BoardValue
  <1>3. m.at = [[b.at EXCEPT ![to] = p] EXCEPT ![from] = NoPiece]
    BY DEF MovePiece, BoardValue
  <1>4. from # to
    OBVIOUS
  <1>5. ASSUME NEW c \in Cells, Occupied(m, c)
        PROVE  m.cell[m.at[c]] = c
    <2>1. c # from
      BY <1>3, <1>5 DEF Occupied, BoardValue
    <2>2. CASE c = to
      BY <1>1, <1>2, <1>3, <1>4, <2>2 DEF BoardValue
    <2>3. CASE c # to
      <3>1. m.at[c] = b.at[c] /\ Occupied(b, c)
        BY <1>3, <1>5, <2>1, <2>3 DEF BoardValue, Occupied
      <3>2. b.at[c] # p
        BY <2>1, <3>1, PieceOnOneCell
      <3> QED BY <1>1, <1>2, <3>1, <3>2 DEF BoardValue, CellsAgree, Occupied
    <2> QED BY <2>2, <2>3
  <1> QED BY <1>5 DEF CellsAgree

LEMMA PlacePieceAgrees ==
    ASSUME NEW b \in BoardValue, CellsAgree(b),
           NEW p \in Piece, ~OnBoard(b, p), NEW c \in Cells
    PROVE  CellsAgree(PlacePiece(b, p, c))
  BY DEF PlacePiece, BoardValue, CellsAgree, Occupied, OnBoard

-----------------------------------------------------------------------------

(***************************************************************************)
(* TypeOK is not inductive by itself: that the clock of a motion stays a   *)
(* natural number when a step is completed needs that only motions that    *)
(* are mid-crossing are resolved, which for the motions of a pass is what  *)
(* PassIsPending says.                                                     *)
(***************************************************************************)
PassIsPending == pass \subseteq Crossings

TypeInv == TypeOK /\ PassIsPending

\* The typing of a vector of motions.
MotionsTyped(a) ==
    /\ DOMAIN a \subseteq Tickets
    /\ a \in [DOMAIN a -> Motion]
    /\ \A t \in DOMAIN a : a[t].step \in DOMAIN a[t].path

JumpsTyped(a) ==
    /\ DOMAIN a \subseteq Tickets
    /\ a \in [DOMAIN a -> Jump]

LEMMA SingletonIsSequence ==
    ASSUME NEW S, NEW s \in S
    PROVE  <<s>> \in Seq(S)
  OBVIOUS

LEMMA AppendIsSequence ==
    ASSUME NEW S, NEW q \in Seq(S), NEW s \in S
    PROVE  Append(q, s) \in Seq(S)
  OBVIOUS

LEMMA NewMotionTyped ==
    ASSUME NEW from \in Cells, NEW to \in Cells
    PROVE  /\ NewMotion(from, to) \in Motion
           /\ NewMotion(from, to).step \in DOMAIN NewMotion(from, to).path
           /\ CurrentCell(NewMotion(from, to)) = from
  <1>1. /\ TravelPath(from, to) \in Seq(Cells)
        /\ Len(TravelPath(from, to)) \in Nat \ {0}
        /\ TravelPath(from, to)[1] = from
    BY TravelPathOnBoard
  <1>2. StepDurationOf(from, to) \in Nat
    BY StepDurationIsNatural
  <1>3. 1 \in DOMAIN TravelPath(from, to)
    BY <1>1
  <1> QED BY <1>1, <1>2, <1>3 DEF NewMotion, Motion, CurrentCell

LEMMA ExtendedMotions ==
    ASSUME NEW a, MotionsTyped(a), NEW t \in Tickets, NEW m \in Motion,
           m.step \in DOMAIN m.path
    PROVE  MotionsTyped(Extended(a, t, m))
  BY DEF MotionsTyped, Extended

LEMMA WithoutMotions ==
    ASSUME NEW a, MotionsTyped(a), NEW gone
    PROVE  MotionsTyped(Without(a, gone))
  BY DEF MotionsTyped, Without

LEMMA ExtendedJumps ==
    ASSUME NEW a, JumpsTyped(a), NEW t \in Tickets, NEW j \in Jump
    PROVE  JumpsTyped(Extended(a, t, j))
  BY DEF JumpsTyped, Extended

LEMMA WithoutJumps ==
    ASSUME NEW a, JumpsTyped(a), NEW gone
    PROVE  JumpsTyped(Without(a, gone))
  BY DEF JumpsTyped, Without

\* A motion's present cell is on the board, and so is the next one of a motion
\* that is mid-crossing, which may complete its step.
LEMMA CurrentCellOnBoard ==
    ASSUME NEW m \in Motion, m.step \in DOMAIN m.path
    PROVE  CurrentCell(m) \in Cells
  BY DEF Motion, CurrentCell

LEMMA CrossingMotion ==
    ASSUME NEW m \in Motion, m.step \in DOMAIN m.path, IsEnteringNextCell(m)
    PROVE  /\ NextCell(m) \in Cells
           /\ CompleteStep(m) \in Motion
           /\ CompleteStep(m).step \in DOMAIN CompleteStep(m).path
           /\ CurrentCell(CompleteStep(m)) = NextCell(m)
  <1>1. /\ m.path \in Seq(Cells) /\ m.step \in 1 .. Len(m.path)
        /\ m.step + 1 \in 1 .. Len(m.path)
        /\ m.elapsed - m.duration \in Nat
    BY DEF Motion, IsEnteringNextCell, IsComplete
  <1>2. /\ CompleteStep(m) \in Motion
        /\ CompleteStep(m).path = m.path
        /\ CompleteStep(m).step = m.step + 1
    <2> DEFINE m1 == [m EXCEPT !.step = m.step + 1]
               m2 == [m1 EXCEPT !.elapsed = m.elapsed - m.duration]
    <2>1. m1 \in Motion /\ m1.path = m.path /\ m1.step = m.step + 1
      BY <1>1 DEF Motion
    <2>2. m2 \in Motion /\ m2.path = m1.path /\ m2.step = m1.step
      BY <1>1, <2>1 DEF Motion
    <2>3. CompleteStep(m) = m2
      BY <2>1 DEF CompleteStep, Motion
    <2> QED BY <2>1, <2>2, <2>3
  <1> QED BY <1>1, <1>2 DEF NextCell, CurrentCell

LEMMA MotionsOfTypeOK ==
    ASSUME TypeOK
    PROVE  MotionsTyped(active) /\ JumpsTyped(airborne)
  BY DEF TypeOK, ArbiterTypeOK, MotionsTyped, JumpsTyped

-----------------------------------------------------------------------------
LEMMA InitTypeInv == Init => TypeInv
  <1> SUFFICES ASSUME Init PROVE TypeInv
    OBVIOUS
  <1>1. StartBoard \in BoardValue
    <2>1. [c \in Cells |->
             IF \E p \in Piece : StartCell[p] = c
             THEN CHOOSE p \in Piece : StartCell[p] = c
             ELSE NoPiece] \in [Cells -> Piece \cup {NoPiece}]
      OBVIOUS
    <2>2. [p \in Piece |-> "Idle"] \in [Piece -> State]
      BY DEF State
    <2> QED BY <2>1, <2>2, StartCellType, StartKindType DEF StartBoard, BoardValue
  <1>2. active = << >> /\ DOMAIN active = {} /\ airborne = << >> /\ DOMAIN airborne = {}
    BY DEF Init
  <1>3. reports \in Seq(ArrivalReport)
    BY DEF Init
  <1>4. score \in [Color -> Nat] /\ logged \in 0 .. MaxMoves
    BY MaxMovesIsNatural DEF Init
  <1>5. MotionsTyped(active) /\ JumpsTyped(airborne)
    BY <1>2 DEF MotionsTyped, JumpsTyped
  <1> QED BY <1>1, <1>2, <1>3, <1>4, <1>5
          DEF Init, TypeInv, TypeOK, ArbiterTypeOK, PassIsPending, MotionsTyped,
              JumpsTyped

LEMMA PublishType ==
    ASSUME TypeOK, PublishAccepted
    PROVE  logged' \in 0 .. MaxMoves
  BY MaxMovesIsNatural DEF TypeOK, PublishAccepted

\* Between ticks the pass is over.
LEMMA QuietPass ==
    ASSUME TypeInv, ~Busy
    PROVE  pass = {} /\ Crossings = {} /\ Landings = {} /\ reports = << >>
  BY DEF TypeInv, PassIsPending, Busy

LEMMA RequestMoveTypeInv ==
    ASSUME TypeInv, NEW source \in Cells, NEW destination \in Cells,
           RequestMove(source, destination)
    PROVE  TypeInv'
  <1>1. pass' = {}
    BY QuietPass DEF RequestMove, StartMotion
  <1>2. MotionsTyped(active')
    <2>1. CASE HasMotionFor(source)
      BY <2>1, MotionsOfTypeOK DEF RequestMove, StartMotion, TypeInv
    <2>2. CASE ~HasMotionFor(source)
      <3>1. PICK t \in Tickets :
              active' = Extended(active, t, NewMotion(source, destination))
        BY <2>2 DEF RequestMove, StartMotion
      <3> QED BY <3>1, NewMotionTyped, ExtendedMotions, MotionsOfTypeOK DEF TypeInv
    <2> QED BY <2>1, <2>2
  <1>3. board' \in BoardValue
    BY SetPieceStateType
       DEF RequestMove, StartMotion, TypeInv, TypeOK, ArbiterTypeOK, State
  <1>4. logged' \in 0 .. MaxMoves
    BY PublishType DEF RequestMove, TypeInv
  <1> QED BY <1>1, <1>2, <1>3, <1>4
          DEF RequestMove, StartMotion, TypeInv, TypeOK, ArbiterTypeOK,
              MotionsTyped, PassIsPending

LEMMA RequestJumpTypeInv ==
    ASSUME TypeInv, NEW c \in Cells, RequestJump(c)
    PROVE  TypeInv'
  <1> DEFINE jump == [cell |-> c, elapsed |-> 0, lifted |-> NoPiece]
  <1>1. JumpsTyped(airborne')
    <2>1. jump \in Jump
      BY DEF Jump
    <2>2. CASE board.state[board.at[c]] = "Airborne"
      BY <2>2, MotionsOfTypeOK DEF RequestJump, StartJump, TypeInv
    <2>3. CASE board.state[board.at[c]] # "Airborne"
      <3>1. PICK t \in Tickets : airborne' = Extended(airborne, t, jump)
        BY <2>3 DEF RequestJump, StartJump
      <3> QED BY <3>1, <2>1, ExtendedJumps, MotionsOfTypeOK DEF TypeInv
    <2> QED BY <2>2, <2>3
  <1>2. board' \in BoardValue
    BY SetPieceStateType
       DEF RequestJump, StartJump, TypeInv, TypeOK, ArbiterTypeOK, State
  <1>3. logged' \in 0 .. MaxMoves
    BY PublishType DEF RequestJump, TypeInv
  <1>4. Crossings' = Crossings
    BY DEF RequestJump, StartJump, Crossings
  <1> QED BY <1>1, <1>2, <1>3, <1>4
          DEF RequestJump, StartJump, TypeInv, TypeOK, ArbiterTypeOK,
              JumpsTyped, PassIsPending

LEMMA EndGameTypeInv ==
    ASSUME TypeInv, EndGame
    PROVE  TypeInv'
  BY DEF EndGame, TypeInv, TypeOK, ArbiterTypeOK, arbiterVars, PassIsPending, Crossings

LEMMA WaitTypeInv ==
    ASSUME TypeInv, NEW delta \in Deltas, Wait(delta)
    PROVE  TypeInv'
  <1>1. delta \in Nat
    BY DeltasAreNaturals
  <1>2. board' \in BoardValue
    BY DEF Wait, StartTick, TypeInv, TypeOK, ArbiterTypeOK, BoardValue, State
  <1>3. resting' \subseteq Cooldown
    <2>1. \A r \in Cooldown : TickedCooldown(r, delta) \in Cooldown
      BY <1>1 DEF Cooldown, TickedCooldown
    <2> QED BY <2>1 DEF Wait, StartTick, TypeInv, TypeOK, ArbiterTypeOK
  <1>4. MotionsTyped(active')
    <2>1. \A m \in Motion : LET later == [m EXCEPT !.elapsed = @ + delta]
                            IN  /\ later \in Motion
                                /\ later.step = m.step /\ later.path = m.path
      BY <1>1 DEF Motion
    <2>2. MotionsTyped(active)
      BY MotionsOfTypeOK DEF TypeInv
    <2>3. active' = [t \in DOMAIN active |-> [active[t] EXCEPT !.elapsed = @ + delta]]
      BY DEF Wait, StartTick
    <2>4. /\ DOMAIN active' = DOMAIN active
          /\ \A t \in DOMAIN active : /\ active'[t] \in Motion
                                       /\ active'[t].step = active[t].step
                                       /\ active'[t].path = active[t].path
      BY <2>1, <2>2, <2>3 DEF MotionsTyped
    <2>5. active' \in [DOMAIN active' -> Motion]
      BY <2>3, <2>4
    <2> QED BY <2>2, <2>4, <2>5 DEF MotionsTyped
  <1>5. JumpsTyped(airborne')
    <2>1. \A j \in Jump : [j EXCEPT !.elapsed = @ + delta] \in Jump
      BY <1>1 DEF Jump
    <2>2. JumpsTyped(airborne)
      BY MotionsOfTypeOK DEF TypeInv
    <2>3. airborne' = [j \in DOMAIN airborne |->
                         [airborne[j] EXCEPT !.elapsed = @ + delta]]
      BY DEF Wait, StartTick
    <2> QED BY <2>1, <2>2, <2>3 DEF JumpsTyped
  <1>6. pass' = {}
    BY QuietPass DEF Wait, StartTick
  <1> QED BY <1>2, <1>3, <1>4, <1>5, <1>6
          DEF Wait, StartTick, TypeInv, TypeOK, ArbiterTypeOK, MotionsTyped,
              JumpsTyped, PassIsPending

-----------------------------------------------------------------------------
\* The motion being resolved.
LEMMA CrossingFacts ==
    ASSUME TypeInv, NEW t \in Tickets, NEW outcome, Crosses(t, outcome)
    PROVE  /\ t \in Crossings /\ t \in DOMAIN active
           /\ CurrentCell(active[t]) \in Cells
           /\ NextCell(active[t]) \in Cells
           /\ CompleteStep(active[t]) \in Motion
           /\ CompleteStep(active[t]).step \in DOMAIN CompleteStep(active[t]).path
           /\ CurrentCell(CompleteStep(active[t])) = NextCell(active[t])
           /\ Mover(t) \in Piece
           /\ Occupant(t) \in Piece \cup {NoPiece}
  <1>1. t \in Crossings
    BY DEF Crosses, Pass, TypeInv, PassIsPending
  <1>2. /\ t \in DOMAIN active /\ IsEnteringNextCell(active[t])
        /\ active[t] \in Motion /\ active[t].step \in DOMAIN active[t].path
    BY <1>1 DEF Crossings, TypeInv, TypeOK, ArbiterTypeOK
  <1>3. CurrentCell(active[t]) \in Cells /\ NextCell(active[t]) \in Cells
    BY <1>2, CurrentCellOnBoard, CrossingMotion
  <1>4. Mover(t) \in Piece /\ Occupant(t) \in Piece \cup {NoPiece}
    BY <1>3 DEF Crosses, Mover, Occupant, TypeInv, TypeOK, ArbiterTypeOK, BoardValue
  <1> QED BY <1>1, <1>2, <1>3, <1>4, CrossingMotion

\* A pass stays pending when the other motions in it are left alone.
LEMMA PassStaysPending ==
    ASSUME TypeInv, NEW t, NEW gone, pass' = PassAfter(t, gone),
           \A u \in DOMAIN active \ (gone \cup {t}) :
              u \in DOMAIN active' /\ active'[u] = active[u]
    PROVE  PassIsPending'
  <1>1. Pass \subseteq Crossings
    BY DEF Pass, TypeInv, PassIsPending
  <1>2. ASSUME NEW u \in pass' PROVE u \in Crossings'
    BY <1>1, <1>2 DEF PassAfter, Crossings
  <1> QED BY <1>2 DEF PassIsPending

LEMMA FinishTypeInv ==
    ASSUME TypeInv, NEW t, NEW b \in BoardValue, NEW c \in Cells, NEW gone,
           b.at[c] \in Piece, NEW victim \in Piece \cup {NoPiece},
           Finish(t, b, c, gone, victim), JumpsTyped(airborne'),
           UNCHANGED <<over, score, logged>>
    PROVE  TypeInv'
  <1>1. board' \in BoardValue
    BY SetPieceStateType DEF Finish, State
  <1>2. MotionsTyped(active')
    BY WithoutMotions, MotionsOfTypeOK DEF Finish, TypeInv
  <1>3. resting' \subseteq Cooldown
    BY DEF Finish, Rest, Cooldown, TypeInv, TypeOK, ArbiterTypeOK
  <1>4. reports' \in Seq(ArrivalReport)
    <2>1. Report(c, TRUE, victim) \in ArrivalReport
      BY DEF Report, ArrivalReport
    <2>2. reports \in Seq(ArrivalReport)
      BY DEF TypeInv, TypeOK, ArbiterTypeOK
    <2>3. reports' = Append(reports, Report(c, TRUE, victim))
      BY DEF Finish
    <2> QED BY <2>1, <2>2, <2>3, AppendIsSequence
  <1>5. PassIsPending'
    BY PassStaysPending DEF Finish, Without
  <1> QED BY <1>1, <1>2, <1>3, <1>4, <1>5
          DEF TypeInv, TypeOK, ArbiterTypeOK, MotionsTyped, JumpsTyped,
              PassIsPending, Crossings

LEMMA WalkInTypeInv ==
    ASSUME TypeInv, NEW t \in Tickets, NEW outcome, Crosses(t, outcome),
           NEW b \in BoardValue, NEW gone, t \notin gone,
           b.at[CurrentCell(active[t])] \in Piece,
           NEW victim \in Piece \cup {NoPiece}, WalkIn(t, b, gone, victim),
           CurrentCell(active[t]) # NextCell(active[t]),
           UNCHANGED <<over, score, logged>>
    PROVE  TypeInv'
  <1> DEFINE from == CurrentCell(active[t])
             to == NextCell(active[t])
             moved == MovePiece(b, from, to)
             stepped == CompleteStep(active[t])
  <1>1. /\ t \in DOMAIN active /\ from \in Cells /\ to \in Cells
        /\ stepped \in Motion /\ stepped.step \in DOMAIN stepped.path
    BY CrossingFacts
  <1>2. moved \in BoardValue
    BY <1>1, MovePieceType
  <1>3. moved.at[to] \in Piece
    BY <1>1 DEF MovePiece, BoardValue
  <1>4. JumpsTyped(airborne')
    BY MotionsOfTypeOK DEF WalkIn, TypeInv
  <1>5. CASE IsComplete(stepped)
    <2>1. Finish(t, moved, to, gone, victim)
      BY <1>5 DEF WalkIn
    <2> QED BY <1>1, <1>2, <1>3, <1>4, <2>1, FinishTypeInv
  <1>6. CASE ~IsComplete(stepped)
    <2>1. /\ board' = moved
          /\ active' = Without([active EXCEPT ![t] = stepped], gone)
          /\ reports' = reports \o ReportOnTheWay(to, victim)
          /\ pass' = PassAfter(t, gone)
          /\ UNCHANGED <<resting, airborne>>
      BY <1>6 DEF WalkIn
    <2>2. MotionsTyped(active')
      <3>1. MotionsTyped([active EXCEPT ![t] = stepped])
        BY <1>1, MotionsOfTypeOK DEF MotionsTyped, TypeInv
      <3> QED BY <3>1, <2>1, WithoutMotions
    <2>3. reports' \in Seq(ArrivalReport)
      <3>1. Report(to, TRUE, victim) \in ArrivalReport
        BY <1>1 DEF Report, ArrivalReport
      <3>2. << >> \in Seq(ArrivalReport)
        OBVIOUS
      <3>3. ReportOnTheWay(to, victim) \in Seq(ArrivalReport)
        BY <3>1, <3>2, SingletonIsSequence DEF ReportOnTheWay
      <3>4. reports \in Seq(ArrivalReport)
        BY DEF TypeInv, TypeOK, ArbiterTypeOK
      <3> QED BY <2>1, <3>3, <3>4
    <2>4. PassIsPending'
      BY <2>1, PassStaysPending DEF Without
    <2> QED BY <1>2, <1>4, <2>1, <2>2, <2>3, <2>4
            DEF TypeInv, TypeOK, ArbiterTypeOK, MotionsTyped, JumpsTyped,
                PassIsPending, Crossings
  <1> QED BY <1>5, <1>6

\* A piece that moves leaves its cell: the next cell is another one.
LEMMA NextCellIsAnother ==
    ASSUME NEW t, Crosses(t, "Free") \/ Crosses(t, "Capture")
    PROVE  CurrentCell(active[t]) # NextCell(active[t])
  BY DEF Crosses, EntryOutcome, Mover, Occupant

LEMMA ResolveTypeInv ==
    ASSUME TypeInv, NEW t \in Tickets, Resolve(t)
    PROVE  TypeInv'
  <1> DEFINE from == CurrentCell(active[t])
             to == NextCell(active[t])
  <1>0. board \in BoardValue /\ UNCHANGED <<over, score, logged>>
    BY DEF TypeInv, TypeOK, ArbiterTypeOK, Resolve
  <1>1. CASE EnterFreeCell(t)
    BY <1>0, <1>1, CrossingFacts, NextCellIsAnother, WalkInTypeInv
       DEF EnterFreeCell, Mover
  <1>2. CASE CaptureOccupant(t)
    <2> DEFINE b == RemovePiece(SetState(board, Occupant(t), "Captured"), to)
    <2>1. /\ Crosses(t, "Capture") /\ from # to
          /\ WalkIn(t, b, MotionsAt(to), Occupant(t))
      BY <1>2, NextCellIsAnother DEF CaptureOccupant
    <2>2. b \in BoardValue
      BY <1>0, SetStateType, RemovePieceType DEF State
    <2>3. b.at[from] \in Piece
      BY <1>0, <2>1, CrossingFacts DEF RemovePiece, SetState, BoardValue, Mover
    <2>4. t \notin MotionsAt(to)
      BY <2>1 DEF MotionsAt
    <2>5. Occupant(t) \in Piece \cup {NoPiece}
      BY <2>1, CrossingFacts
    <2> DEFINE gone == MotionsAt(to)
               victim == Occupant(t)
    <2>6. WalkIn(t, b, gone, victim) /\ t \notin gone /\ victim \in Piece \cup {NoPiece}
      BY <2>1, <2>4, <2>5
    <2> HIDE DEF b, gone, victim
    <2> QED BY <1>0, <2>1, <2>2, <2>3, <2>6, WalkInTypeInv
  <1>3. CASE StopBeforeFriend(t)
    <2>1. JumpsTyped(airborne')
      BY <1>3, MotionsOfTypeOK DEF StopBeforeFriend, TypeInv
    <2> QED BY <1>0, <1>3, <2>1, CrossingFacts, FinishTypeInv
            DEF StopBeforeFriend, Mover
  <1>4. CASE YieldToAirborne(t)
    <2> DEFINE moved == MovePiece(RemovePiece(board, to), from, to)
    <2>1. /\ Crosses(t, "CapturedByAirborne")
          /\ Finish(t, moved, to, {}, NoPiece)
      BY <1>4 DEF YieldToAirborne
    <2>2. moved \in BoardValue
      BY <1>0, <2>1, CrossingFacts, RemovePieceType, MovePieceType
    <2>3. from # to
      BY <2>1 DEF Crosses, EntryOutcome, Mover, Occupant
    <2>4. moved.at[to] \in Piece
      BY <1>0, <2>1, <2>3, CrossingFacts DEF MovePiece, RemovePiece, BoardValue, Mover
    <2>5. JumpsTyped(airborne')
      <3>1. Occupant(t) \in Piece \cup {NoPiece} /\ JumpsTyped(airborne)
        BY <2>1, CrossingFacts, MotionsOfTypeOK DEF TypeInv
      <3>2. \A j \in Jump : [j EXCEPT !.lifted = Occupant(t)] \in Jump
        BY <3>1 DEF Jump
      <3> QED BY <1>4, <3>1, <3>2 DEF YieldToAirborne, JumpsTyped
    <2> HIDE DEF moved
    <2> QED BY <1>0, <2>1, <2>2, <2>4, <2>5, CrossingFacts, FinishTypeInv
  <1> QED BY <1>1, <1>2, <1>3, <1>4 DEF Resolve, ResolveCrossing

LEMMA LandTypeInv ==
    ASSUME TypeInv, NEW j \in Tickets, LandJump(j)
    PROVE  TypeInv'
  <1> DEFINE c == airborne[j].cell
             jumper == airborne[j].lifted
             victim == board.at[c]
  <1>1. /\ j \in DOMAIN airborne /\ UNCHANGED <<active, pass, over, score, logged>>
        /\ airborne' = Without(airborne, {j})
    BY DEF LandJump, Land, LandAtRest, LandOnArriver, IsNextLanding, Landings
  <1>2. /\ c \in Cells /\ jumper \in Piece \cup {NoPiece}
        /\ board \in BoardValue /\ victim \in Piece \cup {NoPiece}
    BY <1>1 DEF TypeInv, TypeOK, ArbiterTypeOK, Jump, BoardValue
  <1>3. JumpsTyped(airborne')
    BY <1>1, WithoutJumps, MotionsOfTypeOK DEF TypeInv
  <1>4. CASE LandAtRest(j)
    <2>1. board' \in BoardValue
      BY <1>2, <1>4, SetPieceStateType DEF LandAtRest, State
    <2>2. resting' \subseteq Cooldown
      BY <1>2, <1>4 DEF LandAtRest, Rest, Cooldown, Occupied, TypeInv, TypeOK,
                        ArbiterTypeOK
    <2>3. UNCHANGED reports
      BY <1>4 DEF LandAtRest
    <2> QED BY <1>1, <1>3, <2>1, <2>2, <2>3
            DEF TypeInv, TypeOK, ArbiterTypeOK, JumpsTyped, PassIsPending, Crossings
  <1>5. CASE LandOnArriver(j)
    <2> DEFINE cleared == IF victim = NoPiece THEN board
                          ELSE RemovePiece(SetState(board, victim, "Captured"), c)
    <2>1. jumper \in Piece
      BY <1>2, <1>5 DEF LandOnArriver
    <2>2. cleared \in BoardValue
      BY <1>2, SetStateType, RemovePieceType DEF State
    <2>3. board' \in BoardValue
      <3>1. board' = SetPieceState(PlacePiece(cleared, jumper, c), c, "Resting")
        BY <1>5 DEF LandOnArriver
      <3> HIDE DEF cleared
      <3> QED BY <1>2, <2>1, <2>2, <3>1, PlacePieceType, SetPieceStateType DEF State
    <2>4. resting' \subseteq Cooldown
      BY <1>2, <1>5, <2>1 DEF LandOnArriver, Rest, Cooldown, TypeInv, TypeOK,
                              ArbiterTypeOK
    <2>5. reports' \in Seq(ArrivalReport)
      <3>1. LandingReport(c, victim) \in ArrivalReport
        BY <1>2 DEF LandingReport, Report, ArrivalReport
      <3> QED BY <3>1, <1>5 DEF LandOnArriver, TypeInv, TypeOK, ArbiterTypeOK
    <2> QED BY <1>1, <1>3, <2>3, <2>4, <2>5
            DEF TypeInv, TypeOK, ArbiterTypeOK, JumpsTyped, PassIsPending, Crossings
  <1> QED BY <1>4, <1>5 DEF LandJump, Land

LEMMA DeliverTypeInv ==
    ASSUME TypeInv, DeliverReport
    PROVE  TypeInv'
  <1> DEFINE report == Head(reports)
             taken == report.captured
             lander == board.at[report.destination]
  <1>1. reports \in Seq(ArrivalReport) /\ reports # << >> /\ board \in BoardValue
    BY DEF DeliverReport, TypeInv, TypeOK, ArbiterTypeOK
  <1>2. report \in ArrivalReport /\ reports' \in Seq(ArrivalReport)
    BY <1>1 DEF DeliverReport
  <1>3. taken \in Piece \cup {NoPiece}
    BY <1>2 DEF ArrivalReport
  <1>4. \A kind \in Kind : CostOf(kind) \in Nat
    BY DEF CostOf, Kind
  <1>5. score' \in [Color -> Nat]
    <2>1. CASE taken = NoPiece
      BY <2>1 DEF DeliverReport, TypeInv, TypeOK
    <2>2. CASE taken # NoPiece
      <3>1. CostOf(board.kind[taken]) \in Nat
        BY <1>1, <1>3, <1>4, <2>2 DEF BoardValue
      <3>2. score' = [score EXCEPT ![OpponentOf(ColorOf(taken))] =
                        @ + CostOf(board.kind[taken])]
        BY <2>2 DEF DeliverReport
      <3>3. OpponentOf(ColorOf(taken)) \in Color
        BY DEF OpponentOf, Color
      <3> QED BY <3>1, <3>2, <3>3 DEF TypeInv, TypeOK
    <2> QED BY <2>1, <2>2
  <1>6. over' \in BOOLEAN
    BY DEF DeliverReport, TypeInv, TypeOK
  <1>7. board' \in BoardValue
    <2>1. \A p \in Piece : PromotedKind(board, p) \in Kind
      BY <1>1 DEF PromotedKind, Kind, BoardValue
    <2>2. lander \in Piece \cup {NoPiece}
      BY <1>1, <1>2 DEF ArrivalReport, BoardValue
    <2> QED BY <1>1, <2>1, <2>2 DEF DeliverReport, BoardValue
  <1>8. UNCHANGED <<active, airborne, resting, pass, logged>>
    BY DEF DeliverReport
  <1> QED BY <1>2, <1>5, <1>6, <1>7, <1>8
          DEF TypeInv, TypeOK, ArbiterTypeOK, PassIsPending, Crossings

LEMMA NextTypeInv == TypeInv /\ [Next]_vars => TypeInv'
  <1> SUFFICES ASSUME TypeInv, [Next]_vars PROVE TypeInv'
    OBVIOUS
  <1>1. CASE UNCHANGED vars
    BY <1>1 DEF vars, arbiterVars, TypeInv, TypeOK, ArbiterTypeOK, PassIsPending,
                Crossings
  <1>2. CASE Next
    BY <1>2, RequestMoveTypeInv, RequestJumpTypeInv, EndGameTypeInv, WaitTypeInv,
       ResolveTypeInv, LandTypeInv, DeliverTypeInv DEF Next, TickStep
  <1> QED BY <1>1, <1>2

(***************************************************************************)
(* Type correctness: every variable of a game keeps its type, whatever the *)
(* board, the pieces and the ticks.  In particular a pass never holds a    *)
(* motion that a capture has ended, and no clock runs below zero.          *)
(***************************************************************************)
THEOREM TypeCorrect == Spec => []TypeOK
  <1>1. Init => TypeInv
    BY InitTypeInv
  <1>2. TypeInv /\ [Next]_vars => TypeInv'
    BY NextTypeInv
  <1>3. TypeInv => TypeOK
    BY DEF TypeInv
  <1> QED BY <1>1, <1>2, <1>3, PTL DEF Spec

-----------------------------------------------------------------------------
\* What the rule of a piece offers is free or an enemy's.
LEMMA DestinationsAreFreeOrEnemy ==
    ASSUME NEW b \in BoardValue, NEW p \in Piece, NEW c \in LegalDestinations(b, p)
    PROVE  c \in Cells /\ (Empty(b, c) \/ Enemy(b, p, c))
  <1>1. ASSUME NEW directions, c \in Slide(b, p, directions)
        PROVE  c \in Cells /\ (Empty(b, c) \/ Enemy(b, p, c))
    BY <1>1 DEF Slide
  <1>2. ASSUME NEW offsets, c \in SingleSteps(b, p, offsets)
        PROVE  c \in Cells /\ (Empty(b, c) \/ Enemy(b, p, c))
    BY <1>2 DEF SingleSteps
  <1>3. ASSUME c \in PawnDestinations(b, p)
        PROVE  c \in Cells /\ (Empty(b, c) \/ Enemy(b, p, c))
    BY <1>3, Zenon DEF PawnDestinations
  <1>4. b.kind[p] \in Kind
    BY DEF BoardValue
  <1>5. \/ \E directions : c \in Slide(b, p, directions)
        \/ \E offsets : c \in SingleSteps(b, p, offsets)
        \/ c \in PawnDestinations(b, p)
    BY <1>4 DEF LegalDestinations, Kind
  <1> QED BY <1>1, <1>2, <1>3, <1>5

(***************************************************************************)
(* What a display may highlight is what the engine would accept at that    *)
(* moment, neither more nor less: legalDestinationsFor leaves out the      *)
(* checks of validateMove, and the rules of the pieces make up for them.   *)
(***************************************************************************)
THEOREM HighlightsAreAccepted == Spec => []HighlightsAreTheAcceptedMoves
  <1>1. TypeOK => HighlightsAreTheAcceptedMoves
    <2> SUFFICES ASSUME TypeOK, NEW source \in Cells
                 PROVE  LegalDestinationsFor(source) =
                           {destination \in Cells : AcceptsMove(source, destination)}
      BY DEF HighlightsAreTheAcceptedMoves
    <2>1. board \in BoardValue
      BY DEF TypeOK, ArbiterTypeOK
    <2>2. CASE over \/ ~Occupied(board, source) \/ ~Available(board.at[source])
      BY <2>2 DEF LegalDestinationsFor, AcceptsMove, ValidMove
    <2>3. CASE ~(over \/ ~Occupied(board, source) \/ ~Available(board.at[source]))
      <3> DEFINE p == board.at[source]
      <3>1. p \in Piece
        BY <2>1, <2>3 DEF BoardValue, Occupied
      <3>2. ASSUME NEW c \in LegalDestinations(board, p)
            PROVE  c \in Cells /\ AcceptsMove(source, c)
        BY <2>1, <2>3, <3>1, <3>2, DestinationsAreFreeOrEnemy
           DEF AcceptsMove, ValidMove, Empty, Enemy, Occupied
      <3>3. LegalDestinationsFor(source) = LegalDestinations(board, p)
        BY <2>3 DEF LegalDestinationsFor
      <3>4. \A c \in Cells : AcceptsMove(source, c) => c \in LegalDestinations(board, p)
        BY DEF AcceptsMove, ValidMove
      <3> QED BY <3>2, <3>3, <3>4
    <2> QED BY <2>2, <2>3
  <1> QED BY TypeCorrect, <1>1, PTL

-----------------------------------------------------------------------------
(***************************************************************************)
(* The grid and the pieces stay in step (BoardInSync), and every motion    *)
(* has its piece (EveryMotionHasItsPiece), for boards of any size, any     *)
(* pieces in any starting position and ticks of any length.                *)
(*                                                                         *)
(* BoardInSync relates the board to the jumps, and most actions change it  *)
(* by several methods of Board in a row.  So the lemmas below speak of a   *)
(* board b and jumps a, and say what one method preserves.                 *)
(***************************************************************************)

LiftedBy(a, p) == \E j \in DOMAIN a : a[j].lifted = p

OffBoardAgrees(b, a) ==
    \A p \in Piece : b.state[p] = "Captured" \/ LiftedBy(a, p) => ~OnBoard(b, p)

LiftedIsAirborne(b, a) ==
    \A p \in Piece : LiftedBy(a, p) => b.state[p] = "Airborne"

LiftedOnce(a) ==
    \A i, j \in DOMAIN a :
        a[i].lifted = a[j].lifted /\ a[i].lifted # NoPiece => i = j

InSync(b, a) ==
    /\ CellsAgree(b)
    /\ OffBoardAgrees(b, a)
    /\ LiftedIsAirborne(b, a)
    /\ LiftedOnce(a)

LEMMA InSyncIsBoardInSync ==
    /\ BoardInSync <=> InSync(board, airborne)
    /\ BoardInSync' <=> InSync(board', airborne')
  BY DEF BoardInSync, InSync, IsLifted, IsCaptured, LiftedBy, OffBoardAgrees,
         LiftedIsAirborne, LiftedOnce, CellsAgree, OnBoard, Occupied

\* A piece on the board is not lifted: its state may change freely, as long as
\* it is not called captured where it stands.
LEMMA SetStateInSync ==
    ASSUME NEW b \in BoardValue, NEW a, InSync(b, a),
           NEW c \in Cells, Occupied(b, c), NEW s \in State, s # "Captured"
    PROVE  InSync(SetPieceState(b, c, s), a)
  <1> DEFINE p == b.at[c]
             n == SetState(b, p, s)
  <1>1. p \in Piece /\ OnBoard(b, p)
    BY DEF BoardValue, Occupied, OnBoard
  <1>2. ~LiftedBy(a, p)
    BY <1>1 DEF InSync, OffBoardAgrees
  <1>3. /\ n.at = b.at
        /\ \A q \in Piece : n.state[q] = IF q = p THEN s ELSE b.state[q]
    BY DEF SetState, BoardValue
  <1>4. CellsAgree(n)
    BY SetStateAgrees DEF InSync
  <1>5. OffBoardAgrees(n, a)
    BY <1>2, <1>3 DEF InSync, OffBoardAgrees, OnBoard
  <1>6. LiftedIsAirborne(n, a)
    BY <1>2, <1>3 DEF InSync, LiftedIsAirborne
  <1> QED BY <1>4, <1>5, <1>6 DEF InSync, SetPieceState

\* The capture of the piece on a cell (captureAt, landAirborne).
LEMMA CaptureInSync ==
    ASSUME NEW b \in BoardValue, NEW a, InSync(b, a),
           NEW c \in Cells, Occupied(b, c)
    PROVE  InSync(RemovePiece(SetState(b, b.at[c], "Captured"), c), a)
  <1> DEFINE p == b.at[c]
             m == SetState(b, p, "Captured")
             n == RemovePiece(m, c)
  <1>1. p \in Piece /\ OnBoard(b, p)
    BY DEF BoardValue, Occupied, OnBoard
  <1>2. ~LiftedBy(a, p)
    BY <1>1 DEF InSync, OffBoardAgrees
  <1>3. /\ \A d \in Cells : n.at[d] = IF d = c THEN NoPiece ELSE b.at[d]
        /\ \A q \in Piece : n.state[q] = IF q = p THEN "Captured" ELSE b.state[q]
    BY DEF RemovePiece, SetState, BoardValue
  <1>4. m \in BoardValue
    BY SetStateType DEF State
  <1>5. CellsAgree(n)
    BY <1>4, SetStateAgrees, RemovePieceAgrees DEF InSync
  <1>6. ~OnBoard(n, p)
    BY <1>1, <1>3, PieceOnOneCell, NoPieceIsNoPiece DEF InSync, OnBoard
  <1>7. OffBoardAgrees(n, a)
    BY <1>3, <1>6, NoPieceIsNoPiece DEF InSync, OffBoardAgrees, OnBoard
  <1>8. LiftedIsAirborne(n, a)
    BY <1>2, <1>3 DEF InSync, LiftedIsAirborne
  <1> QED BY <1>5, <1>7, <1>8 DEF InSync

LEMMA MovePieceInSync ==
    ASSUME NEW b \in BoardValue, NEW a, InSync(b, a),
           NEW from \in Cells, NEW to \in Cells,
           Occupied(b, from), ~Occupied(b, to)
    PROVE  InSync(MovePiece(b, from, to), a)
  <1> DEFINE n == MovePiece(b, from, to)
  <1>1. /\ n.state = b.state
        /\ n.at = [b.at EXCEPT ![to] = b.at[from], ![from] = NoPiece]
    BY DEF MovePiece, BoardValue
  <1>2. \A q \in Piece : OnBoard(n, q) => OnBoard(b, q)
    BY <1>1, NoPieceIsNoPiece DEF OnBoard, BoardValue
  <1>3. CellsAgree(n)
    BY MovePieceAgrees DEF InSync
  <1> QED BY <1>1, <1>2, <1>3 DEF InSync, OffBoardAgrees, LiftedIsAirborne

\* Only what the jumps have lifted matters.
LEMMA SameLiftsInSync ==
    ASSUME NEW b, NEW a, InSync(b, a), NEW e, DOMAIN e \subseteq DOMAIN a,
           \A j \in DOMAIN e : e[j].lifted = a[j].lifted
    PROVE  InSync(b, e)
  <1>1. \A p \in Piece : LiftedBy(e, p) => LiftedBy(a, p)
    BY DEF LiftedBy
  <1>2. LiftedOnce(e)
    BY DEF InSync, LiftedOnce
  <1> QED BY <1>1, <1>2 DEF InSync, OffBoardAgrees, LiftedIsAirborne

\* A jumper is lifted off its cell by at most one jump (yieldToAirborne).
LEMMA LiftInSync ==
    ASSUME NEW b \in BoardValue, NEW a, InSync(b, a),
           NEW c \in Cells, Occupied(b, c), b.state[b.at[c]] = "Airborne",
           NEW e, DOMAIN e = DOMAIN a,
           \A j \in DOMAIN a : e[j].lifted \in {a[j].lifted, b.at[c]},
           \A i, j \in DOMAIN a :
              e[i].lifted # a[i].lifted /\ e[j].lifted # a[j].lifted => i = j
    PROVE  InSync(RemovePiece(b, c), e)
  <1> DEFINE p == b.at[c]
             n == RemovePiece(b, c)
  <1>1. p \in Piece /\ OnBoard(b, p)
    BY DEF BoardValue, Occupied, OnBoard
  <1>2. ~LiftedBy(a, p)
    BY <1>1 DEF InSync, OffBoardAgrees
  <1>3. /\ \A d \in Cells : n.at[d] = IF d = c THEN NoPiece ELSE b.at[d]
        /\ n.state = b.state
    BY DEF RemovePiece, BoardValue
  <1>4. CellsAgree(n)
    BY RemovePieceAgrees DEF InSync
  <1>5. \A q \in Piece : LiftedBy(e, q) => LiftedBy(a, q) \/ q = p
    BY DEF LiftedBy
  <1>6. ~OnBoard(n, p)
    BY <1>1, <1>3, PieceOnOneCell, NoPieceIsNoPiece DEF InSync, OnBoard
  <1>7. \A q \in Piece : OnBoard(n, q) => OnBoard(b, q)
    BY <1>3, NoPieceIsNoPiece DEF OnBoard
  <1>8. OffBoardAgrees(n, e)
    BY <1>3, <1>5, <1>6, <1>7 DEF InSync, OffBoardAgrees
  <1>9. LiftedIsAirborne(n, e)
    BY <1>3, <1>5 DEF InSync, LiftedIsAirborne
  <1>10. LiftedOnce(e)
    <2>1. \A j \in DOMAIN a : a[j].lifted # p
      BY <1>2 DEF LiftedBy
    <2> QED BY <2>1 DEF InSync, LiftedOnce
  <1> QED BY <1>4, <1>8, <1>9, <1>10 DEF InSync

\* A lifted piece comes down on a free cell and its jump is over.
LEMMA PlaceInSync ==
    ASSUME NEW b \in BoardValue, NEW a, InSync(b, a), NEW j \in DOMAIN a,
           NEW p \in Piece, a[j].lifted = p,
           NEW c \in Cells, ~Occupied(b, c)
    PROVE  InSync(PlacePiece(b, p, c), Without(a, {j}))
  <1> DEFINE n == PlacePiece(b, p, c)
             e == Without(a, {j})
  <1>1. LiftedBy(a, p) /\ b.state[p] = "Airborne" /\ ~OnBoard(b, p)
    BY DEF LiftedBy, InSync, LiftedIsAirborne, OffBoardAgrees
  <1>2. /\ \A d \in Cells : n.at[d] = IF d = c THEN p ELSE b.at[d]
        /\ n.state = b.state
    BY DEF PlacePiece, BoardValue
  <1>3. CellsAgree(n)
    BY <1>1, PlacePieceAgrees DEF InSync
  <1>4. DOMAIN e = DOMAIN a \ {j} /\ \A i \in DOMAIN e : e[i] = a[i]
    BY DEF Without
  <1>5. ~LiftedBy(e, p)
    BY <1>4, NoPieceIsNoPiece DEF LiftedBy, InSync, LiftedOnce
  <1>6. \A q \in Piece : LiftedBy(e, q) => LiftedBy(a, q) /\ q # p
    BY <1>4, <1>5 DEF LiftedBy
  <1>7. \A q \in Piece : OnBoard(n, q) => OnBoard(b, q) \/ q = p
    BY <1>2 DEF OnBoard
  <1>8. OffBoardAgrees(n, e)
    BY <1>1, <1>2, <1>6, <1>7 DEF InSync, OffBoardAgrees
  <1>9. LiftedIsAirborne(n, e)
    BY <1>2, <1>6 DEF InSync, LiftedIsAirborne
  <1>10. LiftedOnce(e)
    BY <1>4 DEF InSync, LiftedOnce
  <1> QED BY <1>3, <1>8, <1>9, <1>10 DEF InSync

-----------------------------------------------------------------------------
LEMMA InitInSync == Init => InSync(board, airborne)
  <1> SUFFICES ASSUME Init PROVE InSync(board, airborne)
    OBVIOUS
  <1>1. /\ DOMAIN airborne = {} /\ board = StartBoard
        /\ \A p \in Piece : board.state[p] = "Idle"
    BY DEF Init, StartBoard
  <1>2. CellsAgree(board)
    <2> SUFFICES ASSUME NEW c \in Cells, Occupied(board, c)
                 PROVE  board.cell[board.at[c]] = c
      BY DEF CellsAgree
    <2>1. board.cell = StartCell
      BY <1>1 DEF StartBoard
    <2>2. board.at[c] = IF \E p \in Piece : StartCell[p] = c
                        THEN CHOOSE p \in Piece : StartCell[p] = c ELSE NoPiece
      BY <1>1 DEF StartBoard
    <2>3. PICK p \in Piece : StartCell[p] = c
      BY <2>2 DEF Occupied
    <2>4. StartCell[CHOOSE q \in Piece : StartCell[q] = c] = c
      BY <2>3
    <2> QED BY <2>1, <2>2, <2>3, <2>4
  <1> QED BY <1>1, <1>2
          DEF InSync, OffBoardAgrees, LiftedIsAirborne, LiftedOnce, LiftedBy

SyncInv == TypeInv /\ BoardInSync

LEMMA SyncFacts ==
    ASSUME SyncInv
    PROVE  /\ board \in BoardValue /\ InSync(board, airborne)
           /\ TypeInv /\ JumpsTyped(airborne)
  BY InSyncIsBoardInSync, MotionsOfTypeOK DEF SyncInv, TypeInv, TypeOK, ArbiterTypeOK

LEMMA RequestMoveInSync ==
    ASSUME SyncInv, NEW source \in Cells, NEW destination \in Cells,
           RequestMove(source, destination)
    PROVE  InSync(board', airborne')
  <1>1. Occupied(board, source) /\ UNCHANGED airborne
    BY DEF RequestMove, AcceptsMove, ValidMove, StartMotion
  <1>2. board' = board \/ board' = SetPieceState(board, source, "Moving")
    BY DEF RequestMove, StartMotion
  <1> QED BY <1>1, <1>2, SyncFacts, SetStateInSync DEF State

LEMMA RequestJumpInSync ==
    ASSUME SyncInv, NEW c \in Cells, RequestJump(c)
    PROVE  InSync(board', airborne')
  <1>1. Occupied(board, c) /\ board.state[board.at[c]] = "Idle"
    BY DEF RequestJump, AcceptsJump, Available
  <1> DEFINE jump == [cell |-> c, elapsed |-> 0, lifted |-> NoPiece]
  <1>2. PICK t \in Tickets : /\ IsNextTicket(t, airborne)
                             /\ airborne' = Extended(airborne, t, jump)
                             /\ board' = SetPieceState(board, c, "Airborne")
    BY <1>1 DEF RequestJump, StartJump
  <1>3. InSync(board', airborne)
    BY <1>1, <1>2, SyncFacts, SetStateInSync DEF State
  <1>4. /\ DOMAIN airborne' = DOMAIN airborne \cup {t}
        /\ airborne'[t].lifted = NoPiece
        /\ \A j \in DOMAIN airborne \ {t} : airborne'[j] = airborne[j]
    BY <1>2 DEF Extended
  <1>5. \A p \in Piece : LiftedBy(airborne', p) => LiftedBy(airborne, p)
    BY <1>4, NoPieceIsNoPiece DEF LiftedBy
  <1>6. LiftedOnce(airborne')
    BY <1>3, <1>4 DEF InSync, LiftedOnce
  <1> QED BY <1>3, <1>5, <1>6 DEF InSync, OffBoardAgrees, LiftedIsAirborne

\* Only the end of a rest changes a piece's state in the clocks of a tick.
LEMMA WaitInSync ==
    ASSUME SyncInv, NEW delta \in Deltas, Wait(delta)
    PROVE  InSync(board', airborne')
  <1>1. /\ board'.at = board.at /\ board'.cell = board.cell
        /\ \A p \in Piece :
              \/ board'.state[p] = board.state[p]
              \/ board.state[p] = "Resting" /\ board'.state[p] = "Idle"
    BY SyncFacts DEF Wait, StartTick, RestIsOver, BoardValue
  <1>2. /\ DOMAIN airborne' = DOMAIN airborne
        /\ \A j \in DOMAIN airborne : airborne'[j].lifted = airborne[j].lifted
    BY SyncFacts DEF Wait, StartTick, JumpsTyped, Jump
  <1>3. InSync(board, airborne')
    BY <1>2, SyncFacts, SameLiftsInSync
  <1>4. CellsAgree(board')
    BY <1>1, <1>3 DEF InSync, CellsAgree, Occupied
  <1>5. OffBoardAgrees(board', airborne')
    BY <1>1, <1>3 DEF InSync, OffBoardAgrees, OnBoard
  <1>6. LiftedIsAirborne(board', airborne')
    BY <1>1, <1>3 DEF InSync, LiftedIsAirborne
  <1> QED BY <1>3, <1>4, <1>5, <1>6 DEF InSync

\* Walking onto a free cell, and resting there if the journey is over.
LEMMA WalkInInSync ==
    ASSUME NEW t, NEW b \in BoardValue, NEW gone, NEW victim,
           WalkIn(t, b, gone, victim), InSync(b, airborne),
           CurrentCell(active[t]) \in Cells, NextCell(active[t]) \in Cells,
           Occupied(b, CurrentCell(active[t])), ~Occupied(b, NextCell(active[t]))
    PROVE  InSync(board', airborne')
  <1> DEFINE from == CurrentCell(active[t])
             to == NextCell(active[t])
             moved == MovePiece(b, from, to)
  <1>1. InSync(moved, airborne) /\ moved \in BoardValue
    BY MovePieceInSync, MovePieceType
  <1>2. Occupied(moved, to)
    BY DEF MovePiece, BoardValue, Occupied
  <1>3. board' = moved \/ board' = SetPieceState(moved, to, "Resting")
    BY DEF WalkIn, Finish
  <1>4. UNCHANGED airborne
    BY DEF WalkIn
  <1> HIDE DEF moved
  <1> QED BY <1>1, <1>2, <1>3, <1>4, SetStateInSync DEF State

LEMMA ResolveInSync ==
    ASSUME SyncInv, NEW t \in Tickets, Resolve(t)
    PROVE  InSync(board', airborne')
  <1> DEFINE from == CurrentCell(active[t])
             to == NextCell(active[t])
  <1>0. board \in BoardValue /\ InSync(board, airborne) /\ TypeInv
    BY SyncFacts
  <1>1. CASE EnterFreeCell(t)
    <2>1. /\ Crosses(t, "Free") /\ WalkIn(t, board, {}, NoPiece)
          /\ from \in Cells /\ to \in Cells
      BY <1>0, <1>1, CrossingFacts DEF EnterFreeCell
    <2>2. Occupied(board, from) /\ ~Occupied(board, to)
      BY <2>1 DEF Crosses, EntryOutcome, Mover, Occupant, Occupied
    <2> QED BY <1>0, <2>1, <2>2, WalkInInSync
  <1>2. CASE CaptureOccupant(t)
    <2> DEFINE b == RemovePiece(SetState(board, board.at[to], "Captured"), to)
               gone == MotionsAt(to)
               victim == Occupant(t)
    <2>1. /\ Crosses(t, "Capture") /\ WalkIn(t, b, gone, victim)
          /\ from \in Cells /\ to \in Cells
      BY <1>0, <1>2, CrossingFacts DEF CaptureOccupant, Occupant
    <2>2. Occupied(board, from) /\ Occupied(board, to) /\ from # to
      BY <2>1 DEF Crosses, EntryOutcome, Mover, Occupant, Occupied
    <2>3. InSync(b, airborne) /\ b \in BoardValue
      BY <1>0, <2>1, <2>2, CaptureInSync, SetStateType, RemovePieceType DEF State
    <2>4. Occupied(b, from) /\ ~Occupied(b, to)
      BY <1>0, <2>1, <2>2 DEF RemovePiece, SetState, BoardValue, Occupied
    <2> HIDE DEF b, gone, victim
    <2> QED BY <2>1, <2>3, <2>4, WalkInInSync
  <1>3. CASE StopBeforeFriend(t)
    <2>1. /\ board' = SetPieceState(board, from, "Resting")
          /\ UNCHANGED airborne /\ from \in Cells /\ Occupied(board, from)
      BY <1>0, <1>3, CrossingFacts
         DEF StopBeforeFriend, Finish, Crosses, Mover, Occupied
    <2> QED BY <1>0, <2>1, SetStateInSync DEF State
  <1>4. CASE YieldToAirborne(t)
    <2> DEFINE lifted == RemovePiece(board, to)
               moved == MovePiece(lifted, from, to)
    <2>1. /\ Crosses(t, "CapturedByAirborne") /\ from \in Cells /\ to \in Cells
          /\ board' = SetPieceState(moved, to, "Resting")
      BY <1>0, <1>4, CrossingFacts DEF YieldToAirborne, Finish
    <2>2. /\ Occupied(board, from) /\ Occupied(board, to) /\ from # to
          /\ board.state[board.at[to]] = "Airborne"
      BY <2>1 DEF Crosses, EntryOutcome, Mover, Occupant, Occupied
    <2>3. \A i, j \in JumpAt(to) : i = j
      <3>1. DOMAIN airborne \subseteq Nat
        BY <1>0, TicketsAreNaturals DEF TypeInv, TypeOK, ArbiterTypeOK
      <3> QED BY <3>1 DEF JumpAt
    <2>4. /\ DOMAIN airborne' = DOMAIN airborne
          /\ \A j \in DOMAIN airborne :
                airborne'[j].lifted = IF j \in JumpAt(to) THEN board.at[to]
                                      ELSE airborne[j].lifted
      BY <1>4, SyncFacts DEF YieldToAirborne, Occupant, JumpsTyped, Jump
    <2>5. InSync(lifted, airborne') /\ lifted \in BoardValue
      <3>1. /\ \A j \in DOMAIN airborne :
                  airborne'[j].lifted \in {airborne[j].lifted, board.at[to]}
            /\ \A i, j \in DOMAIN airborne :
                  /\ airborne'[i].lifted # airborne[i].lifted
                  /\ airborne'[j].lifted # airborne[j].lifted
                  => i = j
        BY <2>3, <2>4
      <3> QED BY <1>0, <2>1, <2>2, <2>4, <3>1, LiftInSync, RemovePieceType
    <2>6. Occupied(lifted, from) /\ ~Occupied(lifted, to)
      BY <1>0, <2>1, <2>2 DEF RemovePiece, BoardValue, Occupied
    <2> HIDE DEF lifted
    <2>7. InSync(moved, airborne') /\ moved \in BoardValue
      BY <2>1, <2>5, <2>6, MovePieceInSync, MovePieceType
    <2>8. Occupied(moved, to)
      BY <2>1, <2>2, <2>5, <2>6 DEF MovePiece, BoardValue, Occupied
    <2> HIDE DEF moved
    <2> QED BY <2>1, <2>7, <2>8, SetStateInSync DEF State
  <1> QED BY <1>1, <1>2, <1>3, <1>4 DEF Resolve, ResolveCrossing

LEMMA LandInSync ==
    ASSUME SyncInv, NEW j \in Tickets, LandJump(j)
    PROVE  InSync(board', airborne')
  <1> DEFINE c == airborne[j].cell
             jumper == airborne[j].lifted
  <1>1. /\ j \in DOMAIN airborne /\ c \in Cells /\ jumper \in Piece \cup {NoPiece}
        /\ airborne' = Without(airborne, {j})
        /\ board \in BoardValue /\ InSync(board, airborne)
    BY SyncFacts DEF LandJump, Land, LandAtRest, LandOnArriver, IsNextLanding,
                     Landings, JumpsTyped, Jump
  <1>2. CASE LandAtRest(j)
    <2>1. InSync(board', airborne)
      BY <1>1, <1>2, SetStateInSync DEF LandAtRest, State
    <2> QED BY <1>1, <2>1, SameLiftsInSync DEF Without
  <1>3. CASE LandOnArriver(j)
    <2> DEFINE victim == board.at[c]
               cleared == IF victim = NoPiece THEN board
                          ELSE RemovePiece(SetState(board, victim, "Captured"), c)
               placed == PlacePiece(cleared, jumper, c)
    <2>1. jumper \in Piece /\ board' = SetPieceState(placed, c, "Resting")
      BY <1>1, <1>3 DEF LandOnArriver
    <2>2. InSync(cleared, airborne) /\ cleared \in BoardValue
      BY <1>1, CaptureInSync, SetStateType, RemovePieceType DEF Occupied, State
    <2>3. ~Occupied(cleared, c)
      BY <1>1 DEF RemovePiece, SetState, BoardValue, Occupied
    <2> HIDE DEF cleared
    <2>4. InSync(placed, Without(airborne, {j})) /\ placed \in BoardValue
      BY <1>1, <2>1, <2>2, <2>3, PlaceInSync, PlacePieceType
    <2>5. Occupied(placed, c)
      BY <1>1, <2>1, <2>2, NoPieceIsNoPiece DEF PlacePiece, BoardValue, Occupied
    <2> HIDE DEF placed
    <2> QED BY <1>1, <2>1, <2>4, <2>5, SetStateInSync DEF State
  <1> QED BY <1>2, <1>3 DEF LandJump, Land

LEMMA DeliverInSync ==
    ASSUME SyncInv, DeliverReport
    PROVE  InSync(board', airborne')
  <1>1. /\ board'.at = board.at /\ board'.cell = board.cell
        /\ board'.state = board.state /\ UNCHANGED airborne
    BY SyncFacts DEF DeliverReport, BoardValue
  <1>2. CellsAgree(board')
    BY <1>1, SyncFacts DEF InSync, CellsAgree, Occupied
  <1>3. OffBoardAgrees(board', airborne') /\ LiftedIsAirborne(board', airborne')
    BY <1>1, SyncFacts DEF InSync, OffBoardAgrees, OnBoard, LiftedIsAirborne
  <1> QED BY <1>1, <1>2, <1>3, SyncFacts DEF InSync

LEMMA NextSyncInv == SyncInv /\ [Next]_vars => SyncInv'
  <1> SUFFICES ASSUME SyncInv, [Next]_vars PROVE SyncInv'
    OBVIOUS
  <1>1. TypeInv'
    BY NextTypeInv DEF SyncInv
  <1>2. InSync(board', airborne')
    <2>1. CASE UNCHANGED vars
      BY <2>1, SyncFacts DEF vars, arbiterVars
    <2>2. CASE EndGame
      BY <2>2, SyncFacts DEF EndGame, arbiterVars
    <2>3. CASE Next /\ ~EndGame
      BY <2>3, RequestMoveInSync, RequestJumpInSync, WaitInSync, ResolveInSync,
         LandInSync, DeliverInSync DEF Next, TickStep
    <2> QED BY <2>1, <2>2, <2>3
  <1> QED BY <1>1, <1>2, InSyncIsBoardInSync DEF SyncInv

(***************************************************************************)
(* The grid and the pieces' own cells agree after every crossing, landing  *)
(* and command, captured and lifted pieces are off the board, and no piece *)
(* is lifted twice -- although every one of these steps is two to five     *)
(* calls that each change only one side.                                   *)
(***************************************************************************)
THEOREM BoardStaysInSync == Spec => []BoardInSync
  <1>1. Init => SyncInv
    BY InitTypeInv, InitInSync, InSyncIsBoardInSync DEF SyncInv
  <1>2. SyncInv /\ [Next]_vars => SyncInv'
    BY NextSyncInv
  <1>3. SyncInv => BoardInSync
    BY DEF SyncInv
  <1> QED BY <1>1, <1>2, <1>3, PTL DEF Spec

-----------------------------------------------------------------------------
(***************************************************************************)
(* Every motion has its piece and its cell to itself.                      *)
(*                                                                         *)
(* The two conjuncts of EveryMotionHasItsPiece need each other.  A piece   *)
(* that walks off leaves an empty cell, and no other motion is on it only  *)
(* because no two share a cell; a motion walks onto a free cell, on which  *)
(* no other motion can be because a motion's cell is occupied.             *)
(***************************************************************************)
OnOccupiedCells(b, a) == \A t \in DOMAIN a : Occupied(b, CurrentCell(a[t]))

OnCellsOfTheirOwn(a) ==
    \A s, t \in DOMAIN a : CurrentCell(a[s]) = CurrentCell(a[t]) => s = t

InOrder(b, a) == OnOccupiedCells(b, a) /\ OnCellsOfTheirOwn(a)

MotionInv == TypeInv /\ EveryMotionHasItsPiece

LEMMA InOrderIsEveryMotionHasItsPiece ==
    /\ EveryMotionHasItsPiece <=> InOrder(board, active)
    /\ EveryMotionHasItsPiece' <=> InOrder(board', active')
  BY DEF EveryMotionHasItsPiece, InOrder, OnOccupiedCells, OnCellsOfTheirOwn,
         CurrentCell, Occupied

LEMMA MotionFacts ==
    ASSUME MotionInv
    PROVE  /\ board \in BoardValue /\ TypeInv /\ InOrder(board, active)
           /\ \A t \in DOMAIN active : CurrentCell(active[t]) \in Cells
  <1>1. board \in BoardValue /\ MotionsTyped(active)
    BY MotionsOfTypeOK DEF MotionInv, TypeInv, TypeOK, ArbiterTypeOK
  <1>2. \A t \in DOMAIN active : CurrentCell(active[t]) \in Cells
    BY <1>1, CurrentCellOnBoard DEF MotionsTyped
  <1> QED BY <1>1, <1>2, InOrderIsEveryMotionHasItsPiece DEF MotionInv

\* A piece's state and the pieces on other cells do not matter to a motion.
LEMMA OccupiedCellsSuffice ==
    ASSUME NEW b, NEW a, InOrder(b, a), NEW n,
           \A t \in DOMAIN a : Occupied(b, CurrentCell(a[t]))
                               => Occupied(n, CurrentCell(a[t]))
    PROVE  InOrder(n, a)
  BY DEF InOrder, OnOccupiedCells

LEMMA SetPieceStateOccupies ==
    ASSUME NEW b \in BoardValue, NEW c, NEW s, NEW d
    PROVE  Occupied(SetPieceState(b, c, s), d) <=> Occupied(b, d)
  BY DEF SetPieceState, SetState, BoardValue, Occupied

\* Motions that end disturb no other.
LEMMA FewerMotionsInOrder ==
    ASSUME NEW b, NEW a, InOrder(b, a), NEW gone
    PROVE  InOrder(b, Without(a, gone))
  BY DEF InOrder, OnOccupiedCells, OnCellsOfTheirOwn, Without

-----------------------------------------------------------------------------
LEMMA RequestMoveInOrder ==
    ASSUME MotionInv, NEW source \in Cells, NEW destination \in Cells,
           RequestMove(source, destination)
    PROVE  InOrder(board', active')
  <1>1. CASE HasMotionFor(source)
    BY <1>1, MotionFacts DEF RequestMove, StartMotion
  <1>2. CASE ~HasMotionFor(source)
    <2> DEFINE m == NewMotion(source, destination)
    <2>1. PICK t \in Tickets : /\ IsNextTicket(t, active)
                               /\ active' = Extended(active, t, m)
                               /\ board' = SetPieceState(board, source, "Moving")
      BY <1>2 DEF RequestMove, StartMotion
    <2>2. CurrentCell(m) = source /\ Occupied(board, source)
      BY NewMotionTyped DEF RequestMove, AcceptsMove, ValidMove
    <2>3. /\ DOMAIN active' = DOMAIN active \cup {t}
          /\ active'[t] = m
          /\ \A u \in DOMAIN active \ {t} : active'[u] = active[u]
      BY <2>1 DEF Extended
    <2>4. \A u \in DOMAIN active : CurrentCell(active[u]) # source
      BY <1>2 DEF HasMotionFor
    <2> HIDE DEF m
    <2>5. InOrder(board, active')
      BY <2>2, <2>3, <2>4, MotionFacts
         DEF InOrder, OnOccupiedCells, OnCellsOfTheirOwn
    <2> QED BY <2>1, <2>5, MotionFacts, OccupiedCellsSuffice, SetPieceStateOccupies
  <1> QED BY <1>1, <1>2

LEMMA RequestJumpInOrder ==
    ASSUME MotionInv, NEW c \in Cells, RequestJump(c)
    PROVE  InOrder(board', active')
  <1>1. /\ UNCHANGED active
        /\ board' = board \/ board' = SetPieceState(board, c, "Airborne")
    BY DEF RequestJump, StartJump
  <1> QED BY <1>1, MotionFacts, OccupiedCellsSuffice, SetPieceStateOccupies

LEMMA WaitInOrder ==
    ASSUME MotionInv, NEW delta \in Deltas, Wait(delta)
    PROVE  InOrder(board', active')
  <1>1. board'.at = board.at
    BY MotionFacts DEF Wait, StartTick, BoardValue
  <1>2. /\ DOMAIN active' = DOMAIN active
        /\ \A t \in DOMAIN active : CurrentCell(active'[t]) = CurrentCell(active[t])
    <2>1. \A t \in DOMAIN active : active[t] \in Motion
      BY MotionFacts DEF TypeInv, TypeOK, ArbiterTypeOK
    <2> QED BY <2>1 DEF Wait, StartTick, Motion, CurrentCell
  <1> QED BY <1>1, <1>2, MotionFacts
          DEF InOrder, OnOccupiedCells, OnCellsOfTheirOwn, Occupied

\* The journey of t ends on its present cell, or on one no other motion is on.
LEMMA FinishInOrder ==
    ASSUME NEW t, NEW b \in BoardValue, NEW c, NEW gone, NEW victim,
           Finish(t, b, c, gone, victim),
           InOrder(b, Without(active, gone \cup {t}))
    PROVE  InOrder(board', active')
  <1>1. /\ board' = SetPieceState(b, c, "Resting")
        /\ active' = Without(active, gone \cup {t})
    BY DEF Finish
  <1> QED BY <1>1, OccupiedCellsSuffice, SetPieceStateOccupies

(***************************************************************************)
(* Walking in: b is the board with the next cell of t free and otherwise   *)
(* as it was, and the motions that were on that cell are gone.             *)
(***************************************************************************)
LEMMA WalkInInOrder ==
    ASSUME MotionInv, NEW t \in Tickets, NEW outcome, Crosses(t, outcome),
           NEW b \in BoardValue, NEW gone, NEW victim,
           WalkIn(t, b, gone, victim), t \notin gone,
           CurrentCell(active[t]) # NextCell(active[t]),
           \A c \in Cells \ {NextCell(active[t])} : b.at[c] = board.at[c],
           \A u \in DOMAIN active :
              CurrentCell(active[u]) = NextCell(active[t]) => u \in gone
    PROVE  InOrder(board', active')
  <1> DEFINE from == CurrentCell(active[t])
             to == NextCell(active[t])
             stepped == CompleteStep(active[t])
             moved == MovePiece(b, from, to)
             others == Without(active, gone \cup {t})
  <1>1. /\ t \in DOMAIN active /\ from \in Cells /\ to \in Cells
        /\ CurrentCell(stepped) = to
    BY CrossingFacts, MotionFacts
  <1>2. /\ moved \in BoardValue
        /\ \A c \in Cells : moved.at[c] = IF c = from THEN NoPiece
                                          ELSE IF c = to THEN board.at[from]
                                          ELSE board.at[c]
    <2>1. moved \in BoardValue
      BY <1>1, MovePieceType
    <2>2. moved.at = [b.at EXCEPT ![to] = b.at[from], ![from] = NoPiece]
      BY DEF MovePiece, BoardValue
    <2>3. b.at \in [Cells -> Piece \cup {NoPiece}]
      BY DEF BoardValue
    <2> HIDE DEF moved
    <2> QED BY <1>1, <2>1, <2>2, <2>3
  <1>3. Occupied(moved, to)
    BY <1>1, <1>2, MotionFacts DEF InOrder, OnOccupiedCells, Occupied
  <1>4. \A u \in DOMAIN others : /\ u \in DOMAIN active /\ others[u] = active[u]
                                 /\ CurrentCell(active[u]) \notin {from, to}
                                 /\ CurrentCell(active[u]) \in Cells
    BY <1>1, MotionFacts DEF Without, InOrder, OnCellsOfTheirOwn
  <1>5. InOrder(moved, others)
    BY <1>2, <1>4, MotionFacts
       DEF InOrder, OnOccupiedCells, OnCellsOfTheirOwn, Occupied
  <1>6. CASE IsComplete(stepped)
    <2>1. Finish(t, moved, to, gone, victim)
      BY <1>6 DEF WalkIn
    <2> QED BY <1>2, <1>5, <2>1, FinishInOrder
  <1>7. CASE ~IsComplete(stepped)
    <2>1. /\ board' = moved
          /\ active' = Without([active EXCEPT ![t] = stepped], gone)
      BY <1>7 DEF WalkIn
    <2> HIDE DEF stepped, moved
    <2>2. /\ DOMAIN active' = DOMAIN others \cup {t}
          /\ active'[t] = stepped
          /\ \A u \in DOMAIN others : u # t /\ active'[u] = others[u]
      BY <1>1, <2>1 DEF Without
    <2>3. \A u \in DOMAIN others : CurrentCell(others[u]) # to
      BY <1>4
    <2> HIDE DEF others, from, to
    <2>4. OnOccupiedCells(moved, active')
      BY <1>1, <1>3, <1>5, <2>2 DEF InOrder, OnOccupiedCells
    <2>5. OnCellsOfTheirOwn(active')
      BY <1>1, <1>5, <2>2, <2>3 DEF InOrder, OnCellsOfTheirOwn
    <2> QED BY <2>1, <2>4, <2>5 DEF InOrder
  <1> QED BY <1>6, <1>7

LEMMA ResolveInOrder ==
    ASSUME MotionInv, NEW t \in Tickets, Resolve(t)
    PROVE  InOrder(board', active')
  <1> DEFINE from == CurrentCell(active[t])
             to == NextCell(active[t])
  <1>0. board \in BoardValue /\ TypeInv /\ InOrder(board, active)
    BY MotionFacts
  <1>1. CASE EnterFreeCell(t)
    <2>1. Crosses(t, "Free") /\ WalkIn(t, board, {}, NoPiece) /\ from # to
      BY <1>1, NextCellIsAnother DEF EnterFreeCell
    <2>2. \A u \in DOMAIN active : CurrentCell(active[u]) # to
      BY <1>0, <2>1 DEF Crosses, EntryOutcome, Occupant, InOrder, OnOccupiedCells,
                        Occupied
    <2> DEFINE gone == {}
               victim == NoPiece
    <2>3. WalkIn(t, board, gone, victim) /\ t \notin gone
      BY <2>1
    <2> HIDE DEF gone, victim
    <2> QED BY <1>0, <2>1, <2>2, <2>3, WalkInInOrder
  <1>2. CASE CaptureOccupant(t)
    <2> DEFINE b == RemovePiece(SetState(board, Occupant(t), "Captured"), to)
               gone == MotionsAt(to)
               victim == Occupant(t)
    <2>1. /\ Crosses(t, "Capture") /\ from # to
          /\ WalkIn(t, b, gone, victim)
      BY <1>2, NextCellIsAnother DEF CaptureOccupant
    <2>2. b \in BoardValue /\ \A c \in Cells \ {to} : b.at[c] = board.at[c]
      <3>1. b \in BoardValue
        BY <1>0, SetStateType, RemovePieceType DEF State
      <3>2. \A c \in Cells \ {to} : b.at[c] = board.at[c]
        BY <1>0 DEF RemovePiece, SetState, BoardValue
      <3> QED BY <3>1, <3>2
    <2>3. /\ t \notin gone
          /\ \A u \in DOMAIN active : CurrentCell(active[u]) = to => u \in gone
      BY <2>1 DEF MotionsAt
    <2> HIDE DEF b, gone, victim
    <2> QED BY <2>1, <2>2, <2>3, WalkInInOrder
  <1>3. CASE StopBeforeFriend(t)
    <2>1. Finish(t, board, from, {}, NoPiece)
      BY <1>3 DEF StopBeforeFriend
    <2> QED BY <1>0, <2>1, FewerMotionsInOrder, FinishInOrder
  <1>4. CASE YieldToAirborne(t)
    <2> DEFINE lifted == RemovePiece(board, to)
               moved == MovePiece(lifted, from, to)
               others == Without(active, {} \cup {t})
    <2>1. /\ Crosses(t, "CapturedByAirborne")
          /\ Finish(t, moved, to, {}, NoPiece)
          /\ from \in Cells /\ to \in Cells /\ t \in DOMAIN active
      BY <1>0, <1>4, CrossingFacts DEF YieldToAirborne
    <2>2. from # to
      BY <2>1 DEF Crosses, EntryOutcome, Mover, Occupant
    <2>3. lifted \in BoardValue /\ moved \in BoardValue
      BY <1>0, <2>1, RemovePieceType, MovePieceType
    <2>4. \A c \in Cells : moved.at[c] = IF c = from THEN NoPiece
                                         ELSE IF c = to THEN board.at[from]
                                         ELSE board.at[c]
      BY <1>0, <2>1, <2>2 DEF MovePiece, RemovePiece, BoardValue
    <2>5. Occupied(board, from)
      BY <1>0, <2>1 DEF InOrder, OnOccupiedCells
    <2>6. \A u \in DOMAIN others : /\ u \in DOMAIN active /\ others[u] = active[u]
                                   /\ CurrentCell(active[u]) # from
                                   /\ CurrentCell(active[u]) \in Cells
      BY <2>1, MotionFacts DEF Without, InOrder, OnCellsOfTheirOwn
    <2>7. InOrder(moved, others)
      BY <1>0, <2>4, <2>5, <2>6
         DEF InOrder, OnOccupiedCells, OnCellsOfTheirOwn, Occupied
    <2> HIDE DEF moved
    <2> QED BY <2>1, <2>3, <2>7, FinishInOrder
  <1> QED BY <1>1, <1>2, <1>3, <1>4 DEF Resolve, ResolveCrossing

\* A landing takes a piece and puts another on its cell: the cell stays
\* occupied, and the motions stay where they are.
LEMMA LandInOrder ==
    ASSUME MotionInv, NEW j \in Tickets, LandJump(j)
    PROVE  InOrder(board', active')
  <1> DEFINE c == airborne[j].cell
             jumper == airborne[j].lifted
  <1>1. /\ UNCHANGED active /\ board \in BoardValue /\ InOrder(board, active)
        /\ \A t \in DOMAIN active : CurrentCell(active[t]) \in Cells
    BY MotionFacts DEF LandJump, Land, LandAtRest, LandOnArriver
  <1>2. CASE LandAtRest(j)
    BY <1>1, <1>2, OccupiedCellsSuffice, SetPieceStateOccupies DEF LandAtRest
  <1>3. CASE LandOnArriver(j)
    <2> DEFINE victim == board.at[c]
               cleared == IF victim = NoPiece THEN board
                          ELSE RemovePiece(SetState(board, victim, "Captured"), c)
               placed == PlacePiece(cleared, jumper, c)
    <2>1. /\ board' = SetPieceState(placed, c, "Resting")
          /\ jumper \in Piece /\ c \in Cells
      BY <1>3, MotionFacts DEF LandOnArriver, IsNextLanding, Landings, TypeInv,
                               TypeOK, ArbiterTypeOK, Jump
    <2>2. cleared \in BoardValue /\ placed \in BoardValue
      BY <1>1, <2>1, SetStateType, RemovePieceType, PlacePieceType DEF State
    <2>3. \A d \in Cells : placed.at[d] = IF d = c THEN jumper ELSE board.at[d]
      <3>1. \A d \in Cells \ {c} : cleared.at[d] = board.at[d]
        BY <1>1 DEF RemovePiece, SetState, BoardValue
      <3> HIDE DEF cleared
      <3> QED BY <2>1, <2>2, <3>1 DEF PlacePiece, BoardValue
    <2> HIDE DEF placed
    <2>4. InOrder(placed, active)
      BY <1>1, <2>1, <2>3, NoPieceIsNoPiece, OccupiedCellsSuffice DEF Occupied
    <2> QED BY <1>1, <2>1, <2>2, <2>4, OccupiedCellsSuffice, SetPieceStateOccupies
  <1> QED BY <1>2, <1>3 DEF LandJump, Land

LEMMA DeliverInOrder ==
    ASSUME MotionInv, DeliverReport
    PROVE  InOrder(board', active')
  <1>1. board'.at = board.at /\ UNCHANGED active
    BY MotionFacts DEF DeliverReport, BoardValue
  <1> QED BY <1>1, MotionFacts, OccupiedCellsSuffice DEF Occupied

LEMMA NextMotionInv == MotionInv /\ [Next]_vars => MotionInv'
  <1> SUFFICES ASSUME MotionInv, [Next]_vars PROVE MotionInv'
    OBVIOUS
  <1>1. TypeInv'
    BY NextTypeInv DEF MotionInv
  <1>2. InOrder(board', active')
    <2>1. CASE UNCHANGED vars
      BY <2>1, MotionFacts DEF vars, arbiterVars
    <2>2. CASE EndGame
      BY <2>2, MotionFacts DEF EndGame, arbiterVars
    <2>3. CASE Next /\ ~EndGame
      BY <2>3, RequestMoveInOrder, RequestJumpInOrder, WaitInOrder, ResolveInOrder,
         LandInOrder, DeliverInOrder DEF Next, TickStep
    <2> QED BY <2>1, <2>2, <2>3
  <1> QED BY <1>1, <1>2, InOrderIsEveryMotionHasItsPiece DEF MotionInv

(***************************************************************************)
(* The arbiter finds a piece wherever it resolves a crossing, and a cell   *)
(* names at most one motion, in every reachable state of every game, also  *)
(* after a landing that took a piece under way.                            *)
(***************************************************************************)
THEOREM MotionsHaveTheirPieces == Spec => []EveryMotionHasItsPiece
  <1>1. Init => MotionInv
    <2>1. Init => DOMAIN active = {}
      BY DEF Init
    <2> QED BY <2>1, InitTypeInv DEF MotionInv, EveryMotionHasItsPiece
  <1>2. MotionInv /\ [Next]_vars => MotionInv'
    BY NextMotionInv
  <1>3. MotionInv => EveryMotionHasItsPiece
    BY DEF MotionInv
  <1> QED BY <1>1, <1>2, <1>3, PTL DEF Spec

=============================================================================
