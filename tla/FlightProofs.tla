---------------------------- MODULE FlightProofs ----------------------------
(***************************************************************************)
(* What becomes of the pieces of one game, for boards of any size and any  *)
(* pieces in any starting position.  Crossings are resolved in the order   *)
(* they happened, if ticks are short.  And up to the first landing on a    *)
(* piece under way, no piece is lost and none comes back, jumps and        *)
(* commands find the pieces they are about, and pawns are promoted.        *)
(***************************************************************************)
EXTENDS PromiseProofs

(***************************************************************************)
(* The steps of a motion's piece.  The mover of t goes to the next cell:   *)
(* the grid, the pieces' own cells, and the kinds, which stay.             *)
(***************************************************************************)
From(t) == CurrentCell(active[t])
To(t) == NextCell(active[t])

Walks(t) ==
    /\ From(t) # To(t)
    /\ \A c \in Cells : board'.at[c] = IF c = From(t) THEN NoPiece
                                       ELSE IF c = To(t) THEN Mover(t)
                                       ELSE board.at[c]
    /\ \A p \in Piece : board'.cell[p] = IF p = Mover(t) THEN To(t) ELSE board.cell[p]

\* The mover stays where it is.
Stands ==
    /\ \A c \in Cells : board'.at[c] = board.at[c]
    /\ \A p \in Piece : board'.cell[p] = board.cell[p]

JourneyInv == SyncInv /\ MotionInv

LEMMA JourneyFacts ==
    ASSUME JourneyInv
    PROVE  /\ TypeInv /\ board \in BoardValue /\ InSync(board, airborne)
           /\ InOrder(board, active) /\ JumpsTyped(airborne) /\ MotionsTyped(active)
           /\ resting \subseteq Cooldown
           /\ \A t \in DOMAIN active : From(t) \in Cells /\ Mover(t) \in Piece
           /\ \A c \in Cells : Occupied(board, c) =>
                /\ board.at[c] \in Piece /\ board.cell[board.at[c]] = c
                /\ ~IsCaptured(board.at[c]) /\ ~IsLifted(board.at[c])
  <1>1. /\ TypeInv /\ board \in BoardValue /\ InSync(board, airborne)
        /\ InOrder(board, active) /\ JumpsTyped(airborne) /\ MotionsTyped(active)
        /\ resting \subseteq Cooldown
        /\ \A t \in DOMAIN active : CurrentCell(active[t]) \in Cells
    BY SyncFacts, MotionFacts, MotionsOfTypeOK
       DEF JourneyInv, TypeInv, TypeOK, ArbiterTypeOK
  <1>2. \A t \in DOMAIN active : From(t) \in Cells /\ Mover(t) \in Piece
    BY <1>1 DEF From, Mover, InOrder, OnOccupiedCells, Occupied, BoardValue
  <1>3. ASSUME NEW c \in Cells, Occupied(board, c)
        PROVE  /\ board.at[c] \in Piece /\ board.cell[board.at[c]] = c
               /\ ~IsCaptured(board.at[c]) /\ ~IsLifted(board.at[c])
    <2>1. board.at[c] \in Piece /\ OnBoard(board, board.at[c])
      BY <1>1, <1>3 DEF BoardValue, Occupied, OnBoard
    <2>2. board.cell[board.at[c]] = c
      BY <1>1, <1>3 DEF InSync, CellsAgree
    <2>3. ~IsCaptured(board.at[c]) /\ ~LiftedBy(airborne, board.at[c])
      BY <1>1, <2>1 DEF InSync, OffBoardAgrees, IsCaptured
    <2> QED BY <2>1, <2>2, <2>3 DEF LiftedBy, IsLifted
  <1> QED BY <1>1, <1>2, <1>3

\* A board on which the mover of t has walked, to b's free next cell.
LEMMA MovingWalks ==
    ASSUME JourneyInv, NEW t \in DOMAIN active, To(t) \in Cells, From(t) # To(t),
           NEW b \in BoardValue, b.cell = board.cell,
           \A c \in Cells \ {To(t)} : b.at[c] = board.at[c],
           NEW n, n = MovePiece(b, From(t), To(t))
    PROVE  /\ n \in BoardValue /\ n.at[To(t)] = Mover(t)
           /\ n.kind = b.kind /\ n.state = b.state
           /\ \A c \in Cells : n.at[c] = IF c = From(t) THEN NoPiece
                                         ELSE IF c = To(t) THEN Mover(t)
                                         ELSE board.at[c]
           /\ \A p \in Piece : n.cell[p] = IF p = Mover(t) THEN To(t) ELSE board.cell[p]
  <1> DEFINE from == From(t)
             to == To(t)
             p == Mover(t)
  <1>1. from \in Cells /\ to \in Cells /\ from # to /\ p \in Piece /\ p = b.at[from]
    BY JourneyFacts DEF From, Mover
  <1>2. n \in BoardValue
    BY <1>1, MovePieceType
  <1>3. /\ n.at = [b.at EXCEPT ![to] = p, ![from] = NoPiece]
        /\ n.cell = [b.cell EXCEPT ![p] = to]
        /\ n.kind = b.kind /\ n.state = b.state
    BY <1>1 DEF MovePiece, BoardValue
  <1>4. b.at \in [Cells -> Piece \cup {NoPiece}] /\ b.cell \in [Piece -> Cells]
    BY DEF BoardValue
  <1> HIDE DEF from, to, p
  <1>5. /\ \A c \in Cells : n.at[c] = IF c = from THEN NoPiece
                                      ELSE IF c = to THEN p ELSE b.at[c]
        /\ \A q \in Piece : n.cell[q] = IF q = p THEN to ELSE b.cell[q]
    BY <1>1, <1>3, <1>4
  <1> QED BY <1>1, <1>2, <1>3, <1>5 DEF from, to, p

\* The state of the piece on c, and nothing else.
LEMMA SetPieceStateSets ==
    ASSUME NEW b \in BoardValue, NEW c \in Cells, NEW p \in Piece, p = b.at[c],
           NEW s \in State, NEW n, n = SetPieceState(b, c, s)
    PROVE  /\ n \in BoardValue
           /\ n.at = b.at /\ n.cell = b.cell /\ n.kind = b.kind
           /\ \A q \in Piece : n.state[q] = IF q = p THEN s ELSE b.state[q]
  <1>1. n = SetState(b, p, s) /\ n \in BoardValue
    BY SetStateType DEF SetPieceState
  <1> QED BY <1>1 DEF SetState, BoardValue

-----------------------------------------------------------------------------
(***************************************************************************)
(* The other effects of a crossing of t that leaves the mover on c: victim *)
(* is captured (nobody if NoPiece), the motions in gone end, and so does   *)
(* t's if it stops there.                                                  *)
(***************************************************************************)
ReportedAt(r, c) == \E i \in DOMAIN r : r[i].destination = c /\ r[i].landed

KeepsReports == \A i \in DOMAIN reports : i \in DOMAIN reports' /\ reports'[i] = reports[i]

Affects(t, c, stops, gone, victim) ==
    /\ board' \in BoardValue
    /\ board'.kind = board.kind
    /\ \A p \in Piece : board'.state[p] = IF p = victim THEN "Captured"
                                          ELSE IF p = Mover(t) /\ stops THEN "Resting"
                                          ELSE board.state[p]
    /\ resting' = IF stops THEN resting \cup {Rest(Mover(t), c)} ELSE resting
    /\ active' = IF stops THEN Without(active, gone \cup {t})
                 ELSE Without([active EXCEPT ![t] = CompleteStep(active[t])], gone)
    /\ pass' = PassAfter(t, gone)
    /\ KeepsReports
    /\ stops => ReportedAt(reports', c)

Complete(t) == IsComplete(CompleteStep(active[t]))

LEMMA AppendKeeps ==
    ASSUME reports \in Seq(ArrivalReport), NEW c \in Cells,
           NEW victim \in Piece \cup {NoPiece}, NEW more,
           more = << >> \/ more = <<Report(c, TRUE, victim)>>,
           reports' = reports \o more
    PROVE  KeepsReports
  BY DEF KeepsReports, Report, ArrivalReport

LEMMA FinishAffects ==
    ASSUME JourneyInv, NEW t \in DOMAIN active, NEW b \in BoardValue, NEW c \in Cells,
           NEW gone, NEW victim \in Piece \cup {NoPiece}, victim # Mover(t),
           b.at[c] = Mover(t), b.kind = board.kind,
           \A p \in Piece : b.state[p] = IF p = victim THEN "Captured" ELSE board.state[p],
           Finish(t, b, c, gone, victim)
    PROVE  /\ Affects(t, c, TRUE, gone, victim)
           /\ board'.at = b.at /\ board'.cell = b.cell
  <1>1. reports \in Seq(ArrivalReport) /\ Mover(t) \in Piece
    BY JourneyFacts DEF TypeInv, TypeOK, ArbiterTypeOK
  <1>2. /\ board' \in BoardValue
        /\ board'.at = b.at /\ board'.cell = b.cell /\ board'.kind = b.kind
        /\ \A p \in Piece : board'.state[p] = IF p = Mover(t) THEN "Resting"
                                              ELSE b.state[p]
    BY <1>1, SetPieceStateSets DEF Finish, State
  <1>3. Report(c, TRUE, victim) \in ArrivalReport
    BY DEF Report, ArrivalReport
  <1> DEFINE report == Report(c, TRUE, victim)
  <1>4. /\ report \in ArrivalReport /\ report.destination = c /\ report.landed
        /\ reports' = Append(reports, report)
    BY <1>3 DEF Report, Finish
  <1> HIDE DEF report
  <1>5. KeepsReports /\ ReportedAt(reports', c)
    <2>1. /\ KeepsReports
          /\ Len(reports) + 1 \in DOMAIN reports'
          /\ reports'[Len(reports) + 1] = report
      BY <1>1, <1>4 DEF KeepsReports
    <2> QED BY <1>4, <2>1 DEF ReportedAt
  <1>6. /\ resting' = resting \cup {Rest(Mover(t), c)}
        /\ active' = Without(active, gone \cup {t})
        /\ pass' = PassAfter(t, gone)
    BY DEF Finish
  <1> QED BY <1>2, <1>5, <1>6 DEF Affects

LEMMA WalkInAffects ==
    ASSUME JourneyInv, NEW t \in DOMAIN active, To(t) \in Cells, From(t) # To(t),
           NEW b \in BoardValue, b.cell = board.cell, b.kind = board.kind,
           \A c \in Cells \ {To(t)} : b.at[c] = board.at[c],
           NEW gone, NEW victim \in Piece \cup {NoPiece}, victim # Mover(t),
           \A p \in Piece : b.state[p] = IF p = victim THEN "Captured" ELSE board.state[p],
           WalkIn(t, b, gone, victim)
    PROVE  Walks(t) /\ Affects(t, To(t), Complete(t), gone, victim)
  <1> DEFINE moved == MovePiece(b, From(t), To(t))
  <1>1. /\ moved \in BoardValue /\ moved.at[To(t)] = Mover(t)
        /\ moved.kind = b.kind /\ moved.state = b.state
        /\ \A c \in Cells : moved.at[c] = IF c = From(t) THEN NoPiece
                                          ELSE IF c = To(t) THEN Mover(t)
                                          ELSE board.at[c]
        /\ \A p \in Piece : moved.cell[p] = IF p = Mover(t) THEN To(t) ELSE board.cell[p]
    <2> HIDE DEF moved
    <2>1. moved = MovePiece(b, From(t), To(t))
      BY DEF moved
    <2> QED BY <2>1, MovingWalks
  <1>2. CASE Complete(t)
    <2>1. Finish(t, moved, To(t), gone, victim)
      BY <1>2 DEF WalkIn, Complete, From, To
    <2> HIDE DEF moved
    <2>2. /\ moved.kind = board.kind
          /\ \A p \in Piece : moved.state[p] = IF p = victim THEN "Captured"
                                               ELSE board.state[p]
      BY <1>1
    <2>3. /\ Affects(t, To(t), TRUE, gone, victim)
          /\ board'.at = moved.at /\ board'.cell = moved.cell
      BY <1>1, <2>1, <2>2, FinishAffects
    <2> QED BY <1>1, <1>2, <2>3 DEF Walks, Affects
  <1>3. CASE ~Complete(t)
    <2>1. /\ board' = moved
          /\ active' = Without([active EXCEPT ![t] = CompleteStep(active[t])], gone)
          /\ reports' = reports \o ReportOnTheWay(To(t), victim)
          /\ pass' = PassAfter(t, gone)
          /\ resting' = resting
      BY <1>3 DEF WalkIn, Complete, From, To
    <2>2. KeepsReports
      <3>1. reports \in Seq(ArrivalReport)
        BY JourneyFacts DEF TypeInv, TypeOK, ArbiterTypeOK
      <3>2. \/ ReportOnTheWay(To(t), victim) = << >>
            \/ ReportOnTheWay(To(t), victim) = <<Report(To(t), TRUE, victim)>>
        BY DEF ReportOnTheWay
      <3> QED BY <2>1, <3>1, <3>2, AppendKeeps
    <2> HIDE DEF moved
    <2> QED BY <1>1, <1>3, <2>1, <2>2 DEF Walks, Affects
  <1> QED BY <1>2, <1>3

LEMMA EnterEffect ==
    ASSUME JourneyInv, NEW t \in Tickets, EnterFreeCell(t)
    PROVE  /\ board.at[To(t)] = NoPiece
           /\ Walks(t) /\ Affects(t, To(t), Complete(t), {}, NoPiece)
           /\ airborne' = airborne
  <1>1. Crosses(t, "Free") /\ WalkIn(t, board, {}, NoPiece) /\ From(t) # To(t)
    BY NextCellIsAnother DEF EnterFreeCell, From, To
  <1>2. /\ t \in DOMAIN active /\ To(t) \in Cells /\ board \in BoardValue
        /\ Mover(t) \in Piece
    BY <1>1, CrossingFacts, JourneyFacts DEF To
  <1> DEFINE gone == {}
             victim == NoPiece
  <1>3. WalkIn(t, board, gone, victim) /\ victim \in Piece \cup {NoPiece}
        /\ victim # Mover(t) /\ victim \notin Piece
    BY <1>1, <1>2, NoPieceIsNoPiece
  <1> HIDE DEF gone, victim
  <1>4. Walks(t) /\ Affects(t, To(t), Complete(t), gone, victim)
    BY <1>1, <1>2, <1>3, WalkInAffects
  <1>5. board.at[To(t)] = NoPiece
    BY <1>1 DEF Crosses, EntryOutcome, Occupant, To
  <1>6. airborne' = airborne
    BY <1>1 DEF WalkIn
  <1> QED BY <1>4, <1>5, <1>6 DEF gone, victim

LEMMA CaptureEffect ==
    ASSUME JourneyInv, NEW t \in Tickets, CaptureOccupant(t)
    PROVE  /\ Occupant(t) \in Piece /\ Occupant(t) # Mover(t)
           /\ board.at[To(t)] = Occupant(t)
           /\ board.state[Occupant(t)] # "Airborne"
           /\ Walks(t)
           /\ Affects(t, To(t), Complete(t), MotionsAt(To(t)), Occupant(t))
           /\ airborne' = airborne
  <1> DEFINE victim == Occupant(t)
             b == RemovePiece(SetState(board, victim, "Captured"), To(t))
             gone == MotionsAt(To(t))
  <1>1. /\ Crosses(t, "Capture") /\ From(t) # To(t)
        /\ WalkIn(t, b, gone, victim)
    BY NextCellIsAnother DEF CaptureOccupant, From, To
  <1>2. /\ t \in DOMAIN active /\ To(t) \in Cells /\ board \in BoardValue
        /\ Mover(t) \in Piece /\ victim \in Piece \cup {NoPiece}
        /\ board.at[To(t)] = victim
    BY <1>1, CrossingFacts, JourneyFacts DEF To, Occupant
  <1>3. victim # NoPiece /\ victim # Mover(t) /\ board.state[victim] # "Airborne"
    BY <1>1 DEF Crosses, EntryOutcome
  <1>4. victim \in Piece
    BY <1>2, <1>3
  <1>5. /\ b \in BoardValue /\ b.cell = board.cell /\ b.kind = board.kind
        /\ \A p \in Piece : b.state[p] = IF p = victim THEN "Captured"
                                         ELSE board.state[p]
        /\ \A c \in Cells \ {To(t)} : b.at[c] = board.at[c]
    <2> HIDE DEF victim, b
    <2>1. b = RemovePiece(SetState(board, victim, "Captured"), To(t))
      BY DEF b
    <2>2. /\ b \in BoardValue /\ b.kind = board.kind
          /\ \A p \in Piece : b.state[p] = IF p = victim THEN "Captured"
                                           ELSE board.state[p]
          /\ \A c \in Cells \ {To(t)} : b.at[c] = board.at[c]
      BY <1>2, <1>4, <2>1, RemovingTakes
    <2>3. b.cell = board.cell
      BY <1>2, <2>1 DEF RemovePiece, SetState, BoardValue
    <2> QED BY <2>2, <2>3
  <1> HIDE DEF b, gone, victim
  <1>6. Walks(t) /\ Affects(t, To(t), Complete(t), gone, victim)
    BY <1>1, <1>2, <1>3, <1>4, <1>5, WalkInAffects
  <1>7. airborne' = airborne
    BY <1>1 DEF WalkIn
  <1> QED BY <1>2, <1>3, <1>4, <1>6, <1>7 DEF victim, gone

LEMMA StopEffect ==
    ASSUME JourneyInv, NEW t \in Tickets, StopBeforeFriend(t)
    PROVE  /\ Stands /\ Affects(t, From(t), TRUE, {}, NoPiece)
           /\ airborne' = airborne
  <1>1. /\ Crosses(t, "BlockedByFriendly") /\ airborne' = airborne
        /\ Finish(t, board, From(t), {}, NoPiece)
    BY DEF StopBeforeFriend, From
  <1>2. /\ t \in DOMAIN active /\ From(t) \in Cells /\ board \in BoardValue
        /\ Mover(t) \in Piece /\ board.at[From(t)] = Mover(t)
    BY <1>1, CrossingFacts, JourneyFacts DEF From, Mover
  <1> DEFINE gone == {}
             victim == NoPiece
             c == From(t)
  <1>3. /\ Finish(t, board, c, gone, victim) /\ victim \in Piece \cup {NoPiece}
        /\ victim # Mover(t) /\ victim \notin Piece
        /\ c \in Cells /\ board.at[c] = Mover(t)
    BY <1>1, <1>2, NoPieceIsNoPiece
  <1> HIDE DEF gone, victim, c
  <1>4. /\ Affects(t, c, TRUE, gone, victim)
        /\ board'.at = board.at /\ board'.cell = board.cell
    BY <1>2, <1>3, FinishAffects
  <1> QED BY <1>1, <1>4 DEF Stands, gone, victim, c

LEMMA YieldEffect ==
    ASSUME JourneyInv, NEW t \in Tickets, YieldToAirborne(t)
    PROVE  /\ Occupant(t) \in Piece /\ Occupant(t) # Mover(t)
           /\ board.at[To(t)] = Occupant(t)
           /\ board.state[Occupant(t)] = "Airborne"
           /\ Walks(t) /\ Affects(t, To(t), TRUE, {}, NoPiece)
           /\ airborne' = [j \in DOMAIN airborne |->
                             IF j \in JumpAt(To(t))
                             THEN [airborne[j] EXCEPT !.lifted = Occupant(t)]
                             ELSE airborne[j]]
  <1> DEFINE b == RemovePiece(board, To(t))
             moved == MovePiece(b, From(t), To(t))
  <1>1. /\ Crosses(t, "CapturedByAirborne")
        /\ Finish(t, moved, To(t), {}, NoPiece)
        /\ airborne' = [j \in DOMAIN airborne |->
                          IF j \in JumpAt(To(t))
                          THEN [airborne[j] EXCEPT !.lifted = Occupant(t)]
                          ELSE airborne[j]]
    BY DEF YieldToAirborne, From, To
  <1>2. /\ t \in DOMAIN active /\ To(t) \in Cells /\ board \in BoardValue
        /\ Mover(t) \in Piece /\ Occupant(t) \in Piece \cup {NoPiece}
        /\ board.at[To(t)] = Occupant(t) /\ board.at[From(t)] = Mover(t)
    BY <1>1, CrossingFacts, JourneyFacts DEF To, From, Occupant, Mover
  <1>3. /\ Occupant(t) # NoPiece /\ Occupant(t) # Mover(t)
        /\ board.state[Occupant(t)] = "Airborne"
    BY <1>1 DEF Crosses, EntryOutcome
  <1>4. From(t) # To(t)
    BY <1>2, <1>3
  <1>5. /\ b \in BoardValue /\ b.cell = board.cell /\ b.kind = board.kind
        /\ b.state = board.state
        /\ \A c \in Cells \ {To(t)} : b.at[c] = board.at[c]
    BY <1>2, RemovePieceType DEF RemovePiece, BoardValue
  <1> HIDE DEF b
  <1>6. /\ moved \in BoardValue /\ moved.at[To(t)] = Mover(t)
        /\ moved.kind = b.kind /\ moved.state = b.state
        /\ \A c \in Cells : moved.at[c] = IF c = From(t) THEN NoPiece
                                          ELSE IF c = To(t) THEN Mover(t)
                                          ELSE board.at[c]
        /\ \A p \in Piece : moved.cell[p] = IF p = Mover(t) THEN To(t) ELSE board.cell[p]
    <2>1. moved = MovePiece(b, From(t), To(t))
      OBVIOUS
    <2> HIDE DEF moved
    <2> QED BY <1>2, <1>4, <1>5, <2>1, MovingWalks
  <1> DEFINE gone == {}
             victim == NoPiece
  <1>7. /\ Finish(t, moved, To(t), gone, victim) /\ victim \in Piece \cup {NoPiece}
        /\ victim # Mover(t) /\ victim \notin Piece
    BY <1>1, <1>2, NoPieceIsNoPiece
  <1> HIDE DEF gone, victim, moved
  <1>8. /\ moved.kind = board.kind
        /\ \A p \in Piece : moved.state[p] = IF p = victim THEN "Captured"
                                             ELSE board.state[p]
    BY <1>5, <1>6, <1>7
  <1>9. /\ Affects(t, To(t), TRUE, gone, victim)
        /\ board'.at = moved.at /\ board'.cell = moved.cell
    BY <1>2, <1>6, <1>7, <1>8, FinishAffects
  <1> QED BY <1>1, <1>2, <1>3, <1>4, <1>6, <1>9 DEF Walks, gone, victim

-----------------------------------------------------------------------------
(***************************************************************************)
(* The order of the crossings.  With ticks shorter than the crossing of a  *)
(* square no motion crosses twice in a tick, so a pass holds all that is   *)
(* still to be crossed.                                                    *)
(***************************************************************************)
TicksAreShort == \A delta \in Deltas : delta < SquareTravelMs

KeepsPace(m) ==
    \/ IsComplete(m)
    \/ m.duration >= SquareTravelMs /\ m.elapsed < m.duration + SquareTravelMs

PaceInv ==
    /\ JourneyInv
    /\ \A t \in DOMAIN active : KeepsPace(active[t])
    /\ pass # {} => pass = Crossings

\* A journey is at least one square long, and no crossing is quicker than that.
LEMMA NewMotionKeepsPace ==
    ASSUME NEW from \in Cells, NEW to \in Cells
    PROVE  KeepsPace(NewMotion(from, to))
  <1> DEFINE path == TravelPath(from, to)
             n == Len(path) - 1
             d == CellSteps(from, to)
             m == NewMotion(from, to)
  <1>1. n \in Nat /\ d \in Nat
    BY TravelPathOnBoard, CellStepsIsNatural
  <1>2. /\ m.path = path /\ m.step = 1 /\ m.elapsed = 0
        /\ m.duration = IF n < 1 THEN 0 ELSE (d * 1000) \div n
    BY DEF NewMotion, StepDurationOf, TravelDurationMs, SquareTravelMs
  <1>3. CASE n < 1
    BY <1>1, <1>2, <1>3 DEF KeepsPace, IsComplete
  <1>4. CASE n >= 1
    <2>1. (d * 1000) \div n >= 1000
      <3>1. CASE IsStraightLine(from, to)
        <4>1. path = [k \in 1 .. d + 1 |-> Along(from, to, k - 1)]
          BY <3>1 DEF TravelPath
        <4>2. path \in Seq(Cells)
          BY TravelPathOnBoard
        <4> HIDE DEF path, d
        <4>3. n = d
          BY <1>1, <4>1, <4>2
        <4>4. (d * 1000) \div d = 1000
          BY <1>1, <1>4, <4>3
        <4> QED BY <4>3, <4>4
      <3>2. CASE ~IsStraightLine(from, to)
        <4>1. n = 1
          BY <3>2 DEF TravelPath
        <4>2. d >= 1
          BY <3>2, DimensionsPositive DEF IsStraightLine, CellSteps, Distance, Cells
        <4> HIDE DEF d, n
        <4> QED BY <1>1, <4>1, <4>2
      <3> QED BY <3>1, <3>2
    <2> DEFINE q == (d * 1000) \div n
    <2>2. q \in Int
      <3> HIDE DEF d, n
      <3> QED BY <1>1, <1>4
    <2>3. m.duration = q /\ m.elapsed = 0 /\ q >= 1000
      BY <1>2, <1>4, <2>1
    <2> HIDE DEF q, m
    <2>4. KeepsPace(m)
      BY <2>2, <2>3 DEF KeepsPace, SquareTravelMs
    <2> QED BY <2>4 DEF m
  <1> QED BY <1>1, <1>3, <1>4

LEMMA PaceFacts ==
    ASSUME PaceInv
    PROVE  /\ JourneyInv /\ Pass = Crossings
           /\ Crossings = {} => pass = {}
           /\ \A t \in DOMAIN active : active[t] \in Motion
  <1>1. JourneyInv /\ pass \subseteq Crossings
    BY JourneyFacts DEF PaceInv, TypeInv, PassIsPending
  <1>2. \A t \in DOMAIN active : active[t] \in Motion
    BY <1>1, JourneyFacts DEF MotionsTyped
  <1> QED BY <1>1, <1>2 DEF PaceInv, Pass

LEMMA AffectsPace ==
    ASSUME PaceInv, NEW t \in Crossings, NEW c, NEW stops \in BOOLEAN, NEW gone,
           NEW victim, Affects(t, c, stops, gone, victim)
    PROVE  /\ \A u \in DOMAIN active' : KeepsPace(active'[u])
           /\ pass' # {} => pass' = Crossings'
  <1> DEFINE m == active[t]
             stepped == CompleteStep(m)
  <1>1. /\ t \in DOMAIN active /\ m \in Motion /\ ~IsComplete(m)
        /\ m.duration >= 1000 /\ m.elapsed < m.duration + 1000
    BY PaceFacts DEF PaceInv, KeepsPace, Crossings, IsEnteringNextCell, SquareTravelMs
  <1>2. stepped.duration = m.duration /\ stepped.elapsed = m.elapsed - m.duration
    BY <1>1 DEF CompleteStep, Motion
  <1>3. stepped.elapsed < stepped.duration /\ stepped.elapsed < stepped.duration + 1000
        /\ stepped.duration >= 1000 /\ ~(stepped.elapsed >= stepped.duration)
    BY <1>1, <1>2 DEF Motion
  <1>4. /\ \A u \in DOMAIN active' :
              /\ u \in DOMAIN active
              /\ u # t => u \notin gone /\ active'[u] = active[u]
              /\ u = t => active'[u] = stepped
        /\ \A u \in DOMAIN active : u \notin gone /\ u # t => u \in DOMAIN active'
    BY <1>1 DEF Affects, Without
  <1> HIDE DEF m, stepped
  <1>5. \A u \in DOMAIN active' : KeepsPace(active'[u])
    BY <1>3, <1>4 DEF PaceInv, KeepsPace, SquareTravelMs
  <1>6. pass' = Crossings \ (gone \cup {t})
    BY PaceFacts DEF Affects, PassAfter
  <1>7. t \notin Crossings'
    BY <1>3, <1>4 DEF Crossings, IsEnteringNextCell
  <1>8. pass' \subseteq Crossings' /\ Crossings' \subseteq Crossings
    BY <1>4, <1>6, <1>7 DEF Crossings
  <1>9. \A u \in Crossings' : u \notin gone
    BY <1>4, <1>7 DEF Crossings
  <1> QED BY <1>5, <1>6, <1>7, <1>8, <1>9

LEMMA ResolveAffects ==
    ASSUME JourneyInv, NEW t \in Tickets, Resolve(t)
    PROVE  /\ t \in Crossings
           /\ t \in Pass /\ ComesFirst(t, Pass)
           /\ \E c \in Cells, stops \in BOOLEAN : \E gone, victim :
                Affects(t, c, stops, gone, victim)
  <1>1. PICK outcome : Crosses(t, outcome)
    BY DEF Resolve, ResolveCrossing, EnterFreeCell, CaptureOccupant, StopBeforeFriend,
           YieldToAirborne
  <1>2. t \in Crossings /\ t \in Pass /\ ComesFirst(t, Pass)
        /\ From(t) \in Cells /\ To(t) \in Cells
    BY <1>1, CrossingFacts, JourneyFacts DEF Crosses, From, To
  <1>3. Complete(t) \in BOOLEAN
    BY DEF Complete, IsComplete
  <1>4. \E c \in Cells, stops \in BOOLEAN : \E gone, victim :
          Affects(t, c, stops, gone, victim)
    BY <1>2, <1>3, EnterEffect, CaptureEffect, StopEffect, YieldEffect
       DEF Resolve, ResolveCrossing
  <1> QED BY <1>2, <1>4

LEMMA NextPaceInv ==
    ASSUME TicksAreShort, PaceInv, [Next]_vars
    PROVE  PaceInv'
  <1>1. JourneyInv'
    BY NextSyncInv, NextMotionInv DEF PaceInv, JourneyInv
  <1>2. CASE \E source, destination \in Cells : RequestMove(source, destination)
    <2>1. PICK source \in Cells, destination \in Cells :
                 RequestMove(source, destination)
      BY <1>2
    <2>2. pass' = {}
      BY <2>1, PaceFacts DEF RequestMove, Busy, StartMotion
    <2>3. \A t \in DOMAIN active' :
             \/ t \in DOMAIN active /\ active'[t] = active[t]
             \/ active'[t] = NewMotion(source, destination)
      BY <2>1 DEF RequestMove, StartMotion, Extended
    <2>4. \A t \in DOMAIN active' : KeepsPace(active'[t])
      BY <2>3, NewMotionKeepsPace DEF PaceInv
    <2> QED BY <1>1, <2>2, <2>4 DEF PaceInv
  <1>3. CASE \E delta \in Deltas : Wait(delta)
    <2>1. PICK delta \in Deltas : Wait(delta)
      BY <1>3
    <2>2. pass' = {}
      BY <2>1, PaceFacts DEF Wait, StartTick, Busy
    <2>3. delta \in Nat /\ delta < 1000
      BY DeltasAreNaturals DEF TicksAreShort, SquareTravelMs
    <2>4. ASSUME NEW t \in DOMAIN active'
          PROVE  KeepsPace(active'[t])
      <3>1. /\ t \in DOMAIN active /\ active[t] \in Motion
            /\ active'[t] = [active[t] EXCEPT !.elapsed = @ + delta]
            /\ t \notin Crossings
        BY <2>1, <2>4, PaceFacts DEF Wait, StartTick, Busy
      <3>2. /\ active'[t].path = active[t].path /\ active'[t].step = active[t].step
            /\ active'[t].duration = active[t].duration
            /\ active'[t].elapsed = active[t].elapsed + delta
            /\ active[t].duration \in Nat /\ active[t].elapsed \in Nat
        BY <3>1 DEF Motion
      <3>3. KeepsPace(active[t])
        BY <3>1 DEF PaceInv
      <3> QED BY <2>3, <3>1, <3>2, <3>3
              DEF KeepsPace, IsComplete, Crossings, IsEnteringNextCell, SquareTravelMs
    <2> QED BY <1>1, <2>2, <2>4 DEF PaceInv
  <1>4. CASE \E t \in Tickets : Resolve(t)
    <2>1. PICK t \in Tickets : Resolve(t)
      BY <1>4
    <2> QED BY <1>1, <2>1, ResolveAffects, AffectsPace DEF PaceInv
  <1>5. CASE \/ \E c \in Cells : RequestJump(c)
             \/ EndGame
             \/ \E j \in Tickets : LandJump(j)
             \/ DeliverReport
             \/ UNCHANGED vars
    <2>1. UNCHANGED <<active, pass>>
      BY <1>5 DEF RequestJump, StartJump, EndGame, LandJump, Land, LandAtRest,
                  LandOnArriver, DeliverReport, vars, arbiterVars
    <2> QED BY <1>1, <2>1 DEF PaceInv, Crossings
  <1> QED BY <1>2, <1>3, <1>4, <1>5 DEF Next, TickStep

\* Only the mover of the crossing that is resolved enters its next cell.
LEMMA EntersInTurn ==
    ASSUME JourneyInv, NEW x \in Tickets, Resolve(x),
           NEW t \in Crossings, Enters(t)
    PROVE  t = x
  <1>1. /\ x \in DOMAIN active /\ t \in DOMAIN active
        /\ From(x) \in Cells /\ From(t) \in Cells /\ To(t) \in Cells
        /\ Mover(t) \in Piece /\ Mover(x) \in Piece
    <2>1. active[t] \in Motion /\ active[t].step \in DOMAIN active[t].path
          /\ IsEnteringNextCell(active[t]) /\ t \in DOMAIN active
      BY JourneyFacts DEF MotionsTyped, Crossings
    <2> QED BY <2>1, ResolveAffects, JourneyFacts, CrossingMotion DEF To, Crossings
  <1>2. Walks(x)
    <2>1. ~Stands
      BY <1>1 DEF Stands, Enters, To
    <2> QED BY <2>1, EnterEffect, CaptureEffect, StopEffect, YieldEffect
            DEF Resolve, ResolveCrossing
  <1>3. Mover(t) = Mover(x)
    BY <1>1, <1>2 DEF Walks, Enters, To
  <1>4. From(t) = From(x)
    BY <1>1, <1>3, JourneyFacts, NoPieceIsNoPiece DEF Mover, From, Occupied
  <1> QED BY <1>1, <1>4, JourneyFacts DEF InOrder, OnCellsOfTheirOwn, From

(***************************************************************************)
(* With the ticks of the server, which are shorter than the crossing of a  *)
(* square, no piece enters its next cell while a motion that crossed       *)
(* earlier has still to be resolved (RealTimeArbiter::crossingsByArrival). *)
(***************************************************************************)
THEOREM CrossingsComeInOrder ==
    ASSUME TicksAreShort
    PROVE  Spec => CrossingsInTrueOrder
  <1>1. Init => PaceInv
    <2> SUFFICES ASSUME Init PROVE PaceInv
      OBVIOUS
    <2>1. DOMAIN active = {} /\ pass = {}
      BY DEF Init
    <2>2. JourneyInv
      BY <2>1, InitReportInv
         DEF ReportInv, SyncInv, JourneyInv, MotionInv, EveryMotionHasItsPiece
    <2> QED BY <2>1, <2>2 DEF PaceInv
  <1>2. PaceInv /\ [Next]_vars => PaceInv'
    BY NextPaceInv
  <1>3. PaceInv /\ [Next]_vars =>
           [\A t, u \in Crossings :
              Enters(t) => ArrivalOvershoot(active[u]) <= ArrivalOvershoot(active[t])]_vars
    <2> SUFFICES ASSUME PaceInv, Next, NEW t \in Crossings, NEW u \in Crossings, Enters(t)
                 PROVE  ArrivalOvershoot(active[u]) <= ArrivalOvershoot(active[t])
      OBVIOUS
    <2>1. CASE \E x \in Tickets : Resolve(x)
      <3>1. PICK x \in Tickets : Resolve(x)
        BY <2>1
      <3>2. /\ t = x /\ ComesFirst(t, Crossings)
            /\ active[t] \in Motion /\ active[u] \in Motion
        BY <3>1, PaceFacts, EntersInTurn, ResolveAffects DEF Crossings
      <3> QED BY <3>2 DEF ComesFirst, ArrivalOvershoot, Motion
    <2>2. CASE ~\E x \in Tickets : Resolve(x)
      BY <2>2 DEF Next, TickStep, RequestMove, RequestJump, EndGame, Wait, StartTick,
                  Busy, LandJump, Land, LandAtRest, LandOnArriver, IsNextLanding,
                  DeliverReport, arbiterVars, Enters
    <2> QED BY <2>1, <2>2
  <1> QED BY <1>1, <1>2, <1>3, PTL DEF Spec, CrossingsInTrueOrder

-----------------------------------------------------------------------------
(***************************************************************************)
(* The pieces that travel, fly and rest, up to the first landing on a      *)
(* piece under way (OnlyMovingPiecesTravel).  What keeps a jumper from     *)
(* being lost is time: whoever has taken its cell travels on or rests, and *)
(* wakes up no sooner than the jump lands.  So nobody can begin a second   *)
(* jump on that cell, and yieldToAirborne finds the jump it looks for.     *)
(***************************************************************************)
JumpersFly ==
    \A c \in Cells :
        Occupied(board, c) /\ board.state[board.at[c]] = "Airborne" =>
            \E j \in DOMAIN airborne :
                airborne[j].cell = c /\ airborne[j].lifted = NoPiece

OneJumpOnACell ==
    \A i, j \in DOMAIN airborne : airborne[i].cell = airborne[j].cell => i = j

ArriversWait ==
    \A j \in DOMAIN airborne :
        airborne[j].lifted # NoPiece /\ Occupied(board, airborne[j].cell) =>
            LET p == board.at[airborne[j].cell]
            IN  \/ board.state[p] = "Moving"
                \/ airborne[j].elapsed >= JumpDurationMs
                \/ /\ board.state[p] = "Resting"
                   /\ \A r \in resting : r.piece = p => r.elapsed <= airborne[j].elapsed

RestersRest ==
    /\ \A r \in resting : board.state[r.piece] \in {"Resting", "Captured"}
    /\ \A r, s \in resting : r.piece = s.piece => r = s

InFlight ==
    /\ EveryJumpHasItsPiece /\ JumpersFly /\ OneJumpOnACell
    /\ ArriversWait /\ RestersRest /\ NoPieceIsLost

FlightInv == JourneyInv /\ InFlight

\* The piece a command sends off, and nothing else of the board.
Sets(c, s) ==
    /\ board.at[c] \in Piece
    /\ board' \in BoardValue
    /\ board'.at = board.at /\ board'.cell = board.cell /\ board'.kind = board.kind
    /\ \A q \in Piece : board'.state[q] = IF q = board.at[c] THEN s ELSE board.state[q]

LEMMA SetsIfOccupied ==
    ASSUME JourneyInv, NEW c \in Cells, Occupied(board, c), NEW s \in State,
           board' = SetPieceState(board, c, s)
    PROVE  Sets(c, s)
  BY JourneyFacts, SetPieceStateSets DEF Sets

\* Without a landing on a piece under way a mover is Moving, and no motion is
\* on the cell of an idle piece.
LEMMA MoversMove ==
    ASSUME JourneyInv, OnlyMovingPiecesTravel
    PROVE  \A t \in DOMAIN active : board.state[Mover(t)] = "Moving"
  BY JourneyFacts, NoPieceIsNoPiece DEF OnlyMovingPiecesTravel, Mover

LEMMA RequestMoveEffect ==
    ASSUME JourneyInv, OnlyMovingPiecesTravel, NEW source \in Cells,
           NEW destination \in Cells, RequestMove(source, destination)
    PROVE  /\ Sets(source, "Moving") /\ board.state[board.at[source]] = "Idle"
           /\ \E t \in Tickets : /\ t \notin DOMAIN active
                                 /\ active' = Extended(active, t, NewMotion(source, destination))
           /\ UNCHANGED <<airborne, resting, reports>>
  <1>1. /\ Occupied(board, source) /\ board.state[board.at[source]] = "Idle"
    BY DEF RequestMove, AcceptsMove, ValidMove, Available
  <1>2. ~HasMotionFor(source)
    <2> SUFFICES ASSUME NEW t \in DOMAIN active, CurrentCell(active[t]) = source
                 PROVE  FALSE
      BY DEF HasMotionFor
    <2>1. Mover(t) = board.at[source]
      BY DEF Mover
    <2> QED BY <1>1, <2>1, MoversMove
  <1>3. PICK t \in Tickets : /\ IsNextTicket(t, active)
                             /\ active' = Extended(active, t, NewMotion(source, destination))
    BY <1>2 DEF RequestMove, StartMotion
  <1>4. t \notin DOMAIN active
    BY <1>3, TicketsAreNaturals DEF IsNextTicket
  <1>5. Sets(source, "Moving")
    BY <1>1, <1>2, SetsIfOccupied DEF RequestMove, StartMotion, State
  <1>6. UNCHANGED <<airborne, resting, reports>>
    BY DEF RequestMove, StartMotion
  <1> QED BY <1>1, <1>3, <1>4, <1>5, <1>6

LEMMA RequestJumpEffect ==
    ASSUME JourneyInv, NEW c \in Cells, RequestJump(c)
    PROVE  /\ Sets(c, "Airborne") /\ board.state[board.at[c]] = "Idle"
           /\ \E t \in Tickets :
                /\ t \notin DOMAIN airborne
                /\ airborne' = Extended(airborne, t,
                                 [cell |-> c, elapsed |-> 0, lifted |-> NoPiece])
           /\ UNCHANGED <<active, resting, reports>>
  <1>1. Occupied(board, c) /\ board.state[board.at[c]] = "Idle"
    BY DEF RequestJump, AcceptsJump, Available
  <1>2. PICK t \in Tickets :
               /\ IsNextTicket(t, airborne)
               /\ airborne' = Extended(airborne, t,
                                [cell |-> c, elapsed |-> 0, lifted |-> NoPiece])
    BY <1>1 DEF RequestJump, StartJump
  <1>3. t \notin DOMAIN airborne
    BY <1>2, TicketsAreNaturals DEF IsNextTicket
  <1>4. Sets(c, "Airborne")
    BY <1>1, SetsIfOccupied DEF RequestJump, StartJump, State
  <1>5. UNCHANGED <<active, resting, reports>>
    BY DEF RequestJump, StartJump
  <1> QED BY <1>1, <1>2, <1>3, <1>4, <1>5

\* Between ticks nothing has come to the end of its time.
LEMMA IdlePieceHasNoJump ==
    ASSUME FlightInv, ~Busy, NEW c \in Cells, board.at[c] \in Piece,
           board.state[board.at[c]] = "Idle"
    PROVE  /\ \A j \in DOMAIN airborne : airborne[j].cell # c
           /\ \A r \in resting : r.piece # board.at[c]
  <1>1. \A j \in DOMAIN airborne : ~(airborne[j].elapsed >= JumpDurationMs)
    BY DEF Busy, Landings
  <1>2. board.at[c] # NoPiece
    BY NoPieceIsNoPiece
  <1>3. ASSUME NEW j \in DOMAIN airborne, airborne[j].cell = c PROVE FALSE
    BY <1>1, <1>2, <1>3
       DEF FlightInv, InFlight, EveryJumpHasItsPiece, ArriversWait, Occupied
  <1> QED BY <1>3 DEF FlightInv, InFlight, RestersRest

LEMMA RequestMoveInFlight ==
    ASSUME FlightInv, OnlyMovingPiecesTravel, NEW source \in Cells,
           NEW destination \in Cells, RequestMove(source, destination)
    PROVE  InFlight'
  <1> DEFINE p == board.at[source]
  <1>1. /\ Sets(source, "Moving") /\ board.state[p] = "Idle"
        /\ UNCHANGED <<airborne, resting>> /\ p \in Piece
    BY RequestMoveEffect DEF FlightInv, Sets
  <1>2. /\ \A j \in DOMAIN airborne : airborne[j].cell # source
        /\ \A r \in resting : r.piece # p
    BY <1>1, IdlePieceHasNoJump DEF RequestMove
  <1>3. /\ board'.at = board.at
        /\ \A q \in Piece : board'.state[q] = IF q = p THEN "Moving" ELSE board.state[q]
        /\ \A c \in Cells : board.at[c] \in Piece \cup {NoPiece}
        /\ \A c \in Cells : board.at[c] = p => c = source
        /\ \A j \in DOMAIN airborne : airborne[j].cell \in Cells
        /\ \A r \in resting : r.piece \in Piece
    <2>1. \A c \in Cells : board.at[c] = p => c = source
      BY <1>1, JourneyFacts, NoPieceIsNoPiece DEF FlightInv, Occupied
    <2> QED BY <1>1, <2>1, JourneyFacts
            DEF FlightInv, Sets, BoardValue, JumpsTyped, Jump, Cooldown
  <1> HIDE DEF p
  <1>4. EveryJumpHasItsPiece'
    BY <1>1, <1>2, <1>3 DEF FlightInv, InFlight, EveryJumpHasItsPiece
  <1>5. JumpersFly'
    BY <1>1, <1>3 DEF FlightInv, InFlight, JumpersFly, Occupied
  <1>6. OneJumpOnACell'
    BY <1>1 DEF FlightInv, InFlight, OneJumpOnACell
  <1>7. ArriversWait'
    BY <1>1, <1>2, <1>3 DEF FlightInv, InFlight, ArriversWait, Occupied
  <1>8. RestersRest'
    BY <1>1, <1>2, <1>3 DEF FlightInv, InFlight, RestersRest
  <1>9. NoPieceIsLost'
    BY <1>1, <1>3 DEF FlightInv, InFlight, NoPieceIsLost, IsCaptured, IsLifted, OnBoard
  <1> QED BY <1>4, <1>5, <1>6, <1>7, <1>8, <1>9 DEF InFlight

LEMMA RequestJumpInFlight ==
    ASSUME FlightInv, NEW c \in Cells, RequestJump(c)
    PROVE  InFlight'
  <1> DEFINE p == board.at[c]
  <1>1. /\ Sets(c, "Airborne") /\ board.state[p] = "Idle"
        /\ resting' = resting /\ p \in Piece
    BY RequestJumpEffect DEF FlightInv, Sets
  <1>2. PICK t \in Tickets :
               /\ t \notin DOMAIN airborne
               /\ airborne' = Extended(airborne, t,
                                [cell |-> c, elapsed |-> 0, lifted |-> NoPiece])
    BY RequestJumpEffect DEF FlightInv
  <1>3. /\ \A j \in DOMAIN airborne : airborne[j].cell # c
        /\ \A r \in resting : r.piece # p
    BY <1>1, IdlePieceHasNoJump DEF RequestJump
  <1>4. /\ DOMAIN airborne' = DOMAIN airborne \cup {t}
        /\ airborne'[t].cell = c /\ airborne'[t].lifted = NoPiece
        /\ \A j \in DOMAIN airborne : airborne'[j] = airborne[j] /\ j # t
    BY <1>2 DEF Extended
  <1>5. /\ board'.at = board.at
        /\ \A q \in Piece : board'.state[q] = IF q = p THEN "Airborne" ELSE board.state[q]
        /\ \A d \in Cells : board.at[d] \in Piece \cup {NoPiece}
        /\ \A d \in Cells : board.at[d] = p => d = c
        /\ \A j \in DOMAIN airborne : airborne[j].cell \in Cells
        /\ \A r \in resting : r.piece \in Piece
    <2>1. \A d \in Cells : board.at[d] = p => d = c
      BY <1>1, JourneyFacts, NoPieceIsNoPiece DEF FlightInv, Occupied
    <2> QED BY <1>1, <2>1, JourneyFacts
            DEF FlightInv, Sets, BoardValue, JumpsTyped, Jump, Cooldown
  <1>6. p = board.at[c] /\ p # NoPiece
    BY <1>1, NoPieceIsNoPiece
  <1> HIDE DEF p
  <1>7. EveryJumpHasItsPiece'
    BY <1>1, <1>3, <1>4, <1>5, <1>6 DEF FlightInv, InFlight, EveryJumpHasItsPiece
  <1>8. JumpersFly'
    <2> SUFFICES ASSUME NEW d \in Cells, board'.at[d] # NoPiece,
                        board'.state[board'.at[d]] = "Airborne"
                 PROVE  \E j \in DOMAIN airborne' :
                           airborne'[j].cell = d /\ airborne'[j].lifted = NoPiece
      BY DEF JumpersFly, Occupied
    <2>1. CASE d = c
      BY <1>4, <2>1
    <2>2. CASE d # c
      <3>1. PICK j \in DOMAIN airborne :
                   airborne[j].cell = d /\ airborne[j].lifted = NoPiece
        BY <1>5, <2>2 DEF FlightInv, InFlight, JumpersFly, Occupied
      <3> QED BY <1>4, <3>1
    <2> QED BY <2>1, <2>2
  <1>9. OneJumpOnACell'
    BY <1>3, <1>4 DEF FlightInv, InFlight, OneJumpOnACell
  <1>10. ArriversWait'
    BY <1>1, <1>3, <1>4, <1>5, <1>6 DEF FlightInv, InFlight, ArriversWait, Occupied
  <1>11. RestersRest'
    BY <1>1, <1>3, <1>5 DEF FlightInv, InFlight, RestersRest
  <1>12. NoPieceIsLost'
    BY <1>1, <1>4, <1>5 DEF FlightInv, InFlight, NoPieceIsLost, IsCaptured, IsLifted, OnBoard
  <1> QED BY <1>7, <1>8, <1>9, <1>10, <1>11, <1>12 DEF InFlight

LEMMA WaitEffect ==
    ASSUME JourneyInv, NEW delta \in Deltas, Wait(delta)
    PROVE  /\ ~Busy /\ delta \in Nat
           /\ board'.at = board.at /\ board'.cell = board.cell /\ board'.kind = board.kind
           /\ \A q \in Piece :
                \/ board'.state[q] = board.state[q]
                \/ /\ board.state[q] = "Resting" /\ board'.state[q] = "Idle"
                   /\ \E r \in resting : r.piece = q /\ r.elapsed + delta >= CooldownMs
           /\ resting' = {r \in {TickedCooldown(s, delta) : s \in resting} :
                            r.elapsed < CooldownMs}
           /\ \A r \in resting : /\ TickedCooldown(r, delta).piece = r.piece
                                 /\ TickedCooldown(r, delta).elapsed = r.elapsed + delta
           /\ DOMAIN airborne' = DOMAIN airborne
           /\ \A j \in DOMAIN airborne :
                /\ airborne'[j].cell = airborne[j].cell
                /\ airborne'[j].lifted = airborne[j].lifted
                /\ airborne'[j].elapsed = airborne[j].elapsed + delta
           /\ DOMAIN active' = DOMAIN active
           /\ \A t \in DOMAIN active : active'[t].path = active[t].path
           /\ \A t \in DOMAIN active : active'[t].step = active[t].step
           /\ reports' = reports
  <1>1. /\ board \in BoardValue /\ resting \subseteq Cooldown /\ delta \in Nat
        /\ airborne \in [DOMAIN airborne -> Jump] /\ active \in [DOMAIN active -> Motion]
    BY JourneyFacts, DeltasAreNaturals DEF JumpsTyped, MotionsTyped
  <1>2. \A r \in resting : /\ TickedCooldown(r, delta).piece = r.piece
                           /\ TickedCooldown(r, delta).elapsed = r.elapsed + delta
    BY <1>1 DEF TickedCooldown, Cooldown
  <1>3. \A q \in Piece :
          \/ board'.state[q] = board.state[q]
          \/ /\ board.state[q] = "Resting" /\ board'.state[q] = "Idle"
             /\ \E r \in resting : r.piece = q /\ r.elapsed + delta >= CooldownMs
    <2> SUFFICES ASSUME NEW q \in Piece
                 PROVE  \/ board'.state[q] = board.state[q]
                        \/ /\ board.state[q] = "Resting" /\ board'.state[q] = "Idle"
                           /\ \E r \in resting : r.piece = q /\ r.elapsed + delta >= CooldownMs
      OBVIOUS
    <2>1. board'.state[q] = IF RestIsOver(q, delta) THEN "Idle" ELSE board.state[q]
      BY <1>1 DEF Wait, StartTick, BoardValue
    <2> QED BY <1>2, <2>1 DEF RestIsOver
  <1>4. board'.at = board.at /\ board'.cell = board.cell /\ board'.kind = board.kind
    BY <1>1 DEF Wait, StartTick, BoardValue
  <1>5. /\ DOMAIN airborne' = DOMAIN airborne
        /\ \A j \in DOMAIN airborne :
             /\ airborne'[j].cell = airborne[j].cell
             /\ airborne'[j].lifted = airborne[j].lifted
             /\ airborne'[j].elapsed = airborne[j].elapsed + delta
    BY <1>1 DEF Wait, StartTick, Jump
  <1>6. /\ DOMAIN active' = DOMAIN active
        /\ \A t \in DOMAIN active : active'[t].path = active[t].path
        /\ \A t \in DOMAIN active : active'[t].step = active[t].step
    BY <1>1 DEF Wait, StartTick, Motion
  <1> QED BY <1>1, <1>2, <1>3, <1>4, <1>5, <1>6 DEF Wait, StartTick

LEMMA WaitInFlight ==
    ASSUME FlightInv, NEW delta \in Deltas, Wait(delta)
    PROVE  InFlight'
  <1>1. /\ delta \in Nat /\ board'.at = board.at
        /\ \A q \in Piece :
             \/ board'.state[q] = board.state[q]
             \/ /\ board.state[q] = "Resting" /\ board'.state[q] = "Idle"
                /\ \E r \in resting : r.piece = q /\ r.elapsed + delta >= CooldownMs
        /\ DOMAIN airborne' = DOMAIN airborne
        /\ \A j \in DOMAIN airborne :
             /\ airborne'[j].cell = airborne[j].cell
             /\ airborne'[j].lifted = airborne[j].lifted
             /\ airborne'[j].elapsed = airborne[j].elapsed + delta
    BY WaitEffect DEF FlightInv
  <1>2. \A r \in resting' : \E s \in resting : /\ r.piece = s.piece
                                              /\ r = TickedCooldown(s, delta)
                                              /\ r.elapsed = s.elapsed + delta
                                              /\ r.elapsed < CooldownMs
    BY WaitEffect DEF FlightInv
  <1>3. /\ \A c \in Cells : board.at[c] \in Piece \cup {NoPiece}
        /\ \A j \in DOMAIN airborne : airborne[j].cell \in Cells /\ airborne[j].elapsed \in Nat
        /\ \A r \in resting : r.piece \in Piece /\ r.elapsed \in Nat
    BY JourneyFacts DEF FlightInv, BoardValue, JumpsTyped, Jump, Cooldown
  <1>4. EveryJumpHasItsPiece'
    BY <1>1, <1>3 DEF FlightInv, InFlight, EveryJumpHasItsPiece
  <1>5. JumpersFly'
    BY <1>1, <1>3 DEF FlightInv, InFlight, JumpersFly, Occupied
  <1>6. OneJumpOnACell'
    BY <1>1 DEF FlightInv, InFlight, OneJumpOnACell
  <1>7. ArriversWait'
    <2> SUFFICES ASSUME NEW j \in DOMAIN airborne, airborne[j].lifted # NoPiece,
                        NEW p \in Piece, p = board.at[airborne[j].cell]
                 PROVE  \/ board'.state[p] = "Moving"
                        \/ airborne[j].elapsed + delta >= JumpDurationMs
                        \/ /\ board'.state[p] = "Resting"
                           /\ \A r \in resting' :
                                r.piece = p => r.elapsed <= airborne[j].elapsed + delta
      BY <1>1, <1>3 DEF ArriversWait, Occupied
    <2>1. \/ board.state[p] = "Moving"
          \/ airborne[j].elapsed >= JumpDurationMs
          \/ /\ board.state[p] = "Resting"
             /\ \A r \in resting : r.piece = p => r.elapsed <= airborne[j].elapsed
      BY NoPieceIsNoPiece DEF FlightInv, InFlight, ArriversWait, Occupied
    <2>2. CASE board.state[p] = "Moving"
      BY <1>1, <2>2
    <2>3. CASE airborne[j].elapsed >= JumpDurationMs
      BY <1>1, <1>3, <2>3 DEF JumpDurationMs
    <2>4. CASE /\ board.state[p] = "Resting"
               /\ \A r \in resting : r.piece = p => r.elapsed <= airborne[j].elapsed
      <3>1. CASE board'.state[p] = board.state[p]
        BY <1>1, <1>2, <1>3, <2>4, <3>1
      <3>2. CASE \E r \in resting : r.piece = p /\ r.elapsed + delta >= CooldownMs
        BY <1>1, <1>3, <2>4, <3>2 DEF CooldownMs, JumpDurationMs
      <3> QED BY <1>1, <3>1, <3>2
    <2> QED BY <2>1, <2>2, <2>3, <2>4
  <1>8. RestersRest'
    <2>1. ASSUME NEW r \in resting'
          PROVE  board'.state[r.piece] \in {"Resting", "Captured"}
      <3>1. PICK s \in resting : /\ r.piece = s.piece
                                 /\ r.elapsed = s.elapsed + delta
                                 /\ r.elapsed < CooldownMs
        BY <1>2
      <3>2. \A u \in resting : u.piece = r.piece => u = s
        BY <3>1 DEF FlightInv, InFlight, RestersRest
      <3>3. ~(s.elapsed + delta >= CooldownMs)
        BY <1>1, <1>3, <3>1 DEF CooldownMs
      <3>4. board'.state[r.piece] = board.state[r.piece]
        BY <1>1, <1>3, <3>1, <3>2, <3>3
      <3> QED BY <3>1, <3>4 DEF FlightInv, InFlight, RestersRest
    <2>2. ASSUME NEW r \in resting', NEW s \in resting', r.piece = s.piece
          PROVE  r = s
      BY <1>2, <2>2 DEF FlightInv, InFlight, RestersRest
    <2> QED BY <2>1, <2>2 DEF RestersRest
  <1>9. NoPieceIsLost'
    BY <1>1 DEF FlightInv, InFlight, NoPieceIsLost, IsCaptured, IsLifted, OnBoard
  <1> QED BY <1>4, <1>5, <1>6, <1>7, <1>8, <1>9 DEF InFlight

\* The mover walks onto a free cell, or onto that of a piece it takes.
LEMMA WalkInFlight ==
    ASSUME FlightInv, OnlyMovingPiecesTravel, NEW t \in DOMAIN active, To(t) \in Cells,
           NEW victim \in Piece \cup {NoPiece}, board.at[To(t)] = victim,
           victim # Mover(t), victim # NoPiece => board.state[victim] # "Airborne",
           NEW stops \in BOOLEAN, NEW gone,
           Walks(t), Affects(t, To(t), stops, gone, victim), airborne' = airborne
    PROVE  InFlight'
  <1> DEFINE from == From(t)
             to == To(t)
             p == Mover(t)
  <1>1. /\ from \in Cells /\ from # to /\ p \in Piece /\ board.at[from] = p
        /\ board.state[p] = "Moving"
        /\ \A c \in Cells : board.at[c] \in Piece \cup {NoPiece}
        /\ \A c, d \in Cells : board.at[c] = board.at[d] /\ board.at[c] # NoPiece => c = d
        /\ \A j \in DOMAIN airborne : airborne[j].cell \in Cells /\ airborne[j].elapsed \in Nat
        /\ \A r \in resting : r.piece \in Piece
    <2>1. \A c, d \in Cells : board.at[c] = board.at[d] /\ board.at[c] # NoPiece => c = d
      BY JourneyFacts DEF FlightInv, Occupied
    <2>2. /\ from \in Cells /\ p \in Piece /\ board.at[from] = p
          /\ board.state[p] = "Moving" /\ from # to
      BY JourneyFacts, MoversMove DEF FlightInv, Mover, From, Walks
    <2> QED BY <2>1, <2>2, JourneyFacts
            DEF FlightInv, BoardValue, JumpsTyped, Jump, Cooldown
  <1>2. /\ \A c \in Cells : board'.at[c] = IF c = from THEN NoPiece
                                           ELSE IF c = to THEN p ELSE board.at[c]
        /\ \A q \in Piece : board'.state[q] = IF q = victim THEN "Captured"
                                              ELSE IF q = p /\ stops THEN "Resting"
                                              ELSE board.state[q]
        /\ resting' = IF stops THEN resting \cup {Rest(p, to)} ELSE resting
    BY DEF Walks, Affects
  <1>3. Rest(p, to).piece = p /\ Rest(p, to).elapsed = 0
    BY DEF Rest
  <1>4. \A r \in resting : r.piece # p
    BY <1>1 DEF FlightInv, InFlight, RestersRest
  <1>5. victim # p /\ to \in Cells /\ board.at[to] = victim
    OBVIOUS
  <1> HIDE DEF from, to, p
  <1>6. EveryJumpHasItsPiece'
    <2> SUFFICES ASSUME NEW j \in DOMAIN airborne, airborne[j].lifted = NoPiece,
                        NEW c, c = airborne[j].cell
                 PROVE  board'.at[c] # NoPiece /\ board'.state[board'.at[c]] = "Airborne"
      BY DEF EveryJumpHasItsPiece
    <2>1. c \in Cells /\ board.at[c] # NoPiece /\ board.state[board.at[c]] = "Airborne"
      BY <1>1 DEF FlightInv, InFlight, EveryJumpHasItsPiece
    <2>2. c # from /\ c # to
      BY <1>1, <1>5, <2>1
    <2>3. board'.at[c] = board.at[c] /\ board.at[c] \in Piece
          /\ board.at[c] # victim /\ board.at[c] # p
      BY <1>1, <1>2, <1>5, <2>1, <2>2
    <2> QED BY <1>2, <2>1, <2>3
  <1>7. JumpersFly'
    <2> SUFFICES ASSUME NEW c \in Cells, board'.at[c] # NoPiece,
                        board'.state[board'.at[c]] = "Airborne"
                 PROVE  \E j \in DOMAIN airborne :
                           airborne[j].cell = c /\ airborne[j].lifted = NoPiece
      BY DEF JumpersFly, Occupied
    <2>1. c # from /\ c # to
      BY <1>1, <1>2, <1>5
    <2>2. board.at[c] # NoPiece /\ board.state[board.at[c]] = "Airborne"
      BY <1>1, <1>2, <2>1
    <2> QED BY <2>2 DEF FlightInv, InFlight, JumpersFly, Occupied
  <1>8. OneJumpOnACell'
    BY DEF FlightInv, InFlight, OneJumpOnACell
  <1>9. ArriversWait'
    <2> SUFFICES ASSUME NEW j \in DOMAIN airborne, airborne[j].lifted # NoPiece,
                        NEW q, q = board'.at[airborne[j].cell], q # NoPiece
                 PROVE  \/ board'.state[q] = "Moving"
                        \/ airborne[j].elapsed >= JumpDurationMs
                        \/ /\ board'.state[q] = "Resting"
                           /\ \A r \in resting' :
                                r.piece = q => r.elapsed <= airborne[j].elapsed
      BY DEF ArriversWait, Occupied
    <2>1. CASE airborne[j].cell = to
      <3>1. q = p
        BY <1>1, <1>2, <1>5, <2>1
      <3>2. CASE stops
        BY <1>1, <1>2, <1>3, <1>4, <1>5, <3>1, <3>2
      <3>3. CASE ~stops
        BY <1>1, <1>2, <1>5, <3>1, <3>3
      <3> QED BY <3>2, <3>3
    <2>2. CASE airborne[j].cell # to
      <3>1. q = board.at[airborne[j].cell] /\ airborne[j].cell # from /\ q \in Piece
            /\ q # p /\ q # victim
        BY <1>1, <1>2, <1>5, <2>2
      <3>2. \/ board.state[q] = "Moving"
            \/ airborne[j].elapsed >= JumpDurationMs
            \/ /\ board.state[q] = "Resting"
               /\ \A r \in resting : r.piece = q => r.elapsed <= airborne[j].elapsed
        BY <3>1 DEF FlightInv, InFlight, ArriversWait, Occupied
      <3> QED BY <1>2, <1>3, <3>1, <3>2
    <2> QED BY <2>1, <2>2
  <1>10. RestersRest'
    <2>1. \A r \in resting' : r \in resting \/ (r = Rest(p, to) /\ stops)
      BY <1>2
    <2>2. \A r \in resting : r.piece \in Piece /\ r.piece # p
                             /\ board.state[r.piece] \in {"Resting", "Captured"}
      BY <1>1, <1>4 DEF FlightInv, InFlight, RestersRest
    <2>3. \A r \in resting' : board'.state[r.piece] \in {"Resting", "Captured"}
      BY <1>1, <1>2, <1>3, <1>5, <2>1, <2>2
    <2>4. \A r, s \in resting' : r.piece = s.piece => r = s
      BY <1>3, <2>1, <2>2 DEF FlightInv, InFlight, RestersRest
    <2> QED BY <2>3, <2>4 DEF RestersRest
  <1>11. NoPieceIsLost'
    <2> SUFFICES ASSUME NEW q \in Piece, ~(board'.state[q] = "Captured"), ~IsLifted(q)
                 PROVE  \E c \in Cells : board'.at[c] = q
      BY DEF NoPieceIsLost, IsCaptured, IsLifted, OnBoard
    <2>1. CASE q = p
      BY <1>1, <1>2, <1>5, <2>1
    <2>2. CASE q # p
      <3>1. q # victim /\ ~IsCaptured(q)
        BY <1>2, <2>2 DEF IsCaptured
      <3>2. PICK c \in Cells : board.at[c] = q
        BY <3>1 DEF FlightInv, InFlight, NoPieceIsLost, OnBoard
      <3> QED BY <1>1, <1>2, <1>5, <2>2, <3>1, <3>2
    <2> QED BY <2>1, <2>2
  <1> QED BY <1>6, <1>7, <1>8, <1>9, <1>10, <1>11 DEF InFlight

LEMMA StopInFlight ==
    ASSUME FlightInv, OnlyMovingPiecesTravel, NEW t \in DOMAIN active,
           Stands, Affects(t, From(t), TRUE, {}, NoPiece), airborne' = airborne
    PROVE  InFlight'
  <1> DEFINE p == Mover(t)
             rest == Rest(p, From(t))
  <1>1. /\ p \in Piece /\ board.state[p] = "Moving"
        /\ \A c \in Cells : board.at[c] \in Piece \cup {NoPiece}
        /\ \A j \in DOMAIN airborne : airborne[j].cell \in Cells /\ airborne[j].elapsed \in Nat
        /\ \A r \in resting : r.piece \in Piece
    BY JourneyFacts, MoversMove
       DEF FlightInv, BoardValue, JumpsTyped, Jump, Cooldown
  <1>2. /\ \A c \in Cells : board'.at[c] = board.at[c]
        /\ \A q \in Piece : board'.state[q] = IF q = p THEN "Resting" ELSE board.state[q]
        /\ resting' = resting \cup {rest}
    BY NoPieceIsNoPiece DEF Stands, Affects
  <1>3. rest.piece = p /\ rest.elapsed = 0
    BY DEF Rest
  <1>4. \A r \in resting : r.piece # p
    BY <1>1 DEF FlightInv, InFlight, RestersRest
  <1> HIDE DEF p, rest
  <1>5. EveryJumpHasItsPiece'
    BY <1>1, <1>2, NoPieceIsNoPiece DEF FlightInv, InFlight, EveryJumpHasItsPiece
  <1>6. JumpersFly'
    BY <1>1, <1>2 DEF FlightInv, InFlight, JumpersFly, Occupied
  <1>7. OneJumpOnACell'
    BY DEF FlightInv, InFlight, OneJumpOnACell
  <1>8. ArriversWait'
    <2> SUFFICES ASSUME NEW j \in DOMAIN airborne, airborne[j].lifted # NoPiece,
                        NEW q \in Piece, q = board.at[airborne[j].cell]
                 PROVE  \/ board'.state[q] = "Moving"
                        \/ airborne[j].elapsed >= JumpDurationMs
                        \/ /\ board'.state[q] = "Resting"
                           /\ \A r \in resting' :
                                r.piece = q => r.elapsed <= airborne[j].elapsed
      BY <1>1, <1>2 DEF ArriversWait, Occupied
    <2>1. \/ board.state[q] = "Moving"
          \/ airborne[j].elapsed >= JumpDurationMs
          \/ /\ board.state[q] = "Resting"
             /\ \A r \in resting : r.piece = q => r.elapsed <= airborne[j].elapsed
      BY NoPieceIsNoPiece DEF FlightInv, InFlight, ArriversWait, Occupied
    <2>2. CASE q = p
      BY <1>1, <1>2, <1>3, <1>4, <2>2
    <2>3. CASE q # p
      BY <1>2, <1>3, <2>1, <2>3
    <2> QED BY <2>2, <2>3
  <1>9. RestersRest'
    BY <1>1, <1>2, <1>3, <1>4 DEF FlightInv, InFlight, RestersRest
  <1>10. NoPieceIsLost'
    BY <1>1, <1>2 DEF FlightInv, InFlight, NoPieceIsLost, IsCaptured, IsLifted, OnBoard
  <1> QED BY <1>5, <1>6, <1>7, <1>8, <1>9, <1>10 DEF InFlight

\* The jumper on the next cell is taken up by the one jump that began there.
LEMMA YieldInFlight ==
    ASSUME FlightInv, OnlyMovingPiecesTravel, NEW t \in DOMAIN active, To(t) \in Cells,
           NEW jumper \in Piece, board.at[To(t)] = jumper, jumper # Mover(t),
           board.state[jumper] = "Airborne",
           Walks(t), Affects(t, To(t), TRUE, {}, NoPiece),
           airborne' = [j \in DOMAIN airborne |->
                          IF j \in JumpAt(To(t))
                          THEN [airborne[j] EXCEPT !.lifted = jumper]
                          ELSE airborne[j]]
    PROVE  InFlight'
  <1> DEFINE from == From(t)
             to == To(t)
             p == Mover(t)
             rest == Rest(p, to)
  <1>1. /\ from \in Cells /\ from # to /\ p \in Piece /\ board.at[from] = p
        /\ board.state[p] = "Moving"
        /\ \A c \in Cells : board.at[c] \in Piece \cup {NoPiece}
        /\ \A c, d \in Cells : board.at[c] = board.at[d] /\ board.at[c] # NoPiece => c = d
        /\ airborne \in [DOMAIN airborne -> Jump]
        /\ \A j \in DOMAIN airborne : airborne[j].cell \in Cells /\ airborne[j].elapsed \in Nat
        /\ \A r \in resting : r.piece \in Piece
    <2>1. \A c, d \in Cells : board.at[c] = board.at[d] /\ board.at[c] # NoPiece => c = d
      BY JourneyFacts DEF FlightInv, Occupied
    <2>2. /\ from \in Cells /\ p \in Piece /\ board.at[from] = p
          /\ board.state[p] = "Moving" /\ from # to
      BY JourneyFacts, MoversMove DEF FlightInv, Mover, From, Walks
    <2> QED BY <2>1, <2>2, JourneyFacts
            DEF FlightInv, BoardValue, JumpsTyped, Jump, Cooldown
  <1>2. /\ \A c \in Cells : board'.at[c] = IF c = from THEN NoPiece
                                           ELSE IF c = to THEN p ELSE board.at[c]
        /\ \A q \in Piece : board'.state[q] = IF q = p THEN "Resting" ELSE board.state[q]
        /\ resting' = resting \cup {rest}
    BY NoPieceIsNoPiece DEF Walks, Affects
  <1>3. rest.piece = p /\ rest.elapsed = 0
    BY DEF Rest
  <1>4. \A r \in resting : r.piece # p
    BY <1>1 DEF FlightInv, InFlight, RestersRest
  <1>5. PICK k \in DOMAIN airborne : airborne[k].cell = to /\ airborne[k].lifted = NoPiece
    BY NoPieceIsNoPiece DEF FlightInv, InFlight, JumpersFly, Occupied
  <1>6. \A j \in DOMAIN airborne : j \in JumpAt(to) <=> j = k
    <2>1. \A i \in DOMAIN airborne : airborne[i].cell = to => i = k
      BY <1>5 DEF FlightInv, InFlight, OneJumpOnACell
    <2>2. k <= k
      BY JourneyFacts, TicketsAreNaturals DEF FlightInv, JumpsTyped
    <2> QED BY <1>5, <2>1, <2>2 DEF JumpAt
  <1>7. /\ DOMAIN airborne' = DOMAIN airborne
        /\ airborne'[k].lifted = jumper
        /\ \A j \in DOMAIN airborne : /\ airborne'[j].cell = airborne[j].cell
                                      /\ airborne'[j].elapsed = airborne[j].elapsed
                                      /\ j # k => airborne'[j].lifted = airborne[j].lifted
    BY <1>1, <1>6 DEF Jump
  <1>8. jumper # p /\ to \in Cells /\ board.at[to] = jumper /\ jumper # NoPiece
    BY NoPieceIsNoPiece
  <1>9. \A j \in DOMAIN airborne : airborne[j].cell = to <=> j = k
    BY <1>5 DEF FlightInv, InFlight, OneJumpOnACell
  <1> HIDE DEF from, to, p, rest
  <1>10. EveryJumpHasItsPiece'
    <2> SUFFICES ASSUME NEW j \in DOMAIN airborne, airborne'[j].lifted = NoPiece,
                        NEW c, c = airborne[j].cell
                 PROVE  board'.at[c] # NoPiece /\ board'.state[board'.at[c]] = "Airborne"
      BY <1>7 DEF EveryJumpHasItsPiece
    <2>1. j # k /\ airborne[j].lifted = NoPiece /\ c \in Cells
      BY <1>1, <1>7, <1>8
    <2>2. /\ board.at[c] # NoPiece /\ board.state[board.at[c]] = "Airborne"
      BY <2>1 DEF FlightInv, InFlight, EveryJumpHasItsPiece
    <2> QED BY <1>1, <1>2, <1>8, <1>9, <2>1, <2>2
  <1>11. JumpersFly'
    <2> SUFFICES ASSUME NEW c \in Cells, board'.at[c] # NoPiece,
                        board'.state[board'.at[c]] = "Airborne"
                 PROVE  \E j \in DOMAIN airborne :
                           airborne'[j].cell = c /\ airborne'[j].lifted = NoPiece
      BY <1>7 DEF JumpersFly, Occupied
    <2>1. c # from /\ c # to
      BY <1>1, <1>2, <1>8
    <2>2. board.at[c] # NoPiece /\ board.state[board.at[c]] = "Airborne"
      BY <1>1, <1>2, <2>1
    <2>3. PICK j \in DOMAIN airborne : airborne[j].cell = c /\ airborne[j].lifted = NoPiece
      BY <2>2 DEF FlightInv, InFlight, JumpersFly, Occupied
    <2> QED BY <1>5, <1>7, <2>1, <2>3
  <1>12. OneJumpOnACell'
    BY <1>7 DEF FlightInv, InFlight, OneJumpOnACell
  <1>13. ArriversWait'
    <2> SUFFICES ASSUME NEW j \in DOMAIN airborne, airborne'[j].lifted # NoPiece,
                        NEW q, q = board'.at[airborne[j].cell], q # NoPiece
                 PROVE  \/ board'.state[q] = "Moving"
                        \/ airborne[j].elapsed >= JumpDurationMs
                        \/ /\ board'.state[q] = "Resting"
                           /\ \A r \in resting' :
                                r.piece = q => r.elapsed <= airborne[j].elapsed
      BY <1>7 DEF ArriversWait, Occupied
    <2>1. CASE j = k
      <3>1. q = p
        BY <1>1, <1>2, <1>5, <1>8, <2>1
      <3> QED BY <1>1, <1>2, <1>3, <1>4, <3>1
    <2>2. CASE j # k
      <3>1. airborne[j].cell # to /\ airborne[j].cell # from
        BY <1>1, <1>2, <1>9, <2>2
      <3>2. q = board.at[airborne[j].cell] /\ q \in Piece /\ q # p
        BY <1>1, <1>2, <3>1
      <3>3. \/ board.state[q] = "Moving"
            \/ airborne[j].elapsed >= JumpDurationMs
            \/ /\ board.state[q] = "Resting"
               /\ \A r \in resting : r.piece = q => r.elapsed <= airborne[j].elapsed
        BY <1>7, <2>2, <3>2 DEF FlightInv, InFlight, ArriversWait, Occupied
      <3> QED BY <1>2, <1>3, <3>2, <3>3
    <2> QED BY <2>1, <2>2
  <1>14. RestersRest'
    BY <1>1, <1>2, <1>3, <1>4 DEF FlightInv, InFlight, RestersRest
  <1>15. NoPieceIsLost'
    <2> SUFFICES ASSUME NEW q \in Piece, ~(board'.state[q] = "Captured"),
                        ~\E j \in DOMAIN airborne : airborne'[j].lifted = q
                 PROVE  \E c \in Cells : board'.at[c] = q
      BY <1>7 DEF NoPieceIsLost, IsCaptured, IsLifted, OnBoard
    <2>1. CASE q = p
      BY <1>1, <1>2, <1>8, <2>1
    <2>2. CASE q # p
      <3>1. q # jumper /\ ~IsCaptured(q)
        BY <1>2, <1>7, <2>2 DEF IsCaptured
      <3>2. ~IsLifted(q)
        <4> SUFFICES ASSUME NEW j \in DOMAIN airborne, airborne[j].lifted = q PROVE FALSE
          BY DEF IsLifted
        <4>1. j # k
          BY <1>5, NoPieceIsNoPiece
        <4> QED BY <1>7, <4>1
      <3>3. PICK c \in Cells : board.at[c] = q
        BY <3>1, <3>2 DEF FlightInv, InFlight, NoPieceIsLost, OnBoard
      <3> QED BY <1>1, <1>2, <1>8, <2>2, <3>1, <3>3
    <2> QED BY <2>1, <2>2
  <1> QED BY <1>10, <1>11, <1>12, <1>13, <1>14, <1>15 DEF InFlight

LEMMA ResolveInFlight ==
    ASSUME FlightInv, OnlyMovingPiecesTravel, NEW t \in Tickets, Resolve(t)
    PROVE  InFlight'
  <1>1. /\ JourneyInv /\ t \in DOMAIN active /\ To(t) \in Cells
    <2>1. PICK outcome : Crosses(t, outcome)
      BY DEF Resolve, ResolveCrossing, EnterFreeCell, CaptureOccupant,
             StopBeforeFriend, YieldToAirborne
    <2> QED BY <2>1, CrossingFacts, JourneyFacts DEF FlightInv, To
  <1>2. Mover(t) \in Piece /\ Complete(t) \in BOOLEAN
    BY <1>1, JourneyFacts DEF Complete, IsComplete
  <1>3. CASE EnterFreeCell(t)
    <2> DEFINE victim == NoPiece
               gone == {}
               stops == Complete(t)
    <2>1. /\ board.at[To(t)] = victim /\ victim = NoPiece /\ victim # Mover(t)
          /\ Walks(t) /\ Affects(t, To(t), stops, gone, victim)
          /\ airborne' = airborne /\ stops \in BOOLEAN
      BY <1>1, <1>2, <1>3, EnterEffect, NoPieceIsNoPiece
    <2> HIDE DEF victim, gone, stops
    <2> QED BY <1>1, <2>1, WalkInFlight
  <1>4. CASE CaptureOccupant(t)
    <2> DEFINE victim == Occupant(t)
               gone == MotionsAt(To(t))
               stops == Complete(t)
    <2>1. /\ board.at[To(t)] = victim /\ victim \in Piece /\ victim # Mover(t)
          /\ board.state[victim] # "Airborne"
          /\ Walks(t) /\ Affects(t, To(t), stops, gone, victim)
          /\ airborne' = airborne /\ stops \in BOOLEAN
      BY <1>1, <1>2, <1>4, CaptureEffect
    <2> HIDE DEF victim, gone, stops
    <2> QED BY <1>1, <2>1, WalkInFlight
  <1>5. CASE StopBeforeFriend(t)
    BY <1>1, <1>5, StopEffect, StopInFlight
  <1>6. CASE YieldToAirborne(t)
    <2> DEFINE jumper == Occupant(t)
    <2>1. /\ board.at[To(t)] = jumper /\ jumper \in Piece /\ jumper # Mover(t)
          /\ board.state[jumper] = "Airborne"
          /\ Walks(t) /\ Affects(t, To(t), TRUE, {}, NoPiece)
          /\ airborne' = [j \in DOMAIN airborne |->
                            IF j \in JumpAt(To(t))
                            THEN [airborne[j] EXCEPT !.lifted = jumper]
                            ELSE airborne[j]]
      BY <1>1, <1>6, YieldEffect
    <2> HIDE DEF jumper
    <2> QED BY <1>1, <2>1, YieldInFlight
  <1> QED BY <1>3, <1>4, <1>5, <1>6 DEF Resolve, ResolveCrossing

-----------------------------------------------------------------------------
\* A jump that lands: piece p comes to rest on c, where taken stood before
\* (the piece itself, an arriver, or nobody).
Lands(j, p, taken) ==
    LET c == airborne[j].cell
    IN  /\ p \in Piece /\ p # taken
        /\ board'.kind = board.kind
        /\ \A d \in Cells : board'.at[d] = IF d = c THEN p ELSE board.at[d]
        /\ \A q \in Piece : board'.cell[q] = IF q = p THEN c ELSE board.cell[q]
        /\ \A q \in Piece : board'.state[q] = IF q = p THEN "Resting"
                                              ELSE IF q = taken THEN "Captured"
                                              ELSE board.state[q]
        /\ resting' = resting \cup {Rest(p, c)}
        /\ airborne' = Without(airborne, {j})
        /\ active' = active
        /\ KeepsReports

LEMMA LandAtRestEffect ==
    ASSUME JourneyInv, NEW j \in Tickets, LandAtRest(j)
    PROVE  /\ j \in DOMAIN airborne /\ airborne[j].lifted = NoPiece
           /\ airborne[j].cell \in Cells
           /\ Lands(j, board.at[airborne[j].cell], NoPiece)
  <1> DEFINE c == airborne[j].cell
             p == board.at[c]
  <1>1. /\ j \in DOMAIN airborne /\ airborne[j].lifted = NoPiece /\ c \in Cells
        /\ Occupied(board, c) /\ board \in BoardValue
    BY JourneyFacts DEF LandAtRest, IsNextLanding, Landings, JumpsTyped, Jump
  <1>2. p \in Piece /\ board.cell[p] = c
    BY <1>1, JourneyFacts
  <1>3. /\ board' = SetPieceState(board, c, "Resting")
        /\ resting' = resting \cup {Rest(p, c)}
        /\ airborne' = Without(airborne, {j}) /\ active' = active /\ reports' = reports
    BY DEF LandAtRest
  <1> HIDE DEF c
  <1>4. /\ board'.at = board.at /\ board'.cell = board.cell /\ board'.kind = board.kind
        /\ \A q \in Piece : board'.state[q] = IF q = p THEN "Resting" ELSE board.state[q]
    BY <1>1, <1>2, <1>3, SetPieceStateSets DEF State
  <1>5. Lands(j, p, NoPiece)
    BY <1>1, <1>2, <1>3, <1>4, NoPieceIsNoPiece DEF Lands, KeepsReports, c
  <1> QED BY <1>1, <1>5 DEF c

LEMMA LandOnArriverEffect ==
    ASSUME JourneyInv, NEW j \in Tickets, LandOnArriver(j)
    PROVE  /\ j \in DOMAIN airborne /\ airborne[j].lifted # NoPiece
           /\ airborne[j].cell \in Cells
           /\ Lands(j, airborne[j].lifted, board.at[airborne[j].cell])
  <1> DEFINE c == airborne[j].cell
             p == airborne[j].lifted
             taken == board.at[c]
             cleared == IF taken = NoPiece THEN board
                        ELSE RemovePiece(SetState(board, taken, "Captured"), c)
             placed == PlacePiece(cleared, p, c)
  <1>1. /\ j \in DOMAIN airborne /\ p # NoPiece /\ p \in Piece /\ c \in Cells
        /\ board \in BoardValue /\ taken \in Piece \cup {NoPiece}
    BY JourneyFacts DEF LandOnArriver, IsNextLanding, Landings, JumpsTyped, Jump, BoardValue
  <1>2. p # taken
    <2>1. IsLifted(p)
      BY <1>1 DEF IsLifted
    <2> QED BY <1>1, <2>1, JourneyFacts DEF Occupied
  <1>3. /\ board' = SetPieceState(placed, c, "Resting")
        /\ resting' = resting \cup {Rest(p, c)}
        /\ reports' = Append(reports, LandingReport(c, taken))
        /\ airborne' = Without(airborne, {j}) /\ active' = active
    BY DEF LandOnArriver
  <1>4. KeepsReports
    <2>1. reports \in Seq(ArrivalReport)
      BY JourneyFacts DEF TypeInv, TypeOK, ArbiterTypeOK
    <2>2. LandingReport(c, taken) \in ArrivalReport
      BY <1>1 DEF LandingReport, Report, ArrivalReport
    <2> DEFINE report == LandingReport(c, taken)
    <2> HIDE DEF report
    <2>3. reports' = Append(reports, report)
      BY <1>3 DEF report
    <2> QED BY <2>1, <2>3 DEF KeepsReports
  <1> HIDE DEF c, p, taken
  <1>5. /\ cleared \in BoardValue /\ cleared.kind = board.kind /\ cleared.cell = board.cell
        /\ \A q \in Piece : cleared.state[q] = IF q = taken THEN "Captured"
                                               ELSE board.state[q]
        /\ \A d \in Cells \ {c} : cleared.at[d] = board.at[d]
    <2>1. CASE taken = NoPiece
      BY <1>1, <2>1, NoPieceIsNoPiece
    <2>2. CASE taken # NoPiece
      <3>1. taken \in Piece /\ cleared = RemovePiece(SetState(board, taken, "Captured"), c)
        BY <1>1, <2>2
      <3> HIDE DEF cleared
      <3>2. cleared.cell = board.cell
        BY <1>1, <3>1 DEF RemovePiece, SetState, BoardValue
      <3> QED BY <1>1, <3>1, <3>2, RemovingTakes
    <2> QED BY <2>1, <2>2
  <1> HIDE DEF cleared
  <1>6. /\ placed \in BoardValue /\ placed.kind = board.kind /\ placed.state = cleared.state
        /\ \A d \in Cells : placed.at[d] = IF d = c THEN p ELSE board.at[d]
        /\ \A q \in Piece : placed.cell[q] = IF q = p THEN c ELSE board.cell[q]
    <2>1. placed \in BoardValue
      BY <1>1, <1>5, PlacePieceType
    <2>2. /\ placed.at = [cleared.at EXCEPT ![c] = p]
          /\ placed.cell = [cleared.cell EXCEPT ![p] = c]
          /\ placed.kind = cleared.kind /\ placed.state = cleared.state
      BY <1>5 DEF PlacePiece, BoardValue
    <2>3. cleared.at \in [Cells -> Piece \cup {NoPiece}] /\ cleared.cell \in [Piece -> Cells]
      BY <1>5 DEF BoardValue
    <2> HIDE DEF placed
    <2> QED BY <1>1, <1>5, <2>1, <2>2, <2>3
  <1> HIDE DEF placed
  <1>7. /\ board'.at = placed.at /\ board'.cell = placed.cell /\ board'.kind = placed.kind
        /\ \A q \in Piece : board'.state[q] = IF q = p THEN "Resting" ELSE placed.state[q]
    BY <1>1, <1>3, <1>6, SetPieceStateSets DEF State
  <1>8. Lands(j, p, taken)
    BY <1>1, <1>2, <1>3, <1>4, <1>5, <1>6, <1>7 DEF Lands, c
  <1> QED BY <1>1, <1>8 DEF c, p, taken

\* The piece that lands is the one its jump took off, still in the air.
LEMMA LandEffect ==
    ASSUME FlightInv, NEW j \in Tickets, LandJump(j)
    PROVE  /\ j \in DOMAIN airborne /\ airborne[j].cell \in Cells
           /\ \E p, taken :
                /\ Lands(j, p, taken)
                /\ board.state[p] = "Airborne"
                /\ \A d \in Cells \ {airborne[j].cell} :
                      board.at[d] # NoPiece => board.at[d] # p /\ board.at[d] # taken
                /\ taken # NoPiece => /\ taken \in Piece /\ ~IsCaptured(taken)
                                      /\ board.state[taken] # "Airborne"
                /\ board.at[airborne[j].cell] \in {p, taken}
                /\ airborne[j].lifted \in {p, NoPiece}
  <1> DEFINE c == airborne[j].cell
  <1>0. /\ JourneyInv /\ board \in BoardValue
        /\ \A d, e \in Cells : board.at[d] = board.at[e] /\ board.at[d] # NoPiece => d = e
    BY JourneyFacts DEF FlightInv, Occupied
  <1>1. CASE LandAtRest(j)
    <2>1. /\ j \in DOMAIN airborne /\ airborne[j].lifted = NoPiece /\ c \in Cells
          /\ Lands(j, board.at[c], NoPiece)
      BY <1>0, <1>1, LandAtRestEffect
    <2>2. board.state[board.at[c]] = "Airborne" /\ board.at[c] # NoPiece
      BY <2>1 DEF FlightInv, InFlight, EveryJumpHasItsPiece
    <2> DEFINE p == board.at[c]
               taken == NoPiece
    <2>3. /\ Lands(j, p, taken) /\ board.state[p] = "Airborne"
          /\ taken = NoPiece /\ board.at[c] \in {p, taken}
          /\ airborne[j].lifted \in {p, NoPiece}
          /\ \A d \in Cells \ {c} :
                board.at[d] # NoPiece => board.at[d] # p /\ board.at[d] # taken
      BY <1>0, <2>1, <2>2
    <2> HIDE DEF p, taken
    <2> QED BY <2>1, <2>3
  <1>2. CASE LandOnArriver(j)
    <2> DEFINE p == airborne[j].lifted
               taken == board.at[c]
    <2>1. /\ j \in DOMAIN airborne /\ p # NoPiece /\ c \in Cells
          /\ Lands(j, p, taken) /\ p \in Piece
      BY <1>0, <1>2, LandOnArriverEffect DEF Lands
    <2>2. IsLifted(p)
      BY <2>1 DEF IsLifted
    <2>3. board.state[p] = "Airborne" /\ \A d \in Cells : board.at[d] # p
      <3>1. LiftedBy(airborne, p)
        BY <2>1 DEF LiftedBy
      <3> QED BY <1>0, <2>1, <3>1, JourneyFacts
              DEF InSync, LiftedIsAirborne, OffBoardAgrees, OnBoard
    <2>4. taken # NoPiece => /\ taken \in Piece /\ ~IsCaptured(taken)
                             /\ board.state[taken] # "Airborne"
      <3> SUFFICES ASSUME taken # NoPiece
                   PROVE  /\ taken \in Piece /\ ~IsCaptured(taken)
                          /\ board.state[taken] # "Airborne"
        OBVIOUS
      <3>1. taken \in Piece /\ ~IsCaptured(taken)
        BY <1>0, <2>1, JourneyFacts DEF Occupied
      <3>2. ASSUME board.state[taken] = "Airborne" PROVE FALSE
        <4>1. PICK k \in DOMAIN airborne :
                     airborne[k].cell = c /\ airborne[k].lifted = NoPiece
          BY <2>1, <3>2 DEF FlightInv, InFlight, JumpersFly, Occupied
        <4> QED BY <2>1, <4>1 DEF FlightInv, InFlight, OneJumpOnACell
      <3> QED BY <3>1, <3>2
    <2>5. \A d \in Cells \ {c} :
             board.at[d] # NoPiece => board.at[d] # p /\ board.at[d] # taken
      BY <1>0, <2>1, <2>3
    <2>6. board.at[c] \in {p, taken} /\ airborne[j].lifted \in {p, NoPiece}
      OBVIOUS
    <2> HIDE DEF p, taken
    <2> QED BY <2>1, <2>3, <2>4, <2>5, <2>6
  <1> QED BY <1>1, <1>2 DEF LandJump, Land

LEMMA LandInFlight ==
    ASSUME FlightInv, NEW j \in Tickets, LandJump(j)
    PROVE  InFlight'
  <1> DEFINE c == airborne[j].cell
  <1>1. j \in DOMAIN airborne /\ c \in Cells
    BY LandEffect
  <1>2. PICK p, taken :
          /\ Lands(j, p, taken)
          /\ board.state[p] = "Airborne"
          /\ \A d \in Cells \ {c} :
                board.at[d] # NoPiece => board.at[d] # p /\ board.at[d] # taken
          /\ taken # NoPiece => /\ taken \in Piece /\ ~IsCaptured(taken)
                                /\ board.state[taken] # "Airborne"
          /\ board.at[c] \in {p, taken}
          /\ airborne[j].lifted \in {p, NoPiece}
    BY LandEffect
  <1> DEFINE rest == Rest(p, c)
  <1>3. /\ p \in Piece /\ p # taken
        /\ \A d \in Cells : board'.at[d] = IF d = c THEN p ELSE board.at[d]
        /\ \A q \in Piece : board'.state[q] = IF q = p THEN "Resting"
                                              ELSE IF q = taken THEN "Captured"
                                              ELSE board.state[q]
        /\ resting' = resting \cup {rest}
    BY <1>2 DEF Lands
  <1>4. /\ DOMAIN airborne' = DOMAIN airborne \ {j}
        /\ \A i \in DOMAIN airborne \ {j} : airborne'[i] = airborne[i]
    BY <1>2 DEF Lands, Without
  <1>5. /\ \A d \in Cells : board.at[d] \in Piece \cup {NoPiece}
        /\ \A i \in DOMAIN airborne : airborne[i].cell \in Cells
        /\ \A r \in resting : r.piece \in Piece
    BY JourneyFacts DEF FlightInv, BoardValue, JumpsTyped, Jump, Cooldown
  <1>6. rest.piece = p
    BY DEF Rest
  <1>7. \A r \in resting : r.piece # p
    BY <1>2 DEF FlightInv, InFlight, RestersRest
  <1>8. \A i \in DOMAIN airborne \ {j} : airborne[i].cell # c
    BY <1>1 DEF FlightInv, InFlight, OneJumpOnACell
  <1> HIDE DEF c, rest
  <1>9. EveryJumpHasItsPiece'
    <2> SUFFICES ASSUME NEW i \in DOMAIN airborne \ {j}, airborne[i].lifted = NoPiece,
                        NEW d, d = airborne[i].cell
                 PROVE  board'.at[d] # NoPiece /\ board'.state[board'.at[d]] = "Airborne"
      BY <1>4 DEF EveryJumpHasItsPiece
    <2>1. d \in Cells \ {c} /\ board.at[d] # NoPiece
          /\ board.state[board.at[d]] = "Airborne"
      BY <1>5, <1>8 DEF FlightInv, InFlight, EveryJumpHasItsPiece
    <2>2. board'.at[d] = board.at[d] /\ board.at[d] \in Piece
          /\ board.at[d] # p /\ board.at[d] # taken
      BY <1>2, <1>3, <1>5, <2>1
    <2> QED BY <1>3, <2>1, <2>2
  <1>10. JumpersFly'
    <2> SUFFICES ASSUME NEW d \in Cells, board'.at[d] # NoPiece,
                        board'.state[board'.at[d]] = "Airborne"
                 PROVE  \E i \in DOMAIN airborne' :
                           airborne'[i].cell = d /\ airborne'[i].lifted = NoPiece
      BY DEF JumpersFly, Occupied
    <2>1. d # c
      BY <1>3
    <2>2. board.at[d] # NoPiece /\ board.state[board.at[d]] = "Airborne"
      BY <1>2, <1>3, <1>5, <2>1
    <2>3. PICK i \in DOMAIN airborne : airborne[i].cell = d /\ airborne[i].lifted = NoPiece
      BY <2>2 DEF FlightInv, InFlight, JumpersFly, Occupied
    <2>4. i # j
      BY <2>1, <2>3 DEF c
    <2> QED BY <1>4, <2>3, <2>4
  <1>11. OneJumpOnACell'
    BY <1>4 DEF FlightInv, InFlight, OneJumpOnACell
  <1>12. ArriversWait'
    <2> SUFFICES ASSUME NEW i \in DOMAIN airborne \ {j}, airborne[i].lifted # NoPiece,
                        NEW q, q = board'.at[airborne[i].cell], q # NoPiece
                 PROVE  \/ board'.state[q] = "Moving"
                        \/ airborne[i].elapsed >= JumpDurationMs
                        \/ /\ board'.state[q] = "Resting"
                           /\ \A r \in resting' :
                                r.piece = q => r.elapsed <= airborne[i].elapsed
      BY <1>4 DEF ArriversWait, Occupied
    <2>1. airborne[i].cell \in Cells \ {c}
      BY <1>5, <1>8
    <2>2. q = board.at[airborne[i].cell] /\ q \in Piece /\ q # p /\ q # taken
      BY <1>2, <1>3, <1>5, <2>1
    <2>3. \/ board.state[q] = "Moving"
          \/ airborne[i].elapsed >= JumpDurationMs
          \/ /\ board.state[q] = "Resting"
             /\ \A r \in resting : r.piece = q => r.elapsed <= airborne[i].elapsed
      BY <2>2 DEF FlightInv, InFlight, ArriversWait, Occupied
    <2> QED BY <1>3, <1>6, <2>2, <2>3
  <1>13. RestersRest'
    BY <1>3, <1>5, <1>6, <1>7 DEF FlightInv, InFlight, RestersRest
  <1>14. NoPieceIsLost'
    <2> SUFFICES ASSUME NEW q \in Piece, ~(board'.state[q] = "Captured"),
                        ~\E d \in Cells : board'.at[d] = q
                 PROVE  \E i \in DOMAIN airborne' : airborne'[i].lifted = q
      BY DEF NoPieceIsLost, IsCaptured, IsLifted, OnBoard
    <2>1. q # p /\ q # taken
      BY <1>1, <1>3 DEF c
    <2>2. ~IsCaptured(q)
      BY <1>3, <2>1 DEF IsCaptured
    <2>3. ~OnBoard(board, q)
      <3> SUFFICES ASSUME NEW d \in Cells, board.at[d] = q PROVE FALSE
        BY DEF OnBoard
      <3>1. d # c
        BY <1>2, <2>1
      <3> QED BY <1>3, <3>1
    <2>4. PICK i \in DOMAIN airborne : airborne[i].lifted = q
      BY <2>2, <2>3 DEF FlightInv, InFlight, NoPieceIsLost, IsLifted
    <2>5. i # j
      BY <1>2, <2>1, <2>4, NoPieceIsNoPiece
    <2> QED BY <1>4, <2>4, <2>5
  <1> QED BY <1>9, <1>10, <1>11, <1>12, <1>13, <1>14 DEF InFlight

-----------------------------------------------------------------------------
LEMMA DeliverEffect ==
    ASSUME JourneyInv, DeliverReport
    PROVE  /\ board'.at = board.at /\ board'.cell = board.cell
           /\ board'.state = board.state
           /\ UNCHANGED <<active, airborne, resting>>
  <1>1. board \in BoardValue
    BY JourneyFacts
  <1> QED BY <1>1 DEF DeliverReport, BoardValue

LEMMA NextFlightInv ==
    ASSUME FlightInv, [OnlyMovingPiecesTravel]_vars, [Next]_vars
    PROVE  FlightInv'
  <1>1. JourneyInv'
    BY NextSyncInv, NextMotionInv DEF FlightInv, JourneyInv
  <1>2. InFlight'
    <2>1. CASE OnlyMovingPiecesTravel
               /\ \E source, destination \in Cells : RequestMove(source, destination)
      BY <2>1, RequestMoveInFlight
    <2>2. CASE \E c \in Cells : RequestJump(c)
      BY <2>2, RequestJumpInFlight
    <2>3. CASE \E delta \in Deltas : Wait(delta)
      BY <2>3, WaitInFlight
    <2>4. CASE OnlyMovingPiecesTravel /\ \E t \in Tickets : Resolve(t)
      BY <2>4, ResolveInFlight
    <2>5. CASE \E j \in Tickets : LandJump(j)
      BY <2>5, LandInFlight
    <2>6. CASE DeliverReport \/ EndGame \/ UNCHANGED vars
      <3>1. /\ board'.at = board.at /\ board'.state = board.state
            /\ airborne' = airborne /\ resting' = resting
        BY <2>6, DeliverEffect DEF FlightInv, EndGame, vars, arbiterVars
      <3> QED BY <3>1 DEF FlightInv, InFlight, EveryJumpHasItsPiece, JumpersFly,
                          OneJumpOnACell, ArriversWait, RestersRest, NoPieceIsLost,
                          Occupied, IsCaptured, IsLifted, OnBoard
    <2> QED BY <2>1, <2>2, <2>3, <2>4, <2>5, <2>6 DEF Next, TickStep
  <1> QED BY <1>1, <1>2 DEF FlightInv

LEMMA InitJourneyInv == Init => JourneyInv
  <1> SUFFICES ASSUME Init PROVE JourneyInv
    OBVIOUS
  <1>1. DOMAIN active = {}
    BY DEF Init
  <1> QED BY <1>1, InitReportInv
          DEF ReportInv, SyncInv, JourneyInv, MotionInv, EveryMotionHasItsPiece

LEMMA InitFlightInv == Init => FlightInv
  <1> SUFFICES ASSUME Init PROVE FlightInv
    OBVIOUS
  <1>1. DOMAIN airborne = {} /\ resting = {}
    BY DEF Init
  <1>2. \A p \in Piece : board.state[p] = "Idle"
    BY DEF Init, StartBoard
  <1>3. NoPieceIsLost
    <2> SUFFICES ASSUME NEW p \in Piece PROVE board.at[StartCell[p]] = p
      BY StartCellType DEF NoPieceIsLost, OnBoard
    <2>1. StartCell[p] \in Cells
      BY StartCellType
    <2>2. board.at[StartCell[p]] = CHOOSE q \in Piece : StartCell[q] = StartCell[p]
      BY <2>1 DEF Init, StartBoard
    <2> QED BY <2>2, StartCellsDistinct
  <1>4. JumpersFly
    <2> SUFFICES ASSUME NEW c \in Cells, Occupied(board, c),
                        board.state[board.at[c]] = "Airborne"
                 PROVE  FALSE
      BY DEF JumpersFly
    <2>1. board.at[c] \in Piece
      BY InitJourneyInv, JourneyFacts
    <2> QED BY <1>2, <2>1
  <1>5. /\ EveryJumpHasItsPiece /\ OneJumpOnACell /\ ArriversWait /\ RestersRest
    BY <1>1 DEF EveryJumpHasItsPiece, OneJumpOnACell, ArriversWait, RestersRest
  <1> QED BY <1>3, <1>4, <1>5, InitJourneyInv DEF FlightInv, InFlight

(***************************************************************************)
(* The behaviours that end, or stay as they are, at the first landing on a *)
(* piece under way: what the runs that check the arbiter explore.          *)
(***************************************************************************)
UpToAGhost == [][OnlyMovingPiecesTravel]_vars

LEMMA FlightInvHolds == Spec /\ UpToAGhost => []FlightInv
  <1>1. FlightInv /\ [Next]_vars /\ [OnlyMovingPiecesTravel]_vars => FlightInv'
    BY NextFlightInv
  <1> QED BY <1>1, InitFlightInv, PTL DEF Spec, UpToAGhost

(***************************************************************************)
(* Up to the first landing on a piece under way, a piece that is neither   *)
(* captured nor held up by a jump is on the board (yieldToAirborne).       *)
(***************************************************************************)
THEOREM PiecesAreNotLost == Spec /\ UpToAGhost => []NoPieceIsLost
  <1>1. FlightInv => NoPieceIsLost
    BY DEF FlightInv, InFlight
  <1> QED BY <1>1, FlightInvHolds, PTL

(***************************************************************************)
(* Up to the first landing on a piece under way, landAirborne finds the    *)
(* piece it dereferences.                                                  *)
(***************************************************************************)
THEOREM JumpsHaveTheirPieces == Spec /\ UpToAGhost => []EveryJumpHasItsPiece
  <1>1. FlightInv => EveryJumpHasItsPiece
    BY DEF FlightInv, InFlight
  <1> QED BY <1>1, FlightInvHolds, PTL

(***************************************************************************)
(* Up to the first landing on a piece under way, a command that the engine *)
(* has announced is started by the arbiter (requestMove, requestJump).     *)
(***************************************************************************)
THEOREM AnnouncedCommandsStart == Spec /\ UpToAGhost => AcceptedCommandsStart
  <1> DEFINE Starts == \/ \E t \in DOMAIN active' : t \notin DOMAIN active
                       \/ \E j \in DOMAIN airborne' : j \notin DOMAIN airborne
  <1>1. FlightInv /\ [Next]_vars /\ [OnlyMovingPiecesTravel]_vars
          => [logged' # logged => Starts]_vars
    <2> SUFFICES ASSUME FlightInv, Next, OnlyMovingPiecesTravel, logged' # logged
                 PROVE  Starts
      BY DEF vars
    <2>1. CASE \E source, destination \in Cells : RequestMove(source, destination)
      <3>1. PICK source \in Cells, destination \in Cells :
                   RequestMove(source, destination)
        BY <2>1
      <3>2. PICK t \in Tickets :
                   /\ t \notin DOMAIN active
                   /\ active' = Extended(active, t, NewMotion(source, destination))
        BY <3>1, RequestMoveEffect DEF FlightInv
      <3>3. t \in DOMAIN active'
        BY <3>2 DEF Extended
      <3> QED BY <3>2, <3>3
    <2>2. CASE \E c \in Cells : RequestJump(c)
      <3>1. PICK c \in Cells : RequestJump(c)
        BY <2>2
      <3>2. PICK t \in Tickets :
                   /\ t \notin DOMAIN airborne
                   /\ airborne' = Extended(airborne, t,
                                    [cell |-> c, elapsed |-> 0, lifted |-> NoPiece])
        BY <3>1, RequestJumpEffect DEF FlightInv
      <3>3. t \in DOMAIN airborne'
        BY <3>2 DEF Extended
      <3> QED BY <3>2, <3>3
    <2>3. CASE EndGame \/ TickStep
      BY <2>3 DEF EndGame, TickStep, Wait, Resolve, LandJump, DeliverReport
    <2> QED BY <2>1, <2>2, <2>3 DEF Next
  <1> QED BY <1>1, FlightInvHolds, PTL DEF Spec, UpToAGhost, AcceptedCommandsStart

\* A step that takes every piece it touches along the life of a piece.
LivesOn ==
    \A p \in Piece : \/ board'.state[p] = board.state[p]
                     \/ <<board.state[p], board'.state[p]>> \in LifeSteps

LEMMA CaptureIsALifeStep ==
    ASSUME JourneyInv, NEW p \in Piece, ~IsCaptured(p), board.state[p] # "Airborne"
    PROVE  <<board.state[p], "Captured">> \in LifeSteps
  <1>1. board.state[p] \in State
    BY JourneyFacts DEF BoardValue
  <1>2. board.state[p] \in {"Idle", "Moving", "Resting"}
    BY <1>1 DEF State, IsCaptured
  <1> QED BY <1>2 DEF LifeSteps

LEMMA ResolveLivesOn ==
    ASSUME FlightInv, OnlyMovingPiecesTravel, NEW t \in Tickets, Resolve(t)
    PROVE  LivesOn
  <1>1. JourneyInv /\ t \in DOMAIN active
    BY ResolveAffects DEF FlightInv, Crossings
  <1>2. Mover(t) \in Piece /\ board.state[Mover(t)] = "Moving"
    BY <1>1, MoversMove, JourneyFacts
  <1>3. <<"Moving", "Resting">> \in LifeSteps
    BY DEF LifeSteps
  <1>4. ASSUME NEW c, NEW stops, NEW gone, Affects(t, c, stops, gone, NoPiece)
        PROVE  LivesOn
    BY <1>2, <1>3, <1>4, NoPieceIsNoPiece DEF Affects, LivesOn
  <1>5. CASE CaptureOccupant(t)
    <2>1. /\ Occupant(t) \in Piece /\ ~IsCaptured(Occupant(t))
          /\ board.state[Occupant(t)] # "Airborne"
          /\ Affects(t, To(t), Complete(t), MotionsAt(To(t)), Occupant(t))
      <3>1. /\ Occupant(t) \in Piece /\ board.at[To(t)] = Occupant(t)
            /\ board.state[Occupant(t)] # "Airborne"
            /\ Affects(t, To(t), Complete(t), MotionsAt(To(t)), Occupant(t))
        BY <1>1, <1>5, CaptureEffect
      <3>2. To(t) \in Cells
        BY <1>5, CrossingFacts, JourneyFacts, <1>1 DEF CaptureOccupant, To
      <3> QED BY <1>1, <3>1, <3>2, JourneyFacts, NoPieceIsNoPiece DEF Occupied
    <2>2. <<board.state[Occupant(t)], "Captured">> \in LifeSteps
      BY <1>1, <2>1, CaptureIsALifeStep
    <2> QED BY <1>2, <1>3, <2>1, <2>2 DEF Affects, LivesOn
  <1> QED BY <1>1, <1>4, <1>5, EnterEffect, StopEffect, YieldEffect
          DEF Resolve, ResolveCrossing

LEMMA LandLivesOn ==
    ASSUME FlightInv, NEW j \in Tickets, LandJump(j)
    PROVE  LivesOn
  <1>1. PICK p, taken :
          /\ Lands(j, p, taken)
          /\ board.state[p] = "Airborne"
          /\ taken # NoPiece => /\ taken \in Piece /\ ~IsCaptured(taken)
                                /\ board.state[taken] # "Airborne"
    BY LandEffect
  <1>2. taken # NoPiece => <<board.state[taken], "Captured">> \in LifeSteps
    BY <1>1, CaptureIsALifeStep DEF FlightInv
  <1>3. <<"Airborne", "Resting">> \in LifeSteps
    BY DEF LifeSteps
  <1> QED BY <1>1, <1>2, <1>3, NoPieceIsNoPiece DEF Lands, LivesOn

(***************************************************************************)
(* Up to the first landing on a piece under way, every change of a piece's *)
(* state (Piece::setState, called by the arbiter alone) is a step of its   *)
(* life, and a captured piece never comes back.                            *)
(***************************************************************************)
THEOREM PiecesLiveOneLife == Spec /\ UpToAGhost => LifecycleIsRespected
  <1>1. FlightInv /\ [Next]_vars /\ [OnlyMovingPiecesTravel]_vars => [LivesOn]_vars
    <2> SUFFICES ASSUME FlightInv, Next, OnlyMovingPiecesTravel
                 PROVE  LivesOn
      BY DEF vars
    <2>1. CASE \E source, destination \in Cells : RequestMove(source, destination)
      <3>1. PICK source \in Cells, destination \in Cells :
                   RequestMove(source, destination)
        BY <2>1
      <3>2. Sets(source, "Moving") /\ board.state[board.at[source]] = "Idle"
        BY <3>1, RequestMoveEffect DEF FlightInv
      <3> QED BY <3>2 DEF Sets, LivesOn, LifeSteps
    <2>2. CASE \E c \in Cells : RequestJump(c)
      <3>1. PICK c \in Cells : RequestJump(c)
        BY <2>2
      <3>2. Sets(c, "Airborne") /\ board.state[board.at[c]] = "Idle"
        BY <3>1, RequestJumpEffect DEF FlightInv
      <3> QED BY <3>2 DEF Sets, LivesOn, LifeSteps
    <2>3. CASE \E delta \in Deltas : Wait(delta)
      <3>1. PICK delta \in Deltas : Wait(delta)
        BY <2>3
      <3>2. \A q \in Piece :
              \/ board'.state[q] = board.state[q]
              \/ board.state[q] = "Resting" /\ board'.state[q] = "Idle"
        BY <3>1, WaitEffect DEF FlightInv
      <3> QED BY <3>2 DEF LivesOn, LifeSteps
    <2>4. CASE \E t \in Tickets : Resolve(t)
      BY <2>4, ResolveLivesOn
    <2>5. CASE \E j \in Tickets : LandJump(j)
      BY <2>5, LandLivesOn
    <2>6. CASE DeliverReport \/ EndGame
      <3>1. board'.state = board.state
        BY <2>6, DeliverEffect DEF FlightInv, EndGame, arbiterVars
      <3> QED BY <3>1 DEF LivesOn
    <2> QED BY <2>1, <2>2, <2>3, <2>4, <2>5, <2>6 DEF Next, TickStep
  <1>2. [LivesOn]_vars =>
      [\A p \in Piece :
         board'.state[p] = board.state[p]
         \/ <<board.state[p], board'.state[p]>> \in LifeSteps]_vars
    BY DEF LivesOn
  <1> QED BY <1>1, <1>2, FlightInvHolds, PTL DEF Spec, UpToAGhost, LifecycleIsRespected

-----------------------------------------------------------------------------
(***************************************************************************)
(* The promotion of pawns.  A pawn comes to its far row only at the end of *)
(* a journey, since there is no square beyond; so it is reported there,    *)
(* and rests there, until the tick has promoted it: it neither travels nor *)
(* jumps on that row, and nothing comes down there as a pawn.              *)
(***************************************************************************)
NoPawnStartsOnItsFarRow ==
    \A p \in Piece : StartKind[p] = "Pawn" => StartCell[p][1] # FarRow(p)

\* A pawn stands on c, on its far row.
FarPawn(c) ==
    LET p == board.at[c]
    IN  p \in Piece /\ board.kind[p] = "Pawn" /\ c[1] = FarRow(p)

FarPawnsWait ==
    \A c \in Cells : FarPawn(c) =>
        /\ board.state[board.at[c]] \notin {"Moving", "Airborne"}
        /\ ReportedAt(reports, c)

LiftedPawnsAreNear ==
    \A j \in DOMAIN airborne :
        LET p == airborne[j].lifted
        IN  p \in Piece /\ board.kind[p] = "Pawn" => airborne[j].cell[1] # FarRow(p)

JourneysEndAtEdges == \A t \in DOMAIN active : EndsAtEdges(active[t].path)

PawnInv == FlightInv /\ FarPawnsWait /\ LiftedPawnsAreNear /\ JourneysEndAtEdges

LEMMA NoFarPawnBetweenTicks ==
    ASSUME PawnInv, ~Busy
    PROVE  \A c \in Cells : ~FarPawn(c)
  BY DEF PawnInv, FarPawnsWait, ReportedAt, Busy

\* Steps by which no pawn comes to its far row.
LEMMA FarPawnsKeepWaiting ==
    ASSUME PawnInv, board'.kind = board.kind, KeepsReports,
           \A c \in Cells : (FarPawn(c))' =>
              /\ board'.at[c] = board.at[c]
              /\ \/ board'.state[board.at[c]] = board.state[board.at[c]]
                 \/ board'.state[board.at[c]] \notin {"Moving", "Airborne"}
    PROVE  FarPawnsWait'
  <1> SUFFICES ASSUME NEW c \in Cells, (FarPawn(c))'
               PROVE  /\ board'.state[board'.at[c]] \notin {"Moving", "Airborne"}
                      /\ ReportedAt(reports', c)
    BY DEF FarPawnsWait, ReportedAt
  <1>1. board'.at[c] = board.at[c] /\ FarPawn(c)
    BY DEF FarPawn
  <1>2. /\ board.state[board.at[c]] \notin {"Moving", "Airborne"}
        /\ ReportedAt(reports, c)
    BY <1>1 DEF PawnInv, FarPawnsWait
  <1>3. ReportedAt(reports', c)
    BY <1>2 DEF ReportedAt, KeepsReports
  <1> QED BY <1>1, <1>2, <1>3

LEMMA CommandPawns ==
    ASSUME PawnInv, ~Busy, board'.at = board.at, board'.kind = board.kind,
           reports' = reports
    PROVE  FarPawnsWait'
  <1>1. \A c \in Cells : ~FarPawn(c)
    BY NoFarPawnBetweenTicks
  <1> QED BY <1>1 DEF FarPawnsWait, FarPawn

LEMMA RequestMovePawns ==
    ASSUME PawnInv, OnlyMovingPiecesTravel, NEW source \in Cells,
           NEW destination \in Cells, RequestMove(source, destination)
    PROVE  FarPawnsWait' /\ LiftedPawnsAreNear' /\ JourneysEndAtEdges'
  <1>1. /\ board'.at = board.at /\ board'.kind = board.kind
        /\ UNCHANGED <<airborne, reports>> /\ ~Busy
    BY RequestMoveEffect DEF PawnInv, FlightInv, Sets, RequestMove
  <1>2. PICK t \in Tickets :
               /\ t \notin DOMAIN active
               /\ active' = Extended(active, t, NewMotion(source, destination))
    BY RequestMoveEffect DEF PawnInv, FlightInv
  <1>3. EndsAtEdges(NewMotion(source, destination).path)
    BY TravelPathEndsAtEdges DEF NewMotion
  <1>4. JourneysEndAtEdges'
    BY <1>2, <1>3 DEF JourneysEndAtEdges, Extended, PawnInv
  <1>5. LiftedPawnsAreNear'
    BY <1>1 DEF LiftedPawnsAreNear, PawnInv
  <1> QED BY <1>1, <1>4, <1>5, CommandPawns

LEMMA RequestJumpPawns ==
    ASSUME PawnInv, NEW c \in Cells, RequestJump(c)
    PROVE  FarPawnsWait' /\ LiftedPawnsAreNear' /\ JourneysEndAtEdges'
  <1>1. /\ board'.at = board.at /\ board'.kind = board.kind
        /\ UNCHANGED <<active, reports>> /\ ~Busy
    BY RequestJumpEffect DEF PawnInv, FlightInv, Sets, RequestJump
  <1>2. PICK t \in Tickets :
               /\ t \notin DOMAIN airborne
               /\ airborne' = Extended(airborne, t,
                                [cell |-> c, elapsed |-> 0, lifted |-> NoPiece])
    BY RequestJumpEffect DEF PawnInv, FlightInv
  <1>3. LiftedPawnsAreNear'
    <2>1. /\ DOMAIN airborne' = DOMAIN airborne \cup {t}
          /\ airborne'[t].lifted = NoPiece
          /\ \A j \in DOMAIN airborne : airborne'[j] = airborne[j]
      BY <1>2 DEF Extended
    <2> QED BY <1>1, <2>1, NoPieceIsNoPiece DEF LiftedPawnsAreNear, PawnInv
  <1>4. JourneysEndAtEdges'
    BY <1>1 DEF JourneysEndAtEdges, PawnInv
  <1> QED BY <1>1, <1>3, <1>4, CommandPawns

LEMMA WaitPawns ==
    ASSUME PawnInv, NEW delta \in Deltas, Wait(delta)
    PROVE  FarPawnsWait' /\ LiftedPawnsAreNear' /\ JourneysEndAtEdges'
  <1>1. /\ ~Busy /\ board'.at = board.at /\ board'.kind = board.kind
        /\ reports' = reports
        /\ DOMAIN airborne' = DOMAIN airborne
        /\ \A j \in DOMAIN airborne : /\ airborne'[j].cell = airborne[j].cell
                                      /\ airborne'[j].lifted = airborne[j].lifted
        /\ DOMAIN active' = DOMAIN active
        /\ \A t \in DOMAIN active : active'[t].path = active[t].path
    BY WaitEffect DEF PawnInv, FlightInv
  <1>2. LiftedPawnsAreNear'
    BY <1>1 DEF LiftedPawnsAreNear, PawnInv
  <1>3. JourneysEndAtEdges'
    BY <1>1 DEF JourneysEndAtEdges, PawnInv
  <1> QED BY <1>1, <1>2, <1>3, CommandPawns

-----------------------------------------------------------------------------
\* A journey that takes a pawn to its far row ends there.
LEMMA FarPawnsStop ==
    ASSUME PawnInv, OnlyMovingPiecesTravel, NEW t \in Crossings,
           board.kind[Mover(t)] = "Pawn", To(t)[1] = FarRow(Mover(t))
    PROVE  Complete(t)
  <1> SUFFICES ASSUME ~Complete(t) PROVE FALSE
    OBVIOUS
  <1> DEFINE m == active[t]
             row == FarRow(Mover(t))
  <1>1. /\ t \in DOMAIN active /\ m \in Motion /\ m.step \in DOMAIN m.path
        /\ Mover(t) \in Piece /\ From(t) \in Cells
        /\ board.state[Mover(t)] = "Moving"
    BY JourneyFacts, MoversMove DEF PawnInv, FlightInv, Crossings, MotionsTyped
  <1>2. /\ m.path \in Seq(Cells) /\ m.step \in 1 .. Len(m.path)
        /\ From(t) = m.path[m.step] /\ To(t) = m.path[m.step + 1]
        /\ ~(m.step + 1 >= Len(m.path))
    BY <1>1 DEF Motion, From, To, CurrentCell, NextCell, Complete, CompleteStep, IsComplete
  <1>3. row \in {0, Height - 1}
    BY DEF FarRow
  <1>4. EndsAtEdges(m.path)
    BY <1>1 DEF PawnInv, JourneysEndAtEdges
  <1> HIDE DEF m, row
  <1>5. From(t)[1] = row
    <2>1. /\ m.step + 1 \in 2 .. Len(m.path) - 1 /\ (m.step + 1) - 1 = m.step
          /\ m.path[m.step + 1][1] = row
      BY <1>2 DEF row
    <2> QED BY <1>2, <1>3, <1>4, <2>1 DEF EndsAtEdges
  <1>6. FarPawn(From(t))
    BY <1>1, <1>5 DEF FarPawn, Mover, From, row
  <1> QED BY <1>1, <1>6 DEF PawnInv, FarPawnsWait, Mover, From

LEMMA AffectsPaths ==
    ASSUME PawnInv, NEW t \in DOMAIN active, NEW c, NEW stops, NEW gone, NEW victim,
           Affects(t, c, stops, gone, victim)
    PROVE  JourneysEndAtEdges'
  <1>1. CompleteStep(active[t]).path = active[t].path
    BY JourneyFacts DEF PawnInv, FlightInv, MotionsTyped, CompleteStep, Motion
  <1>2. \A u \in DOMAIN active' :
           u \in DOMAIN active /\ active'[u].path = active[u].path
    BY <1>1 DEF Affects, Without
  <1> QED BY <1>2 DEF JourneysEndAtEdges, PawnInv

LEMMA WalkPawns ==
    ASSUME PawnInv, OnlyMovingPiecesTravel, NEW t \in Crossings, To(t) \in Cells,
           NEW stops, NEW gone, NEW victim, victim # Mover(t),
           Complete(t) => stops,
           Walks(t), Affects(t, To(t), stops, gone, victim)
    PROVE  FarPawnsWait'
  <1> SUFFICES ASSUME NEW c \in Cells, (FarPawn(c))'
               PROVE  /\ board'.state[board'.at[c]] \notin {"Moving", "Airborne"}
                      /\ ReportedAt(reports', c)
    BY DEF FarPawnsWait, ReportedAt
  <1>1. Mover(t) \in Piece
    BY JourneyFacts DEF PawnInv, FlightInv, Crossings
  <1>2. CASE c = To(t)
    <2>1. board'.at[c] = Mover(t) /\ board'.kind = board.kind
      BY <1>2 DEF Walks, Affects
    <2>2. stops
      BY <1>2, <2>1, FarPawnsStop DEF FarPawn
    <2> QED BY <1>1, <1>2, <2>1, <2>2 DEF Affects
  <1>3. CASE c # To(t)
    <2>1. board'.at[c] = board.at[c] /\ board'.kind = board.kind
      BY <1>3, NoPieceIsNoPiece DEF Walks, Affects, FarPawn
    <2>2. FarPawn(c)
      BY <2>1 DEF FarPawn
    <2>3. /\ board.state[board.at[c]] \notin {"Moving", "Airborne"}
          /\ ReportedAt(reports, c) /\ board.at[c] \in Piece
      BY <2>2 DEF PawnInv, FarPawnsWait, FarPawn
    <2>4. ReportedAt(reports', c)
      BY <2>3 DEF ReportedAt, Affects, KeepsReports
    <2> QED BY <2>1, <2>3, <2>4 DEF Affects
  <1> QED BY <1>2, <1>3

LEMMA ResolvePawns ==
    ASSUME PawnInv, OnlyMovingPiecesTravel, NEW t \in Tickets, Resolve(t)
    PROVE  FarPawnsWait' /\ LiftedPawnsAreNear' /\ JourneysEndAtEdges'
  <1>1. /\ JourneyInv /\ t \in Crossings /\ t \in DOMAIN active
    BY ResolveAffects DEF PawnInv, FlightInv, Crossings
  <1>2. Mover(t) \in Piece /\ NoPiece # Mover(t) /\ To(t) \in Cells
    <2>1. PICK outcome : Crosses(t, outcome)
      BY DEF Resolve, ResolveCrossing, EnterFreeCell, CaptureOccupant,
             StopBeforeFriend, YieldToAirborne
    <2> QED BY <1>1, <2>1, CrossingFacts, JourneyFacts, NoPieceIsNoPiece DEF To
  <1>3. JourneysEndAtEdges'
    BY <1>1, ResolveAffects, AffectsPaths
  <1>4. ASSUME board'.kind = board.kind, airborne' = airborne
        PROVE  LiftedPawnsAreNear'
    BY <1>4 DEF LiftedPawnsAreNear, PawnInv
  <1>5. CASE EnterFreeCell(t) \/ CaptureOccupant(t)
    <2>1. PICK gone, victim :
                 /\ Walks(t) /\ Affects(t, To(t), Complete(t), gone, victim)
                 /\ victim # Mover(t) /\ airborne' = airborne
      BY <1>1, <1>2, <1>5, EnterEffect, CaptureEffect
    <2>2. FarPawnsWait'
      <3> DEFINE stops == Complete(t)
      <3>1. (Complete(t) => stops) /\ Affects(t, To(t), stops, gone, victim)
        BY <2>1
      <3> HIDE DEF stops
      <3> QED BY <1>1, <1>2, <2>1, <3>1, WalkPawns
    <2>3. board'.kind = board.kind
      BY <2>1 DEF Affects
    <2> QED BY <1>3, <1>4, <2>1, <2>2, <2>3
  <1>6. CASE StopBeforeFriend(t)
    <2>1. /\ Stands /\ Affects(t, From(t), TRUE, {}, NoPiece) /\ airborne' = airborne
      BY <1>1, <1>6, StopEffect
    <2>2. board'.kind = board.kind /\ KeepsReports
      BY <2>1 DEF Affects
    <2>3. \A c \in Cells : (FarPawn(c))' =>
             /\ board'.at[c] = board.at[c]
             /\ \/ board'.state[board.at[c]] = board.state[board.at[c]]
                \/ board'.state[board.at[c]] \notin {"Moving", "Airborne"}
      BY <2>1 DEF Stands, Affects, FarPawn
    <2> QED BY <1>3, <1>4, <2>1, <2>2, <2>3, FarPawnsKeepWaiting
  <1>7. CASE YieldToAirborne(t)
    <2>1. /\ Occupant(t) \in Piece /\ board.at[To(t)] = Occupant(t)
          /\ board.state[Occupant(t)] = "Airborne"
          /\ Walks(t) /\ Affects(t, To(t), TRUE, {}, NoPiece)
          /\ airborne' = [j \in DOMAIN airborne |->
                            IF j \in JumpAt(To(t))
                            THEN [airborne[j] EXCEPT !.lifted = Occupant(t)]
                            ELSE airborne[j]]
      BY <1>1, <1>7, YieldEffect
    <2>2. FarPawnsWait'
      <3> DEFINE gone == {}
                 stops == TRUE
                 victim == NoPiece
      <3>1. Affects(t, To(t), stops, gone, victim) /\ (Complete(t) => stops)
            /\ victim # Mover(t)
        BY <1>2, <2>1
      <3> HIDE DEF gone, stops, victim
      <3> QED BY <1>1, <1>2, <2>1, <3>1, WalkPawns
    <2>3. board.kind[Occupant(t)] = "Pawn" => To(t)[1] # FarRow(Occupant(t))
      BY <1>2, <2>1 DEF PawnInv, FarPawnsWait, FarPawn
    <2>4. \A j \in DOMAIN airborne :
             /\ airborne'[j].cell = airborne[j].cell
             /\ \/ airborne'[j].lifted = airborne[j].lifted
                \/ airborne'[j].lifted = Occupant(t) /\ airborne[j].cell = To(t)
      BY <1>1, <2>1, JourneyFacts DEF JumpsTyped, Jump, JumpAt
    <2>5. board'.kind = board.kind /\ DOMAIN airborne' = DOMAIN airborne
      BY <2>1 DEF Affects
    <2>6. LiftedPawnsAreNear'
      BY <2>3, <2>4, <2>5 DEF LiftedPawnsAreNear, PawnInv
    <2> QED BY <1>3, <2>2, <2>6
  <1> QED BY <1>5, <1>6, <1>7 DEF Resolve, ResolveCrossing

\* A pawn does not come down on its far row: it did not jump there.
LEMMA LandPawns ==
    ASSUME PawnInv, NEW j \in Tickets, LandJump(j)
    PROVE  FarPawnsWait' /\ LiftedPawnsAreNear' /\ JourneysEndAtEdges'
  <1> DEFINE c == airborne[j].cell
  <1>1. JourneyInv
    BY DEF PawnInv, FlightInv
  <1>2. PICK p, taken :
               /\ j \in DOMAIN airborne /\ c \in Cells /\ Lands(j, p, taken)
               /\ board.kind[p] = "Pawn" => c[1] # FarRow(p)
    <2>1. CASE LandAtRest(j)
      <3>1. /\ j \in DOMAIN airborne /\ airborne[j].lifted = NoPiece /\ c \in Cells
            /\ Lands(j, board.at[c], NoPiece)
        BY <1>1, <2>1, LandAtRestEffect
      <3>2. board.state[board.at[c]] = "Airborne" /\ board.at[c] \in Piece
        BY <3>1 DEF PawnInv, FlightInv, InFlight, EveryJumpHasItsPiece, Lands
      <3>3. board.kind[board.at[c]] = "Pawn" => c[1] # FarRow(board.at[c])
        BY <3>1, <3>2 DEF PawnInv, FarPawnsWait, FarPawn
      <3> QED BY <3>1, <3>3
    <2>2. CASE LandOnArriver(j)
      <3>1. /\ j \in DOMAIN airborne /\ c \in Cells
            /\ Lands(j, airborne[j].lifted, board.at[c])
        BY <1>1, <2>2, LandOnArriverEffect
      <3>2. board.kind[airborne[j].lifted] = "Pawn" => c[1] # FarRow(airborne[j].lifted)
        BY <3>1 DEF PawnInv, LiftedPawnsAreNear, Lands
      <3> QED BY <3>1, <3>2
    <2> QED BY <2>1, <2>2 DEF LandJump, Land
  <1>3. board'.kind = board.kind /\ KeepsReports /\ active' = active
    BY <1>2 DEF Lands
  <1>4. \A d \in Cells : (FarPawn(d))' =>
             /\ board'.at[d] = board.at[d]
             /\ \/ board'.state[board.at[d]] = board.state[board.at[d]]
                \/ board'.state[board.at[d]] \notin {"Moving", "Airborne"}
    BY <1>2 DEF Lands, FarPawn
  <1>5. FarPawnsWait'
    BY <1>3, <1>4, FarPawnsKeepWaiting
  <1>6. LiftedPawnsAreNear'
    BY <1>2, <1>3 DEF Lands, Without, LiftedPawnsAreNear, PawnInv
  <1>7. JourneysEndAtEdges'
    BY <1>3 DEF JourneysEndAtEdges, PawnInv
  <1> QED BY <1>5, <1>6, <1>7

LEMMA DeliverPawns ==
    ASSUME PawnInv, DeliverReport
    PROVE  FarPawnsWait' /\ LiftedPawnsAreNear' /\ JourneysEndAtEdges'
  <1> DEFINE report == Head(reports)
             lander == board.at[report.destination]
  <1>1. /\ JourneyInv /\ board \in BoardValue /\ reports \in Seq(ArrivalReport)
        /\ reports # << >> /\ reports' = Tail(reports) /\ report = reports[1]
    BY JourneyFacts DEF PawnInv, FlightInv, DeliverReport, TypeInv, TypeOK, ArbiterTypeOK
  <1>2. /\ board'.at = board.at /\ board'.state = board.state
        /\ UNCHANGED <<active, airborne>>
    BY <1>1, DeliverEffect
  <1>3. \A q \in Piece :
           \/ board'.kind[q] = board.kind[q]
           \/ board'.kind[q] = PromotedKind(board, q)
    BY <1>1 DEF DeliverReport, BoardValue
  <1>4. \A q \in Piece : board'.kind[q] = "Pawn" => board.kind[q] = "Pawn"
    BY <1>3 DEF PromotedKind
  <1>5. FarPawnsWait'
    <2> SUFFICES ASSUME NEW c \in Cells, (FarPawn(c))'
                 PROVE  /\ board'.state[board'.at[c]] \notin {"Moving", "Airborne"}
                        /\ ReportedAt(reports', c)
      BY DEF FarPawnsWait, ReportedAt
    <2> DEFINE p == board.at[c]
    <2>1. /\ p \in Piece /\ board'.kind[p] = "Pawn" /\ board.kind[p] = "Pawn"
          /\ c[1] = FarRow(p) /\ FarPawn(c)
      BY <1>2, <1>4 DEF FarPawn
    <2>2. /\ board.state[p] \notin {"Moving", "Airborne"} /\ ReportedAt(reports, c)
      BY <2>1 DEF PawnInv, FarPawnsWait
    <2>3. PICK i \in DOMAIN reports : reports[i].destination = c /\ reports[i].landed
      BY <2>2 DEF ReportedAt
    <2>4. i # 1
      <3> SUFFICES ASSUME i = 1 PROVE FALSE
        OBVIOUS
      <3>1. lander = p /\ report.landed
        BY <1>1, <2>3
      <3>2. board.cell[p] = c
        BY <1>1, <2>1, JourneyFacts, NoPieceIsNoPiece DEF Occupied
      <3>3. PromotedKind(board, p) = "Queen"
        BY <2>1, <3>2 DEF PromotedKind, PromotionRow, ForwardStep, ColorOf, FarRow
      <3>4. board' = [board EXCEPT !.kind[lander] = PromotedKind(board, lander)]
        BY <2>1, <3>1, NoPieceIsNoPiece DEF DeliverReport, Promotes
      <3>5. board'.kind[p] = "Queen"
        BY <1>1, <2>1, <3>1, <3>3, <3>4 DEF BoardValue
      <3> QED BY <2>1, <3>5
    <2>5. ReportedAt(reports', c)
      <3>1. i - 1 \in DOMAIN Tail(reports) /\ Tail(reports)[i - 1] = reports[i]
        BY <1>1, <2>3, <2>4
      <3> QED BY <1>1, <2>3, <3>1 DEF ReportedAt
    <2> QED BY <1>2, <2>2, <2>5
  <1>6. LiftedPawnsAreNear'
    BY <1>2, <1>4 DEF LiftedPawnsAreNear, PawnInv
  <1>7. JourneysEndAtEdges'
    BY <1>2 DEF JourneysEndAtEdges, PawnInv
  <1> QED BY <1>5, <1>6, <1>7

LEMMA NextPawnInv ==
    ASSUME PawnInv, [OnlyMovingPiecesTravel]_vars, [Next]_vars
    PROVE  PawnInv'
  <1>1. FlightInv'
    BY NextFlightInv DEF PawnInv
  <1>2. FarPawnsWait' /\ LiftedPawnsAreNear' /\ JourneysEndAtEdges'
    <2>1. CASE OnlyMovingPiecesTravel
               /\ \E source, destination \in Cells : RequestMove(source, destination)
      BY <2>1, RequestMovePawns
    <2>2. CASE \E c \in Cells : RequestJump(c)
      BY <2>2, RequestJumpPawns
    <2>3. CASE \E delta \in Deltas : Wait(delta)
      BY <2>3, WaitPawns
    <2>4. CASE OnlyMovingPiecesTravel /\ \E t \in Tickets : Resolve(t)
      BY <2>4, ResolvePawns
    <2>5. CASE \E j \in Tickets : LandJump(j)
      BY <2>5, LandPawns
    <2>6. CASE DeliverReport
      BY <2>6, DeliverPawns
    <2>7. CASE EndGame \/ UNCHANGED vars
      BY <2>7 DEF EndGame, vars, arbiterVars, PawnInv, FarPawnsWait, FarPawn,
                  ReportedAt, LiftedPawnsAreNear, JourneysEndAtEdges
    <2> QED BY <2>1, <2>2, <2>3, <2>4, <2>5, <2>6, <2>7 DEF Next, TickStep
  <1> QED BY <1>1, <1>2 DEF PawnInv

(***************************************************************************)
(* Where no pawn starts on its far row, none stands there between ticks    *)
(* (GameEngine::wait, after every report of the tick), up to the first     *)
(* landing on a piece under way.                                           *)
(***************************************************************************)
THEOREM FarPawnsArePromoted ==
    ASSUME NoPawnStartsOnItsFarRow
    PROVE  Spec /\ UpToAGhost => []PawnsArePromoted
  <1>1. Init => PawnInv
    <2> SUFFICES ASSUME Init PROVE PawnInv
      OBVIOUS
    <2>1. FlightInv /\ DOMAIN active = {} /\ DOMAIN airborne = {}
      BY InitFlightInv DEF Init
    <2>2. ASSUME NEW c \in Cells PROVE ~FarPawn(c)
      <3> SUFFICES ASSUME FarPawn(c) PROVE FALSE
        OBVIOUS
      <3>1. board.cell[board.at[c]] = c
        BY <2>1, JourneyFacts, NoPieceIsNoPiece DEF FlightInv, FarPawn, Occupied
      <3>2. board.cell = StartCell /\ board.kind = StartKind
        BY DEF Init, StartBoard
      <3> QED BY <3>1, <3>2 DEF FarPawn, NoPawnStartsOnItsFarRow
    <2> QED BY <2>1, <2>2 DEF PawnInv, FarPawnsWait, LiftedPawnsAreNear, JourneysEndAtEdges
  <1>2. PawnInv /\ [OnlyMovingPiecesTravel]_vars /\ [Next]_vars => PawnInv'
    BY NextPawnInv
  <1>3. PawnInv => PawnsArePromoted
    <2> SUFFICES ASSUME PawnInv, ~Busy, NEW p \in Piece, OnBoard(board, p),
                        board.cell[p][1] = FarRow(p), board.kind[p] = "Pawn"
                 PROVE  FALSE
      BY DEF PawnsArePromoted
    <2>1. PICK c \in Cells : board.at[c] = p
      BY DEF OnBoard
    <2>2. board.cell[p] = c
      BY <2>1, JourneyFacts, NoPieceIsNoPiece DEF PawnInv, FlightInv, Occupied
    <2> QED BY <2>1, <2>2, NoFarPawnBetweenTicks DEF FarPawn
  <1> QED BY <1>1, <1>2, <1>3, PTL DEF Spec, UpToAGhost

-----------------------------------------------------------------------------
(***************************************************************************)
(* What keeps a piece busy.  The piece that is Moving has a motion on its  *)
(* cell, the one that is Resting a rest, and the other way round: the      *)
(* motions and rests of the arbiter tell which pieces are not free, if     *)
(* they are not in the air.                                                *)
(***************************************************************************)
MoversTravel ==
    \A c \in Cells :
        Occupied(board, c) /\ board.state[board.at[c]] = "Moving" =>
            \E t \in DOMAIN active : From(t) = c

TravellersAreBusy == \A t \in DOMAIN active : board.state[Mover(t)] # "Idle"

RestersHaveRests ==
    \A c \in Cells :
        Occupied(board, c) /\ board.state[board.at[c]] = "Resting" =>
            \E r \in resting : r.piece = board.at[c] /\ r.cell = c

\* Whoever stands where a rest began has come after its piece, or is that
\* piece, and wakes up no sooner.
RestsOutlived ==
    \A r \in resting : Occupied(board, r.cell) =>
        LET p == board.at[r.cell]
        IN  \/ board.state[p] = "Moving"
            \/ /\ board.state[p] = "Resting"
               /\ \A s \in resting : s.piece = p => s.elapsed <= r.elapsed

AllBusy == MoversTravel /\ TravellersAreBusy /\ RestersHaveRests /\ RestsOutlived

BusyInv == FlightInv /\ AllBusy

\* What the steps of a busy piece need to know of the pieces.
LEMMA BusyFacts ==
    ASSUME BusyInv
    PROVE  /\ JourneyInv
           /\ \A c \in Cells : board.at[c] \in Piece \cup {NoPiece}
           /\ \A c, d \in Cells : board.at[c] = board.at[d] /\ board.at[c] # NoPiece => c = d
           /\ \A t \in DOMAIN active : From(t) \in Cells /\ Mover(t) \in Piece
                                       /\ board.at[From(t)] = Mover(t)
           /\ \A t, u \in DOMAIN active : From(t) = From(u) => t = u
           /\ \A r \in resting : r.piece \in Piece /\ r.cell \in Cells /\ r.elapsed \in Nat
           /\ \A r \in resting : board.state[r.piece] \in {"Resting", "Captured"}
  <1>1. JourneyInv /\ RestersRest
    BY DEF BusyInv, FlightInv, InFlight
  <1>2. \A c, d \in Cells : board.at[c] = board.at[d] /\ board.at[c] # NoPiece => c = d
    BY <1>1, JourneyFacts DEF Occupied
  <1>3. \A t, u \in DOMAIN active : From(t) = From(u) => t = u
    BY <1>1, JourneyFacts DEF InOrder, OnCellsOfTheirOwn, From
  <1>4. \A t \in DOMAIN active : /\ From(t) \in Cells /\ Mover(t) \in Piece
                                 /\ board.at[From(t)] = Mover(t)
    BY <1>1, JourneyFacts DEF From, Mover
  <1>5. /\ \A c \in Cells : board.at[c] \in Piece \cup {NoPiece}
        /\ \A r \in resting : r.piece \in Piece /\ r.cell \in Cells /\ r.elapsed \in Nat
    BY <1>1, JourneyFacts DEF BoardValue, Cooldown
  <1> QED BY <1>1, <1>2, <1>3, <1>4, <1>5 DEF RestersRest

LEMMA RequestMoveBusy ==
    ASSUME BusyInv, OnlyMovingPiecesTravel, NEW source \in Cells,
           NEW destination \in Cells, RequestMove(source, destination)
    PROVE  AllBusy'
  <1> DEFINE p == board.at[source]
             m == NewMotion(source, destination)
  <1>1. /\ Sets(source, "Moving") /\ board.state[p] = "Idle" /\ p \in Piece
        /\ resting' = resting
    BY RequestMoveEffect DEF BusyInv, FlightInv, Sets
  <1>2. PICK t : t \notin DOMAIN active /\ active' = Extended(active, t, m)
    BY RequestMoveEffect DEF BusyInv, FlightInv
  <1>3. /\ board'.at = board.at
        /\ \A q \in Piece : board'.state[q] = IF q = p THEN "Moving" ELSE board.state[q]
    BY <1>1 DEF Sets
  <1>4. CurrentCell(m) = source
    BY NewMotionTyped
  <1>5. /\ DOMAIN active' = DOMAIN active \cup {t}
        /\ From(t)' = source /\ \A u \in DOMAIN active : From(u)' = From(u)
    BY <1>2, <1>4 DEF Extended, From
  <1>6. \A u \in DOMAIN active' : Mover(u)' = board.at[From(u)']
    BY <1>3 DEF Mover, From
  <1>7. \A r \in resting : r.piece # p
    BY <1>1, BusyFacts
  <1>8. p = board.at[source]
    OBVIOUS
  <1> HIDE DEF p, m
  <1>9. MoversTravel'
    <2> SUFFICES ASSUME NEW c \in Cells, board.at[c] # NoPiece,
                        board'.state[board.at[c]] = "Moving"
                 PROVE  \E u \in DOMAIN active' : From(u)' = c
      BY <1>3 DEF MoversTravel, Occupied
    <2>1. CASE c = source
      BY <1>5, <2>1
    <2>2. CASE c # source
      <3>1. board.at[c] \in Piece /\ board.at[c] # p
        BY <1>8, <2>2, BusyFacts
      <3>2. PICK u \in DOMAIN active : From(u) = c
        BY <1>3, <3>1 DEF BusyInv, AllBusy, MoversTravel, Occupied
      <3> QED BY <1>5, <3>2
    <2> QED BY <2>1, <2>2
  <1>10. TravellersAreBusy'
    <2> SUFFICES ASSUME NEW u \in DOMAIN active'
                 PROVE  board'.state[Mover(u)'] # "Idle"
      BY DEF TravellersAreBusy
    <2>1. CASE u = t
      BY <1>1, <1>3, <1>5, <1>6, <1>8, <2>1
    <2>2. CASE u \in DOMAIN active
      <3>1. Mover(u)' = Mover(u) /\ Mover(u) \in Piece
        BY <1>5, <1>6, <2>2, BusyFacts
      <3> QED BY <1>3, <2>2, <3>1 DEF BusyInv, AllBusy, TravellersAreBusy
    <2> QED BY <1>5, <2>1, <2>2
  <1>11. RestersHaveRests'
    BY <1>1, <1>3, BusyFacts DEF BusyInv, AllBusy, RestersHaveRests, Occupied
  <1>12. RestsOutlived'
    BY <1>1, <1>3, <1>7, BusyFacts DEF BusyInv, AllBusy, RestsOutlived, Occupied
  <1> QED BY <1>9, <1>10, <1>11, <1>12 DEF AllBusy

LEMMA RequestJumpBusy ==
    ASSUME BusyInv, NEW c \in Cells, RequestJump(c)
    PROVE  AllBusy'
  <1> DEFINE p == board.at[c]
  <1>1. /\ Sets(c, "Airborne") /\ board.state[p] = "Idle" /\ p \in Piece
        /\ resting' = resting /\ active' = active
    BY RequestJumpEffect DEF BusyInv, FlightInv, Sets
  <1>2. /\ board'.at = board.at
        /\ \A q \in Piece : board'.state[q] = IF q = p THEN "Airborne" ELSE board.state[q]
    BY <1>1 DEF Sets
  <1>3. \A u \in DOMAIN active : Mover(u)' = Mover(u) /\ From(u)' = From(u)
    BY <1>1, <1>2 DEF Mover, From
  <1>4. p = board.at[c] /\ \A r \in resting : r.piece # p
    BY <1>1, BusyFacts
  <1> HIDE DEF p
  <1>5. MoversTravel'
    BY <1>1, <1>2, <1>3, BusyFacts DEF BusyInv, AllBusy, MoversTravel, Occupied
  <1>6. TravellersAreBusy'
    BY <1>1, <1>2, <1>3, BusyFacts DEF BusyInv, AllBusy, TravellersAreBusy
  <1>7. RestersHaveRests'
    BY <1>1, <1>2, BusyFacts DEF BusyInv, AllBusy, RestersHaveRests, Occupied
  <1>8. RestsOutlived'
    BY <1>1, <1>2, <1>4, BusyFacts DEF BusyInv, AllBusy, RestsOutlived, Occupied
  <1> QED BY <1>5, <1>6, <1>7, <1>8 DEF AllBusy

LEMMA WaitBusy ==
    ASSUME BusyInv, OnlyMovingPiecesTravel, NEW delta \in Deltas, Wait(delta)
    PROVE  AllBusy'
  <1>1. /\ delta \in Nat /\ board'.at = board.at /\ DOMAIN active' = DOMAIN active
        /\ \A t \in DOMAIN active : active'[t].path = active[t].path
        /\ \A t \in DOMAIN active : active'[t].step = active[t].step
    BY WaitEffect DEF BusyInv, FlightInv
  <1>2. \A q \in Piece :
           board'.state[q] = IF RestIsOver(q, delta) THEN "Idle" ELSE board.state[q]
    BY BusyFacts, JourneyFacts DEF Wait, StartTick, BoardValue
  <1>3. \A r \in resting : /\ TickedCooldown(r, delta).piece = r.piece
                           /\ TickedCooldown(r, delta).cell = r.cell
                           /\ TickedCooldown(r, delta).elapsed = r.elapsed + delta
    <2>1. resting \subseteq Cooldown
      BY BusyFacts, JourneyFacts
    <2> QED BY <2>1 DEF TickedCooldown, Cooldown
  <1>4. /\ \A r \in resting : r.elapsed + delta < CooldownMs =>
              TickedCooldown(r, delta) \in resting'
        /\ \A r \in resting' : \E s \in resting :
              /\ r.piece = s.piece /\ r.cell = s.cell /\ r.elapsed = s.elapsed + delta
              /\ r.elapsed < CooldownMs
    BY <1>3 DEF Wait, StartTick
  <1>5. \A q \in Piece : RestIsOver(q, delta) =>
           /\ board.state[q] = "Resting"
           /\ \E s \in resting : /\ s.elapsed + delta >= CooldownMs /\ s.piece = q
                                 /\ board.at[s.cell] = q
    BY <1>3 DEF RestIsOver
  <1>6. \A t \in DOMAIN active : From(t)' = From(t) /\ Mover(t)' = Mover(t)
    BY <1>1 DEF From, Mover, CurrentCell
  <1>7. MoversTravel'
    BY <1>1, <1>2, <1>6, BusyFacts DEF BusyInv, AllBusy, MoversTravel, Occupied
  <1>8. TravellersAreBusy'
    <2> SUFFICES ASSUME NEW t \in DOMAIN active
                 PROVE  board'.state[Mover(t)] # "Idle"
      BY <1>1, <1>6 DEF TravellersAreBusy
    <2>1. Mover(t) \in Piece /\ board.state[Mover(t)] = "Moving"
      BY BusyFacts, MoversMove
    <2> QED BY <1>2, <1>5, <2>1
  <1>9. RestersHaveRests'
    <2> SUFFICES ASSUME NEW c \in Cells, NEW q \in Piece, q = board.at[c],
                        board'.state[q] = "Resting"
                 PROVE  \E r \in resting' : r.piece = q /\ r.cell = c
      BY <1>1, BusyFacts DEF RestersHaveRests, Occupied
    <2>1. ~RestIsOver(q, delta) /\ board.state[q] = "Resting"
      BY <1>2
    <2>2. PICK r \in resting : r.piece = q /\ r.cell = c
      BY <2>1, NoPieceIsNoPiece DEF BusyInv, AllBusy, RestersHaveRests, Occupied
    <2>3. ~(r.elapsed + delta >= CooldownMs)
      BY <1>3, <2>1, <2>2 DEF RestIsOver
    <2>4. r.elapsed + delta < CooldownMs
      BY <1>1, <2>3, BusyFacts DEF CooldownMs
    <2> QED BY <1>3, <1>4, <2>2, <2>4
  <1>10. RestsOutlived'
    <2> SUFFICES ASSUME NEW r \in resting', NEW q, q = board.at[r.cell], q # NoPiece
                 PROVE  \/ board'.state[q] = "Moving"
                        \/ /\ board'.state[q] = "Resting"
                           /\ \A s \in resting' : s.piece = q => s.elapsed <= r.elapsed
      BY <1>1 DEF RestsOutlived, Occupied
    <2>1. PICK o \in resting : /\ r.piece = o.piece /\ r.cell = o.cell
                               /\ r.elapsed = o.elapsed + delta /\ r.elapsed < CooldownMs
      BY <1>4
    <2>2. o.cell \in Cells /\ o.elapsed \in Nat /\ q \in Piece /\ q = board.at[o.cell]
      BY <2>1, BusyFacts
    <2>3. \/ board.state[q] = "Moving"
          \/ /\ board.state[q] = "Resting"
             /\ \A s \in resting : s.piece = q => s.elapsed <= o.elapsed
      BY <2>2 DEF BusyInv, AllBusy, RestsOutlived, Occupied
    <2>4. CASE board.state[q] = "Moving"
      BY <1>2, <1>5, <2>2, <2>4
    <2>5. CASE /\ board.state[q] = "Resting"
               /\ \A s \in resting : s.piece = q => s.elapsed <= o.elapsed
      <3>1. ASSUME NEW s \in resting, s.piece = q, s.elapsed + delta >= CooldownMs
            PROVE  FALSE
        <4>1. s.elapsed <= o.elapsed /\ s.elapsed \in Nat
          BY <2>5, <3>1, BusyFacts
        <4> QED BY <1>1, <2>1, <2>2, <3>1, <4>1 DEF CooldownMs
      <3>2. board'.state[q] = "Resting"
        BY <1>2, <1>5, <2>2, <2>5, <3>1
      <3>3. ASSUME NEW s \in resting', s.piece = q PROVE s.elapsed <= r.elapsed
        <4>1. PICK u \in resting : s.piece = u.piece /\ s.elapsed = u.elapsed + delta
          BY <1>4
        <4>2. u.elapsed <= o.elapsed /\ u.elapsed \in Nat
          BY <2>5, <3>3, <4>1, BusyFacts
        <4> QED BY <1>1, <2>1, <2>2, <4>1, <4>2
      <3> QED BY <3>2, <3>3
    <2> QED BY <2>3, <2>4, <2>5
  <1> QED BY <1>7, <1>8, <1>9, <1>10 DEF AllBusy

\* The mover of t walks to the next cell; who stood there is taken, with its
\* motion, or lifted by its jump.
LEMMA WalkBusy ==
    ASSUME BusyInv, OnlyMovingPiecesTravel, NEW t \in DOMAIN active, To(t) \in Cells,
           NEW victim \in Piece \cup {NoPiece}, victim # Mover(t),
           \A c \in Cells \ {To(t)} : board.at[c] # NoPiece => board.at[c] # victim,
           NEW stops \in BOOLEAN, NEW gone,
           \A u \in DOMAIN active : u \in gone <=> From(u) = To(t),
           Walks(t), Affects(t, To(t), stops, gone, victim)
    PROVE  AllBusy'
  <1> DEFINE from == From(t)
             to == To(t)
             p == Mover(t)
  <1>1. /\ from \in Cells /\ to \in Cells /\ from # to /\ p \in Piece
        /\ board.at[from] = p /\ board.state[p] = "Moving" /\ victim # p
    BY BusyFacts, MoversMove DEF Walks
  <1>2. /\ \A c \in Cells : board'.at[c] = IF c = from THEN NoPiece
                                           ELSE IF c = to THEN p ELSE board.at[c]
        /\ \A q \in Piece : board'.state[q] = IF q = victim THEN "Captured"
                                              ELSE IF q = p /\ stops THEN "Resting"
                                              ELSE board.state[q]
        /\ resting' = IF stops THEN resting \cup {Rest(p, to)} ELSE resting
    BY DEF Walks, Affects
  <1>3. /\ Rest(p, to).piece = p /\ Rest(p, to).elapsed = 0 /\ Rest(p, to).cell = to
        /\ \A r \in resting : r.piece # p
    BY <1>1, BusyFacts DEF Rest
  <1>4. ASSUME NEW u \in DOMAIN active, u # t, From(u) # to
        PROVE  u \in DOMAIN active' /\ From(u)' = From(u)
    BY <1>4 DEF Affects, Without, From
  <1>5. ~stops => t \in DOMAIN active' /\ From(t)' = to
    <2> SUFFICES ASSUME ~stops PROVE t \in DOMAIN active' /\ From(t)' = to
      OBVIOUS
    <2>1. active[t] \in Motion
      BY BusyFacts, JourneyFacts DEF MotionsTyped
    <2>2. t \notin gone
      BY <1>1
    <2>3. t \in DOMAIN active' /\ active'[t] = CompleteStep(active[t])
      BY <2>2 DEF Affects, Without
    <2> QED BY <2>1, <2>3 DEF From, To, CurrentCell, NextCell, CompleteStep, Motion
  <1>6. ASSUME NEW u \in DOMAIN active'
        PROVE  /\ u \in DOMAIN active
               /\ \/ u = t /\ ~stops
                  \/ u # t /\ From(u) # to
    BY DEF Affects, Without
  <1>7. \A u \in DOMAIN active' : Mover(u)' = board'.at[From(u)']
    BY DEF Mover, From
  \* Who else stands on the board stands there as before.
  <1>8. ASSUME NEW c \in Cells, c # from, c # to, NEW q \in Piece, q = board.at[c]
        PROVE  board'.at[c] = q /\ board'.state[q] = board.state[q] /\ q # p
    <2>1. q # p
      BY <1>1, <1>8, BusyFacts, NoPieceIsNoPiece
    <2>2. q # victim
      BY <1>8, NoPieceIsNoPiece
    <2> QED BY <1>2, <1>8, <2>1, <2>2
  <1>9. board'.at[from] = NoPiece /\ board'.at[to] = p
    BY <1>1, <1>2
  <1>10. board'.state[p] = IF stops THEN "Resting" ELSE "Moving"
    BY <1>1, <1>2
  <1> HIDE DEF from, to, p
  <1>11. MoversTravel'
    <2> SUFFICES ASSUME NEW c \in Cells, NEW q, q = board'.at[c], q # NoPiece,
                        board'.state[q] = "Moving"
                 PROVE  \E u \in DOMAIN active' : From(u)' = c
      BY DEF MoversTravel, Occupied
    <2>1. CASE c = to
      BY <1>5, <1>9, <1>10, <2>1
    <2>2. CASE c # to
      <3>1. c # from /\ q = board.at[c] /\ q \in Piece
        BY <1>2, <1>9, <2>2, BusyFacts
      <3>2. board.state[q] = "Moving"
        BY <1>8, <2>2, <3>1
      <3>3. PICK u \in DOMAIN active : From(u) = c
        BY <3>1, <3>2 DEF BusyInv, AllBusy, MoversTravel, Occupied
      <3>4. u # t
        BY <3>1, <3>3 DEF from
      <3> QED BY <1>4, <2>2, <3>3, <3>4
    <2> QED BY <2>1, <2>2
  <1>12. TravellersAreBusy'
    <2> SUFFICES ASSUME NEW u \in DOMAIN active'
                 PROVE  board'.state[Mover(u)'] # "Idle"
      BY DEF TravellersAreBusy
    <2>1. CASE u = t /\ ~stops
      BY <1>5, <1>7, <1>9, <1>10, <2>1
    <2>2. CASE u # t /\ From(u) # to
      <3>1. u \in DOMAIN active /\ From(u)' = From(u)
        BY <1>4, <1>6, <2>2
      <3>2. /\ From(u) \in Cells /\ From(u) # from /\ Mover(u) \in Piece
            /\ board.at[From(u)] = Mover(u)
        BY <2>2, <3>1, BusyFacts DEF from
      <3>3. board'.at[From(u)] = Mover(u) /\ board'.state[Mover(u)] = board.state[Mover(u)]
        BY <1>8, <2>2, <3>2
      <3> QED BY <1>7, <3>1, <3>3 DEF BusyInv, AllBusy, TravellersAreBusy
    <2> QED BY <1>6, <2>1, <2>2
  <1>13. RestersHaveRests'
    <2> SUFFICES ASSUME NEW c \in Cells, NEW q, q = board'.at[c], q # NoPiece,
                        board'.state[q] = "Resting"
                 PROVE  \E r \in resting' : r.piece = q /\ r.cell = c
      BY DEF RestersHaveRests, Occupied
    <2>1. CASE c = to
      <3>1. q = p /\ stops
        BY <1>9, <1>10, <2>1
      <3> QED BY <1>2, <1>3, <2>1, <3>1
    <2>2. CASE c # to
      <3>1. c # from /\ q = board.at[c] /\ q \in Piece
        BY <1>2, <1>9, <2>2, BusyFacts
      <3>2. board.state[q] = "Resting"
        BY <1>8, <2>2, <3>1
      <3>3. PICK r \in resting : r.piece = q /\ r.cell = c
        BY <3>1, <3>2 DEF BusyInv, AllBusy, RestersHaveRests, Occupied
      <3> QED BY <1>2, <3>3
    <2> QED BY <2>1, <2>2
  <1>14. RestsOutlived'
    <2> SUFFICES ASSUME NEW r \in resting', NEW q, q = board'.at[r.cell], q # NoPiece
                 PROVE  \/ board'.state[q] = "Moving"
                        \/ /\ board'.state[q] = "Resting"
                           /\ \A s \in resting' : s.piece = q => s.elapsed <= r.elapsed
      BY DEF RestsOutlived, Occupied
    <2>1. r.cell \in Cells /\ r.elapsed \in Nat
      BY <1>1, <1>2, <1>3, BusyFacts
    <2>2. CASE r.cell = to
      <3>1. q = p
        BY <1>9, <2>2
      <3>2. \A s \in resting' : s.piece = p => s.elapsed = 0
        BY <1>2, <1>3
      <3> QED BY <1>10, <2>1, <3>1, <3>2
    <2>3. CASE r.cell # to
      <3>1. r.cell # from /\ q = board.at[r.cell] /\ q \in Piece
        BY <1>2, <1>9, <2>1, <2>3, BusyFacts
      <3>2. board'.state[q] = board.state[q] /\ q # p
        BY <1>8, <2>1, <2>3, <3>1
      <3>3. r \in resting /\ \A s \in resting' : s.piece = q => s \in resting
        BY <1>2, <1>3, <2>3, <3>2
      <3>4. \/ board.state[q] = "Moving"
            \/ /\ board.state[q] = "Resting"
               /\ \A s \in resting : s.piece = q => s.elapsed <= r.elapsed
        BY <3>1, <3>3, NoPieceIsNoPiece DEF BusyInv, AllBusy, RestsOutlived, Occupied
      <3> QED BY <3>2, <3>3, <3>4
    <2> QED BY <2>2, <2>3
  <1> QED BY <1>11, <1>12, <1>13, <1>14 DEF AllBusy

LEMMA StopBusy ==
    ASSUME BusyInv, OnlyMovingPiecesTravel, NEW t \in DOMAIN active,
           Stands, Affects(t, From(t), TRUE, {}, NoPiece)
    PROVE  AllBusy'
  <1> DEFINE from == From(t)
             p == Mover(t)
  <1>1. /\ from \in Cells /\ p \in Piece /\ board.at[from] = p /\ board.state[p] = "Moving"
    BY BusyFacts, MoversMove
  <1>2. /\ \A c \in Cells : board'.at[c] = board.at[c]
        /\ \A q \in Piece : board'.state[q] = IF q = p THEN "Resting" ELSE board.state[q]
        /\ resting' = resting \cup {Rest(p, from)}
    BY NoPieceIsNoPiece DEF Stands, Affects
  <1>3. /\ Rest(p, from).piece = p /\ Rest(p, from).elapsed = 0 /\ Rest(p, from).cell = from
        /\ \A r \in resting : r.piece # p
    BY <1>1, BusyFacts DEF Rest
  <1>4. /\ DOMAIN active' = DOMAIN active \ {t}
        /\ \A u \in DOMAIN active' : From(u)' = From(u)
    BY DEF Affects, Without, From
  <1>5. \A u \in DOMAIN active' : Mover(u)' = Mover(u) /\ Mover(u) \in Piece
    BY <1>2, <1>4, BusyFacts DEF Mover, From
  <1>6. \A c \in Cells : board.at[c] = p => c = from
    BY <1>1, BusyFacts, NoPieceIsNoPiece
  <1> HIDE DEF from, p
  <1>7. MoversTravel'
    <2> SUFFICES ASSUME NEW c \in Cells, NEW q \in Piece, q = board.at[c],
                        board'.state[q] = "Moving"
                 PROVE  \E u \in DOMAIN active' : From(u)' = c
      BY <1>2, BusyFacts DEF MoversTravel, Occupied
    <2>1. q # p /\ board.state[q] = "Moving" /\ c # from
      BY <1>1, <1>2
    <2>2. PICK u \in DOMAIN active : From(u) = c
      BY <2>1, NoPieceIsNoPiece DEF BusyInv, AllBusy, MoversTravel, Occupied
    <2>3. u # t
      BY <2>1, <2>2 DEF from
    <2> QED BY <1>4, <2>2, <2>3
  <1>8. TravellersAreBusy'
    BY <1>2, <1>4, <1>5 DEF BusyInv, AllBusy, TravellersAreBusy
  <1>9. RestersHaveRests'
    BY <1>2, <1>3, <1>6, BusyFacts DEF BusyInv, AllBusy, RestersHaveRests, Occupied
  <1>10. RestsOutlived'
    <2> SUFFICES ASSUME NEW r \in resting', NEW q \in Piece, q = board.at[r.cell]
                 PROVE  \/ board'.state[q] = "Moving"
                        \/ /\ board'.state[q] = "Resting"
                           /\ \A s \in resting' : s.piece = q => s.elapsed <= r.elapsed
      BY <1>1, <1>2, <1>3, BusyFacts DEF RestsOutlived, Occupied
    <2>1. r.cell \in Cells /\ r.elapsed \in Nat
      BY <1>1, <1>2, <1>3, BusyFacts
    <2>2. CASE q = p
      BY <1>2, <1>3, <2>1, <2>2
    <2>3. CASE q # p
      <3>1. r \in resting
        BY <1>1, <1>2, <1>3, <2>3
      <3> QED BY <1>2, <1>3, <2>3, <3>1, NoPieceIsNoPiece
              DEF BusyInv, AllBusy, RestsOutlived, Occupied
    <2> QED BY <2>2, <2>3
  <1> QED BY <1>7, <1>8, <1>9, <1>10 DEF AllBusy

LEMMA ResolveBusy ==
    ASSUME BusyInv, OnlyMovingPiecesTravel, NEW t \in Tickets, Resolve(t)
    PROVE  AllBusy'
  <1>1. JourneyInv /\ t \in DOMAIN active /\ To(t) \in Cells
    <2>1. PICK outcome : Crosses(t, outcome)
      BY DEF Resolve, ResolveCrossing, EnterFreeCell, CaptureOccupant,
             StopBeforeFriend, YieldToAirborne
    <2> QED BY <2>1, BusyFacts, CrossingFacts, JourneyFacts DEF To
  <1>2. Mover(t) \in Piece /\ Complete(t) \in BOOLEAN
    BY <1>1, JourneyFacts DEF Complete, IsComplete
  <1>3. CASE EnterFreeCell(t)
    <2> DEFINE victim == NoPiece
               gone == {}
               stops == Complete(t)
    <2>1. /\ board.at[To(t)] = NoPiece /\ victim = NoPiece /\ victim # Mover(t)
          /\ Walks(t) /\ Affects(t, To(t), stops, gone, victim) /\ stops \in BOOLEAN
      BY <1>1, <1>2, <1>3, EnterEffect, NoPieceIsNoPiece
    <2>2. \A u \in DOMAIN active : u \in gone <=> From(u) = To(t)
      BY <2>1, BusyFacts, NoPieceIsNoPiece
    <2> HIDE DEF victim, gone, stops
    <2> QED BY <1>1, <2>1, <2>2, WalkBusy
  <1>4. CASE CaptureOccupant(t)
    <2> DEFINE victim == Occupant(t)
               gone == MotionsAt(To(t))
               stops == Complete(t)
    <2>1. /\ board.at[To(t)] = victim /\ victim \in Piece /\ victim # Mover(t)
          /\ Walks(t) /\ Affects(t, To(t), stops, gone, victim) /\ stops \in BOOLEAN
      BY <1>1, <1>2, <1>4, CaptureEffect
    <2>2. \A u \in DOMAIN active : u \in gone <=> From(u) = To(t)
      BY DEF MotionsAt, From
    <2>3. \A c \in Cells \ {To(t)} : board.at[c] # NoPiece => board.at[c] # victim
      BY <1>1, <2>1, BusyFacts
    <2> HIDE DEF victim, gone, stops
    <2> QED BY <1>1, <2>1, <2>2, <2>3, WalkBusy
  <1>5. CASE StopBeforeFriend(t)
    BY <1>1, <1>5, StopEffect, StopBusy
  <1>6. CASE YieldToAirborne(t)
    <2> DEFINE victim == NoPiece
               gone == {}
               stops == TRUE
    <2>1. /\ board.at[To(t)] \in Piece /\ board.state[board.at[To(t)]] = "Airborne"
          /\ Walks(t) /\ Affects(t, To(t), stops, gone, victim)
          /\ victim = NoPiece /\ victim # Mover(t) /\ stops \in BOOLEAN
      BY <1>1, <1>2, <1>6, YieldEffect, NoPieceIsNoPiece
    <2>2. \A u \in DOMAIN active : u \in gone <=> From(u) = To(t)
      <3> SUFFICES ASSUME NEW u \in DOMAIN active, From(u) = To(t) PROVE FALSE
        OBVIOUS
      <3>1. board.state[Mover(u)] = "Moving" /\ Mover(u) = board.at[To(t)]
        BY <1>1, BusyFacts, MoversMove
      <3> QED BY <2>1, <3>1
    <2> HIDE DEF victim, gone, stops
    <2> QED BY <1>1, <2>1, <2>2, WalkBusy
  <1> QED BY <1>3, <1>4, <1>5, <1>6 DEF Resolve, ResolveCrossing

LEMMA LandBusy ==
    ASSUME BusyInv, NEW j \in Tickets, LandJump(j)
    PROVE  AllBusy'
  <1> DEFINE c == airborne[j].cell
  <1>1. c \in Cells
    BY LandEffect DEF BusyInv
  <1>2. PICK p, taken :
          /\ Lands(j, p, taken)
          /\ board.state[p] = "Airborne"
          /\ \A d \in Cells \ {c} :
                board.at[d] # NoPiece => board.at[d] # p /\ board.at[d] # taken
    BY LandEffect DEF BusyInv
  <1> DEFINE rest == Rest(p, c)
  <1>3. /\ p \in Piece /\ p # taken
        /\ \A d \in Cells : board'.at[d] = IF d = c THEN p ELSE board.at[d]
        /\ \A q \in Piece : board'.state[q] = IF q = p THEN "Resting"
                                              ELSE IF q = taken THEN "Captured"
                                              ELSE board.state[q]
        /\ resting' = resting \cup {rest} /\ active' = active
    BY <1>2 DEF Lands
  <1>4. rest.piece = p /\ rest.elapsed = 0 /\ rest.cell = c
    BY DEF Rest
  <1>5. \A r \in resting : r.piece # p
    BY <1>2, BusyFacts
  <1>6. ASSUME NEW d \in Cells, d # c, NEW q \in Piece, q = board.at[d]
        PROVE  board'.at[d] = q /\ board'.state[q] = board.state[q] /\ q # p
    BY <1>2, <1>3, <1>6, NoPieceIsNoPiece
  <1>7. \A u \in DOMAIN active : From(u)' = From(u) /\ Mover(u)' = board'.at[From(u)]
    BY <1>3 DEF From, Mover
  <1>8. board'.at[c] = p /\ board'.state[p] = "Resting"
    BY <1>1, <1>3
  <1> HIDE DEF c, rest
  <1>9. MoversTravel'
    <2> SUFFICES ASSUME NEW d \in Cells, NEW q, q = board'.at[d], q # NoPiece,
                        board'.state[q] = "Moving"
                 PROVE  \E u \in DOMAIN active : From(u) = d
      BY <1>3, <1>7 DEF MoversTravel, Occupied
    <2>1. d # c /\ q = board.at[d] /\ q \in Piece
      BY <1>3, <1>8, BusyFacts
    <2> QED BY <1>6, <2>1 DEF BusyInv, AllBusy, MoversTravel, Occupied
  <1>10. TravellersAreBusy'
    <2> SUFFICES ASSUME NEW u \in DOMAIN active
                 PROVE  board'.state[board'.at[From(u)]] # "Idle"
      BY <1>3, <1>7 DEF TravellersAreBusy
    <2>1. /\ From(u) \in Cells /\ Mover(u) \in Piece /\ board.at[From(u)] = Mover(u)
          /\ board.state[Mover(u)] # "Idle"
      BY BusyFacts DEF BusyInv, AllBusy, TravellersAreBusy
    <2> QED BY <1>6, <1>8, <2>1
  <1>11. RestersHaveRests'
    <2> SUFFICES ASSUME NEW d \in Cells, NEW q, q = board'.at[d], q # NoPiece,
                        board'.state[q] = "Resting"
                 PROVE  \E r \in resting' : r.piece = q /\ r.cell = d
      BY DEF RestersHaveRests, Occupied
    <2>1. CASE d = c
      BY <1>3, <1>4, <1>8, <2>1
    <2>2. CASE d # c
      <3>1. q = board.at[d] /\ q \in Piece
        BY <1>3, <2>2, BusyFacts
      <3>2. PICK r \in resting : r.piece = q /\ r.cell = d
        BY <1>6, <2>2, <3>1 DEF BusyInv, AllBusy, RestersHaveRests, Occupied
      <3> QED BY <1>3, <3>2
    <2> QED BY <2>1, <2>2
  <1>12. RestsOutlived'
    <2> SUFFICES ASSUME NEW r \in resting', NEW q, q = board'.at[r.cell], q # NoPiece
                 PROVE  \/ board'.state[q] = "Moving"
                        \/ /\ board'.state[q] = "Resting"
                           /\ \A s \in resting' : s.piece = q => s.elapsed <= r.elapsed
      BY DEF RestsOutlived, Occupied
    <2>1. r.cell \in Cells /\ r.elapsed \in Nat
      BY <1>1, <1>3, <1>4, BusyFacts
    <2>2. CASE r.cell = c
      <3>1. \A s \in resting' : s.piece = p => s.elapsed = 0
        BY <1>3, <1>4, <1>5
      <3> QED BY <1>8, <2>1, <2>2, <3>1
    <2>3. CASE r.cell # c
      <3>1. q = board.at[r.cell] /\ q \in Piece
        BY <1>3, <2>1, <2>3, BusyFacts
      <3>2. board'.state[q] = board.state[q] /\ q # p
        BY <1>6, <2>1, <2>3, <3>1
      <3>3. r \in resting /\ \A s \in resting' : s.piece = q => s \in resting
        BY <1>3, <1>4, <2>3, <3>2
      <3>4. \/ board.state[q] = "Moving"
            \/ /\ board.state[q] = "Resting"
               /\ \A s \in resting : s.piece = q => s.elapsed <= r.elapsed
        BY <3>1, <3>3, NoPieceIsNoPiece DEF BusyInv, AllBusy, RestsOutlived, Occupied
      <3> QED BY <3>2, <3>3, <3>4
    <2> QED BY <2>2, <2>3
  <1> QED BY <1>9, <1>10, <1>11, <1>12 DEF AllBusy

LEMMA NextBusyInv ==
    ASSUME BusyInv, [OnlyMovingPiecesTravel]_vars, [Next]_vars
    PROVE  BusyInv'
  <1>1. FlightInv'
    BY NextFlightInv DEF BusyInv
  <1>2. CASE OnlyMovingPiecesTravel /\ Next
    <2>1. CASE DeliverReport \/ EndGame
      <3>1. /\ board'.at = board.at /\ board'.state = board.state
            /\ active' = active /\ resting' = resting
        BY <2>1, BusyFacts, DeliverEffect DEF EndGame, arbiterVars
      <3>2. AllBusy'
        BY <3>1 DEF BusyInv, AllBusy, MoversTravel, TravellersAreBusy, RestersHaveRests,
                    RestsOutlived, Occupied, Mover, From
      <3> QED BY <1>1, <3>2 DEF BusyInv
    <2>2. CASE ~(DeliverReport \/ EndGame)
      BY <1>1, <1>2, <2>2, RequestMoveBusy, RequestJumpBusy, WaitBusy, ResolveBusy, LandBusy
         DEF Next, TickStep, BusyInv
    <2> QED BY <2>1, <2>2
  <1>3. CASE UNCHANGED vars
    <2>1. AllBusy'
      BY <1>3 DEF vars, arbiterVars, BusyInv, AllBusy, MoversTravel, TravellersAreBusy,
                  RestersHaveRests, RestsOutlived, Occupied, Mover, From
    <2> QED BY <1>1, <2>1 DEF BusyInv
  <1> QED BY <1>2, <1>3

LEMMA InitBusyInv == Init => BusyInv
  <1> SUFFICES ASSUME Init PROVE BusyInv
    OBVIOUS
  <1>1. DOMAIN active = {} /\ resting = {} /\ \A p \in Piece : board.state[p] = "Idle"
    BY DEF Init, StartBoard
  <1>2. \A c \in Cells : board.at[c] \in Piece \cup {NoPiece}
    BY InitJourneyInv, JourneyFacts DEF BoardValue
  <1>3. AllBusy
    BY <1>1, <1>2 DEF AllBusy, MoversTravel, TravellersAreBusy, RestersHaveRests,
                      RestsOutlived, Occupied
  <1> QED BY <1>3, InitFlightInv DEF BusyInv

LEMMA BusyInvHolds == Spec /\ UpToAGhost => []BusyInv
  <1>1. BusyInv /\ [Next]_vars /\ [OnlyMovingPiecesTravel]_vars => BusyInv'
    BY NextBusyInv
  <1> QED BY <1>1, InitBusyInv, PTL DEF Spec, UpToAGhost

=============================================================================
