--------------------------- MODULE PromiseProofs ---------------------------
(***************************************************************************)
(* GameEngine implements MatchSpec, a king that has been taken has ended   *)
(* the game by the end of the tick, and every piece that has been taken is *)
(* scored once, for boards of any size, any pieces in any starting         *)
(* position and ticks of any length.                                       *)
(*                                                                         *)
(* All are about the time between the taking of a piece, in the arbiter,   *)
(* and its report to the engine.  ReportInv says that the reports pending  *)
(* name captured pieces, each once, and that a captured king is in one of  *)
(* them unless the game is over.  It needs SyncInv: a piece that rests     *)
(* after a journey or a jump comes from the board or from a jump, so it    *)
(* is not one that has been captured.                                      *)
(***************************************************************************)
EXTENDS GameProofs, FiniteSetTheorems

VictimsAreCaptured(b, r) ==
    \A i \in DOMAIN r :
        r[i].captured # NoPiece => b.state[r[i].captured] = "Captured"

VictimsDiffer(r) ==
    \A i, j \in DOMAIN r :
        r[i].captured = r[j].captured /\ r[i].captured # NoPiece => i = j

\* Promotion makes no king and unmakes none.
KingsStayKings == \A p \in Piece : board.kind[p] = "King" <=> p \in KingPiece

FallenKingsEndTheGame ==
    \A k \in KingPiece : IsCaptured(k) => over \/ k \in Unreported

ReportInv ==
    /\ SyncInv
    /\ VictimsAreCaptured(board, reports)
    /\ VictimsDiffer(reports)
    /\ KingsStayKings
    /\ FallenKingsEndTheGame

(***************************************************************************)
(* A step in which v is captured and reported (nobody if v = NoPiece), and *)
(* nothing else changes that matters here.                                 *)
(***************************************************************************)
ReportsVictim(v) ==
    \/ v = NoPiece /\ reports' = reports
    \/ \E report \in ArrivalReport :
          reports' = Append(reports, report) /\ report.captured = v

Takes(v) ==
    /\ v \in Piece \cup {NoPiece}
    /\ v # NoPiece => ~IsCaptured(v)
    /\ \A p \in Piece : board'.state[p] = "Captured" <=> IsCaptured(p) \/ p = v
    /\ board'.kind = board.kind
    /\ ReportsVictim(v)

LEMMA AppendingOne ==
    ASSUME NEW S, NEW q \in Seq(S), NEW e \in S
    PROVE  q \o <<e>> = Append(q, e)
  OBVIOUS

LEMMA ReportFacts ==
    ASSUME SyncInv
    PROVE  /\ board \in BoardValue /\ InSync(board, airborne) /\ TypeInv
           /\ reports \in Seq(ArrivalReport)
           /\ \A c \in Cells : Occupied(board, c) =>
                /\ board.at[c] \in Piece
                /\ ~IsCaptured(board.at[c])
  <1>1. /\ board \in BoardValue /\ InSync(board, airborne) /\ TypeInv
        /\ reports \in Seq(ArrivalReport)
    BY SyncFacts DEF TypeInv, TypeOK, ArbiterTypeOK
  <1>2. ASSUME NEW c \in Cells, Occupied(board, c)
        PROVE  board.at[c] \in Piece /\ ~IsCaptured(board.at[c])
    BY <1>1, <1>2 DEF BoardValue, Occupied, OnBoard, InSync, OffBoardAgrees, IsCaptured
  <1> QED BY <1>1, <1>2

\* A piece that is not captured changes to a state other than that.
LEMMA SetPieceStateTakesNobody ==
    ASSUME NEW b \in BoardValue, NEW c \in Cells, b.at[c] \in Piece,
           b.state[b.at[c]] # "Captured", NEW s \in State, s # "Captured"
    PROVE  /\ \A p \in Piece : SetPieceState(b, c, s).state[p] = "Captured"
                               <=> b.state[p] = "Captured"
           /\ SetPieceState(b, c, s).kind = b.kind
  BY DEF SetPieceState, SetState, BoardValue

\* The capture of the piece on a cell takes that piece.
LEMMA RemovingTakes ==
    ASSUME NEW b \in BoardValue, NEW p \in Piece, NEW c \in Cells,
           NEW n, n = RemovePiece(SetState(b, p, "Captured"), c)
    PROVE  /\ n \in BoardValue
           /\ \A q \in Piece : n.state[q] = IF q = p THEN "Captured" ELSE b.state[q]
           /\ n.kind = b.kind
           /\ \A d \in Cells \ {c} : n.at[d] = b.at[d]
  <1>1. n \in BoardValue
    BY SetStateType, RemovePieceType DEF State
  <1> QED BY <1>1 DEF RemovePiece, SetState, BoardValue

-----------------------------------------------------------------------------
LEMMA QuietStepsTakeNobody ==
    ASSUME SyncInv,
           \/ \E source, destination \in Cells : RequestMove(source, destination)
           \/ \E c \in Cells : RequestJump(c)
           \/ EndGame
           \/ \E delta \in Deltas : Wait(delta)
    PROVE  Takes(NoPiece)
  <1>0. board \in BoardValue
    BY ReportFacts
  <1>1. reports' = reports
    BY DEF RequestMove, StartMotion, RequestJump, StartJump, EndGame, arbiterVars,
           Wait, StartTick
  <1>2. /\ \A p \in Piece : board'.state[p] = "Captured" <=> IsCaptured(p)
        /\ board'.kind = board.kind
    <2>1. CASE \E source, destination \in Cells : RequestMove(source, destination)
      <3>1. PICK source \in Cells, destination \in Cells :
                   RequestMove(source, destination)
        BY <2>1
      <3>2. /\ Occupied(board, source)
            /\ board' = board \/ board' = SetPieceState(board, source, "Moving")
        BY <3>1 DEF RequestMove, AcceptsMove, ValidMove, StartMotion
      <3> QED BY <3>2, ReportFacts, SetPieceStateTakesNobody DEF IsCaptured, State
    <2>2. CASE \E c \in Cells : RequestJump(c)
      <3>1. PICK c \in Cells : RequestJump(c)
        BY <2>2
      <3>2. /\ Occupied(board, c)
            /\ board' = board \/ board' = SetPieceState(board, c, "Airborne")
        BY <3>1 DEF RequestJump, AcceptsJump, StartJump
      <3> QED BY <3>2, ReportFacts, SetPieceStateTakesNobody DEF IsCaptured, State
    <2>3. CASE EndGame
      BY <2>3 DEF EndGame, arbiterVars, IsCaptured
    <2>4. CASE \E delta \in Deltas : Wait(delta)
      BY <1>0, <2>4 DEF Wait, StartTick, RestIsOver, BoardValue, IsCaptured
    <2> QED BY <2>1, <2>2, <2>3, <2>4
  <1> QED BY <1>1, <1>2, NoPieceIsNoPiece DEF Takes, ReportsVictim

\* Walking in takes nobody beyond the piece that b has lost.
LEMMA WalkInReports ==
    ASSUME SyncInv, NEW t \in Tickets, NEW outcome, Crosses(t, outcome),
           NEW b \in BoardValue, NEW gone, NEW victim \in Piece \cup {NoPiece},
           WalkIn(t, b, gone, victim),
           CurrentCell(active[t]) # NextCell(active[t]),
           b.at[CurrentCell(active[t])] \in Piece,
           b.state[b.at[CurrentCell(active[t])]] # "Captured"
    PROVE  /\ \A p \in Piece : board'.state[p] = "Captured" <=> b.state[p] = "Captured"
           /\ board'.kind = b.kind
           /\ ReportsVictim(victim)
  <1> DEFINE from == CurrentCell(active[t])
             to == NextCell(active[t])
             moved == MovePiece(b, from, to)
  <1>1. from \in Cells /\ to \in Cells /\ reports \in Seq(ArrivalReport)
    BY CrossingFacts, ReportFacts
  <1>2. moved \in BoardValue /\ moved.state = b.state /\ moved.kind = b.kind
    BY <1>1, MovePieceType DEF MovePiece, BoardValue
  <1>3. moved.at[to] = b.at[from]
    BY <1>1 DEF MovePiece, BoardValue
  <1>4. Report(to, TRUE, victim) \in ArrivalReport /\ Report(to, TRUE, victim).captured = victim
    BY <1>1 DEF Report, ArrivalReport
  <1>5. CASE IsComplete(CompleteStep(active[t]))
    <2>1. /\ board' = SetPieceState(moved, to, "Resting")
          /\ reports' = Append(reports, Report(to, TRUE, victim))
      BY <1>5 DEF WalkIn, Finish
    <2> HIDE DEF moved
    <2>2. /\ \A p \in Piece : board'.state[p] = "Captured" <=> moved.state[p] = "Captured"
          /\ board'.kind = moved.kind
      BY <1>1, <1>2, <1>3, <2>1, SetPieceStateTakesNobody DEF State
    <2> QED BY <1>2, <1>4, <2>1, <2>2 DEF ReportsVictim
  <1>6. CASE ~IsComplete(CompleteStep(active[t]))
    <2>1. board' = moved /\ reports' = reports \o ReportOnTheWay(to, victim)
      BY <1>6 DEF WalkIn
    <2>2. CASE victim = NoPiece
      <3>1. reports' = reports
        BY <1>1, <2>1, <2>2 DEF ReportOnTheWay
      <3> QED BY <1>2, <2>1, <2>2, <3>1 DEF ReportsVictim
    <2>3. CASE victim # NoPiece
      <3>1. reports' = Append(reports, Report(to, TRUE, victim))
        BY <1>1, <1>4, <2>1, <2>3, AppendingOne DEF ReportOnTheWay
      <3> QED BY <1>2, <1>4, <2>1, <3>1 DEF ReportsVictim
    <2> QED BY <2>2, <2>3
  <1> QED BY <1>5, <1>6

LEMMA ResolveTakes ==
    ASSUME SyncInv, NEW t \in Tickets, Resolve(t)
    PROVE  \E v : Takes(v)
  <1> DEFINE from == CurrentCell(active[t])
             to == NextCell(active[t])
  <1>0. /\ board \in BoardValue /\ TypeInv
        /\ \A c \in Cells : Occupied(board, c) =>
             board.at[c] \in Piece /\ ~IsCaptured(board.at[c])
    BY ReportFacts
  <1>1. CASE EnterFreeCell(t)
    <2>1. Crosses(t, "Free") /\ WalkIn(t, board, {}, NoPiece) /\ from # to
      BY <1>1, NextCellIsAnother DEF EnterFreeCell
    <2>2. board.at[from] \in Piece /\ board.state[board.at[from]] # "Captured"
      <3>1. from \in Cells /\ Mover(t) \in Piece
        BY <1>0, <2>1, CrossingFacts
      <3>2. Occupied(board, from) /\ Mover(t) = board.at[from]
        BY <3>1, NoPieceIsNoPiece DEF Mover, Occupied
      <3> QED BY <1>0, <3>1, <3>2 DEF IsCaptured
    <2> DEFINE gone == {}
               victim == NoPiece
    <2>3. WalkIn(t, board, gone, victim) /\ victim \in Piece \cup {NoPiece}
      BY <2>1
    <2> HIDE DEF gone
    <2>4. /\ \A p \in Piece : board'.state[p] = "Captured" <=> IsCaptured(p)
          /\ board'.kind = board.kind /\ ReportsVictim(NoPiece)
      BY <1>0, <2>1, <2>2, <2>3, WalkInReports DEF IsCaptured
    <2>5. Takes(NoPiece)
      BY <2>4, NoPieceIsNoPiece DEF Takes
    <2> QED BY <2>5
  <1>2. CASE CaptureOccupant(t)
    <2> DEFINE victim == Occupant(t)
               b == RemovePiece(SetState(board, victim, "Captured"), to)
               gone == MotionsAt(to)
    <2>1. /\ Crosses(t, "Capture") /\ from # to /\ WalkIn(t, b, gone, victim)
          /\ from \in Cells /\ to \in Cells
      BY <1>0, <1>2, NextCellIsAnother, CrossingFacts DEF CaptureOccupant
    <2>2. /\ victim \in Piece /\ ~IsCaptured(victim) /\ victim = board.at[to]
          /\ board.at[from] \in Piece /\ ~IsCaptured(board.at[from])
          /\ board.at[from] # victim
      <3>1. victim # NoPiece /\ Mover(t) # NoPiece /\ Mover(t) # victim
        BY <2>1 DEF Crosses, EntryOutcome
      <3> QED BY <1>0, <2>1, <3>1 DEF Mover, Occupant, Occupied
    <2>3. /\ b \in BoardValue /\ b.kind = board.kind
          /\ \A q \in Piece : b.state[q] = IF q = victim THEN "Captured"
                                           ELSE board.state[q]
          /\ b.at[from] = board.at[from]
      <3>1. from \in Cells \ {to}
        BY <2>1
      <3> HIDE DEF victim, from, to
      <3>2. b = RemovePiece(SetState(board, victim, "Captured"), to)
        OBVIOUS
      <3>3. board \in BoardValue /\ victim \in Piece /\ to \in Cells
        BY <1>0, <2>1, <2>2
      <3> HIDE DEF b
      <3>4. /\ b \in BoardValue /\ b.kind = board.kind
            /\ \A q \in Piece : b.state[q] = IF q = victim THEN "Captured"
                                             ELSE board.state[q]
        BY <3>2, <3>3, RemovingTakes
      <3>5. \A d \in Cells \ {to} : b.at[d] = board.at[d]
        BY <3>2, <3>3, RemovingTakes
      <3> QED BY <3>1, <3>4, <3>5
    <2> HIDE DEF b, gone, victim
    <2>4. /\ \A p \in Piece : board'.state[p] = "Captured" <=> b.state[p] = "Captured"
          /\ board'.kind = b.kind /\ ReportsVictim(victim)
      BY <2>1, <2>2, <2>3, WalkInReports DEF IsCaptured
    <2>5. Takes(victim)
      BY <2>2, <2>3, <2>4 DEF Takes, IsCaptured
    <2> QED BY <2>5
  <1>3. CASE StopBeforeFriend(t)
    <2>1. /\ board' = SetPieceState(board, from, "Resting")
          /\ reports' = Append(reports, Report(from, TRUE, NoPiece))
          /\ from \in Cells /\ board.at[from] \in Piece /\ ~IsCaptured(board.at[from])
      BY <1>0, <1>3, CrossingFacts DEF StopBeforeFriend, Finish, Crosses, Mover, Occupied
    <2>2. Report(from, TRUE, NoPiece) \in ArrivalReport
          /\ Report(from, TRUE, NoPiece).captured = NoPiece
      BY <2>1 DEF Report, ArrivalReport
    <2>3. Takes(NoPiece)
      BY <1>0, <2>1, <2>2, SetPieceStateTakesNobody, NoPieceIsNoPiece
         DEF Takes, ReportsVictim, IsCaptured, State
    <2> QED BY <2>3
  <1>4. CASE YieldToAirborne(t)
    <2> DEFINE moved == MovePiece(RemovePiece(board, to), from, to)
    <2>1. /\ Crosses(t, "CapturedByAirborne") /\ from \in Cells /\ to \in Cells
          /\ board' = SetPieceState(moved, to, "Resting")
          /\ reports' = Append(reports, Report(to, TRUE, NoPiece))
      BY <1>0, <1>4, CrossingFacts DEF YieldToAirborne, Finish
    <2>2. /\ from # to /\ board.at[from] \in Piece /\ ~IsCaptured(board.at[from])
      BY <1>0, <2>1 DEF Crosses, EntryOutcome, Mover, Occupant, Occupied
    <2>3. /\ moved \in BoardValue /\ moved.at[to] = board.at[from]
          /\ moved.state = board.state /\ moved.kind = board.kind
      <3>1. moved \in BoardValue
        BY <1>0, <2>1, RemovePieceType, MovePieceType
      <3> QED BY <1>0, <2>1, <2>2, <3>1 DEF MovePiece, RemovePiece, BoardValue
    <2>4. Report(to, TRUE, NoPiece) \in ArrivalReport
          /\ Report(to, TRUE, NoPiece).captured = NoPiece
      BY <2>1 DEF Report, ArrivalReport
    <2> HIDE DEF moved
    <2>5. /\ \A p \in Piece : board'.state[p] = "Captured" <=> moved.state[p] = "Captured"
          /\ board'.kind = moved.kind
      BY <2>1, <2>2, <2>3, SetPieceStateTakesNobody DEF IsCaptured, State
    <2>6. Takes(NoPiece)
      BY <2>1, <2>3, <2>4, <2>5, NoPieceIsNoPiece DEF Takes, ReportsVictim, IsCaptured
    <2> QED BY <2>6
  <1> QED BY <1>1, <1>2, <1>3, <1>4 DEF Resolve, ResolveCrossing

LEMMA LandTakes ==
    ASSUME SyncInv, NEW j \in Tickets, LandJump(j)
    PROVE  \E v : Takes(v)
  <1> DEFINE c == airborne[j].cell
             jumper == airborne[j].lifted
             victim == board.at[c]
  <1>0. /\ board \in BoardValue /\ InSync(board, airborne)
        /\ \A d \in Cells : Occupied(board, d) =>
             board.at[d] \in Piece /\ ~IsCaptured(board.at[d])
        /\ j \in DOMAIN airborne /\ c \in Cells /\ jumper \in Piece \cup {NoPiece}
        /\ victim \in Piece \cup {NoPiece}
    BY ReportFacts, SyncFacts DEF LandJump, Land, LandAtRest, LandOnArriver,
       IsNextLanding, Landings, JumpsTyped, Jump, BoardValue
  <1>1. CASE LandAtRest(j)
    <2>1. /\ board' = SetPieceState(board, c, "Resting") /\ Occupied(board, c)
          /\ reports' = reports
      BY <1>1 DEF LandAtRest
    <2>2. /\ \A p \in Piece : board'.state[p] = "Captured" <=> IsCaptured(p)
          /\ board'.kind = board.kind
      BY <1>0, <2>1, SetPieceStateTakesNobody DEF IsCaptured, State
    <2>3. Takes(NoPiece)
      BY <2>1, <2>2, NoPieceIsNoPiece DEF Takes, ReportsVictim
    <2> QED BY <2>3
  <1>2. CASE LandOnArriver(j)
    <2> DEFINE cleared == IF victim = NoPiece THEN board
                          ELSE RemovePiece(SetState(board, victim, "Captured"), c)
               placed == PlacePiece(cleared, jumper, c)
    <2>1. /\ jumper \in Piece
          /\ board' = SetPieceState(placed, c, "Resting")
          /\ reports' = Append(reports, LandingReport(c, victim))
      BY <1>0, <1>2 DEF LandOnArriver
    <2>2. board.state[jumper] = "Airborne" /\ ~OnBoard(board, jumper)
      <3>1. LiftedBy(airborne, jumper)
        BY <1>0 DEF LiftedBy
      <3> QED BY <1>0, <2>1, <3>1 DEF InSync, LiftedIsAirborne, OffBoardAgrees
    <2>3. victim # jumper /\ (victim # NoPiece => ~IsCaptured(victim))
      BY <1>0, <2>2 DEF OnBoard, Occupied
    <2>4. /\ cleared \in BoardValue /\ cleared.kind = board.kind
          /\ \A q \in Piece : cleared.state[q] = IF q = victim THEN "Captured"
                                                 ELSE board.state[q]
      <3>1. CASE victim = NoPiece
        BY <1>0, <3>1, NoPieceIsNoPiece
      <3>2. CASE victim # NoPiece
        <4> HIDE DEF c
        <4> QED BY <1>0, <3>2, RemovingTakes
      <3> QED BY <3>1, <3>2
    <2> HIDE DEF cleared
    <2>5. /\ placed \in BoardValue /\ placed.at[c] = jumper
          /\ placed.state = cleared.state /\ placed.kind = cleared.kind
      <3>1. placed \in BoardValue
        BY <1>0, <2>1, <2>4, PlacePieceType
      <3> HIDE DEF c, jumper
      <3>2. placed.at[c] = jumper
        BY <1>0, <2>4 DEF PlacePiece, BoardValue
      <3>3. placed.state = cleared.state /\ placed.kind = cleared.kind
        BY <2>4 DEF PlacePiece, BoardValue
      <3> QED BY <3>1, <3>2, <3>3
    <2> HIDE DEF placed
    <2>6. /\ \A p \in Piece : board'.state[p] = "Captured" <=> placed.state[p] = "Captured"
          /\ board'.kind = placed.kind
      BY <1>0, <2>1, <2>2, <2>3, <2>4, <2>5, SetPieceStateTakesNobody DEF State
    <2>7. LandingReport(c, victim) \in ArrivalReport
          /\ LandingReport(c, victim).captured = victim
      BY <1>0 DEF LandingReport, Report, ArrivalReport
    <2>8. ReportsVictim(victim)
      BY <2>1, <2>7 DEF ReportsVictim
    <2>9. Takes(victim)
      BY <1>0, <2>3, <2>4, <2>5, <2>6, <2>8 DEF Takes, IsCaptured
    <2> QED BY <2>9
  <1> QED BY <1>1, <1>2 DEF LandJump, Land

\* Every step of the game but the delivery of a report.
LEMMA OtherStepsTake ==
    ASSUME SyncInv, Next, ~DeliverReport
    PROVE  \E v : Takes(v)
  BY QuietStepsTakeNobody, ResolveTakes, LandTakes DEF Next, TickStep

-----------------------------------------------------------------------------
(***************************************************************************)
(* The kings a room may still hear of: a step that takes a piece and adds  *)
(* its report leaves them as they were.                                    *)
(***************************************************************************)
KingsLeft == {k \in KingPiece : IsCaptured(k) => k \in Unreported}

LEMMA TakesUnreported ==
    ASSUME SyncInv, NEW v, Takes(v)
    PROVE  /\ Unreported \subseteq Unreported'
           /\ Unreported' \subseteq Unreported \cup {v}
           /\ v # NoPiece => v \in Unreported'
  <1>1. reports \in Seq(ArrivalReport)
    BY ReportFacts
  <1>2. CASE v = NoPiece /\ reports' = reports
    BY <1>2 DEF Unreported
  <1>3. CASE \E report \in ArrivalReport :
                reports' = Append(reports, report) /\ report.captured = v
    <2>1. PICK report \in ArrivalReport :
                 reports' = Append(reports, report) /\ report.captured = v
      BY <1>3
    <2>2. /\ DOMAIN reports' = DOMAIN reports \cup {Len(reports) + 1}
          /\ reports'[Len(reports) + 1] = report
          /\ \A i \in DOMAIN reports : reports'[i] = reports[i]
      BY <1>1, <2>1
    <2> QED BY <2>1, <2>2 DEF Unreported
  <1> QED BY <1>2, <1>3 DEF Takes, ReportsVictim

LEMMA TakesKeepsKingsLeft ==
    ASSUME SyncInv, NEW v, Takes(v)
    PROVE  KingsLeft' = KingsLeft
  <1>1. \A k \in KingPiece : k \in Piece
    BY DEF KingPiece
  <1>2. \A p \in Piece : IsCaptured(p)' <=> IsCaptured(p) \/ p = v
    BY DEF Takes, IsCaptured
  <1>3. \A k \in KingPiece : (IsCaptured(k)' => k \in Unreported')
                             <=> (IsCaptured(k) => k \in Unreported)
    BY <1>1, <1>2, TakesUnreported, NoPieceIsNoPiece DEF Takes
  <1> QED BY <1>3 DEF KingsLeft, KingPiece

-----------------------------------------------------------------------------
LEMMA InitReportInv == Init => ReportInv
  <1> SUFFICES ASSUME Init PROVE ReportInv
    OBVIOUS
  <1>1. SyncInv
    BY InitTypeInv, InitInSync, InSyncIsBoardInSync DEF SyncInv
  <1>2. /\ DOMAIN reports = {} /\ board = StartBoard
        /\ \A p \in Piece : board.state[p] = "Idle"
        /\ board.kind = StartKind
    BY DEF Init, StartBoard
  <1>3. KingsStayKings
    BY <1>2 DEF KingsStayKings, KingPiece
  <1> QED BY <1>1, <1>2, <1>3
          DEF ReportInv, VictimsAreCaptured, VictimsDiffer, FallenKingsEndTheGame,
              KingPiece, IsCaptured

LEMMA TakesReportInv ==
    ASSUME ReportInv, SyncInv', NEW v, Takes(v), over => over'
    PROVE  ReportInv'
  <1>0. SyncInv /\ reports \in Seq(ArrivalReport)
    BY ReportFacts DEF ReportInv
  <1>1. \A p \in Piece : board'.state[p] = "Captured" <=> IsCaptured(p) \/ p = v
    BY DEF Takes
  <1>2. \A i \in DOMAIN reports : reports[i].captured \in Piece \cup {NoPiece}
    <2>1. \A i \in DOMAIN reports : reports[i] \in ArrivalReport
      BY <1>0
    <2> QED BY <2>1 DEF ArrivalReport
  <1>3. \A i \in DOMAIN reports' :
           \/ i \in DOMAIN reports /\ reports'[i] = reports[i]
           \/ i = Len(reports) + 1 /\ reports'[i].captured = v
    BY <1>0 DEF Takes, ReportsVictim
  <1>4. VictimsAreCaptured(board', reports')
    BY <1>1, <1>2, <1>3 DEF ReportInv, VictimsAreCaptured, Takes, IsCaptured
  <1>5. VictimsDiffer(reports')
    <2>1. \A i \in DOMAIN reports : v # NoPiece => reports[i].captured # v
      BY <1>2 DEF ReportInv, VictimsAreCaptured, Takes, IsCaptured
    <2> QED BY <1>3, <2>1 DEF ReportInv, VictimsDiffer
  <1>6. KingsStayKings'
    <2>1. board'.kind = board.kind
      BY DEF Takes
    <2> QED BY <2>1 DEF ReportInv, KingsStayKings, KingPiece
  <1>7. FallenKingsEndTheGame'
    <2> SUFFICES ASSUME NEW k \in KingPiece, board'.state[k] = "Captured"
                 PROVE  over' \/ k \in Unreported'
      BY DEF FallenKingsEndTheGame, IsCaptured, KingPiece
    <2>1. k \in Piece
      BY DEF KingPiece
    <2>2. CASE k = v
      BY <1>0, <2>1, <2>2, TakesUnreported, NoPieceIsNoPiece
    <2>3. CASE k # v
      BY <1>0, <1>1, <2>1, <2>3, TakesUnreported DEF ReportInv, FallenKingsEndTheGame
    <2> QED BY <2>2, <2>3
  <1> QED BY <1>4, <1>5, <1>6, <1>7 DEF ReportInv

\* What the delivery of a report does to the reports that are left.
LEMMA DeliverFacts ==
    ASSUME ReportInv, DeliverReport, NEW taken, taken = Head(reports).captured
    PROVE  /\ taken \in Piece \cup {NoPiece}
           /\ taken # NoPiece => IsCaptured(taken) /\ taken \notin Unreported'
           /\ \A p \in Piece : p \in Unreported' <=> p \in Unreported /\ p # taken
           /\ board'.state = board.state
           /\ over' = (over \/ taken \in KingPiece)
           /\ VictimsAreCaptured(board', reports')
           /\ VictimsDiffer(reports')
  <1>1. /\ board \in BoardValue /\ reports \in Seq(ArrivalReport) /\ reports # << >>
        /\ reports' = Tail(reports)
    BY ReportFacts DEF ReportInv, DeliverReport
  <1>2. /\ 1 \in DOMAIN reports /\ taken = reports[1].captured
        /\ taken \in Piece \cup {NoPiece}
    <2>1. 1 \in DOMAIN reports /\ Head(reports) = reports[1] /\ reports[1] \in ArrivalReport
      BY <1>1
    <2> QED BY <2>1 DEF ArrivalReport
  <1>3. /\ \A i \in DOMAIN reports' : i + 1 \in DOMAIN reports /\ i + 1 # 1
                                     /\ reports'[i] = reports[i + 1]
        /\ \A i \in DOMAIN reports \ {1} : i - 1 \in DOMAIN reports'
                                           /\ reports'[i - 1] = reports[i]
    BY <1>1
  <1>4. taken # NoPiece => IsCaptured(taken)
    BY <1>2 DEF ReportInv, VictimsAreCaptured, IsCaptured
  <1>5. taken # NoPiece => taken \notin Unreported'
    BY <1>2, <1>3 DEF ReportInv, VictimsDiffer, Unreported
  <1>6. ASSUME NEW p \in Piece
        PROVE  p \in Unreported' <=> p \in Unreported /\ p # taken
    <2>1. ASSUME p \in Unreported' PROVE p \in Unreported /\ p # taken
      BY <1>3, <1>5, <2>1, NoPieceIsNoPiece DEF Unreported
    <2>2. ASSUME p \in Unreported, p # taken PROVE p \in Unreported'
      BY <1>2, <1>3, <2>2 DEF Unreported
    <2> QED BY <2>1, <2>2
  <1>7. board'.state = board.state
    BY <1>1 DEF DeliverReport, BoardValue
  <1>8. over' = (over \/ taken \in KingPiece)
    <2>1. (taken # NoPiece /\ board.kind[taken] = "King") <=> taken \in KingPiece
      BY <1>2, NoPieceIsNoPiece DEF ReportInv, KingsStayKings, KingPiece
    <2> QED BY <2>1 DEF DeliverReport
  <1>9. VictimsAreCaptured(board', reports')
    BY <1>3, <1>7 DEF ReportInv, VictimsAreCaptured
  <1>10. VictimsDiffer(reports')
    <2> SUFFICES ASSUME NEW i \in DOMAIN reports', NEW j \in DOMAIN reports',
                        reports'[i].captured = reports'[j].captured,
                        reports'[i].captured # NoPiece
                 PROVE  i = j
      BY DEF VictimsDiffer
    <2>1. i + 1 = j + 1
      BY <1>3 DEF ReportInv, VictimsDiffer
    <2>2. DOMAIN reports' \subseteq Int
      BY <1>1
    <2> QED BY <2>1, <2>2
  <1> QED BY <1>2, <1>4, <1>5, <1>6, <1>7, <1>8, <1>9, <1>10

LEMMA DeliverReportInv ==
    ASSUME ReportInv, SyncInv', DeliverReport
    PROVE  ReportInv'
  <1> DEFINE taken == Head(reports).captured
             lander == board.at[Head(reports).destination]
  <1>1. /\ board \in BoardValue /\ Head(reports) \in ArrivalReport
        /\ lander \in Piece \cup {NoPiece}
    <2>1. board \in BoardValue /\ Head(reports) \in ArrivalReport
      BY ReportFacts DEF ReportInv, DeliverReport
    <2> QED BY <2>1 DEF ArrivalReport, BoardValue
  <1>2. \A p \in Piece : board'.kind[p] = "King" <=> board.kind[p] = "King"
    <2>1. PromotedKind(board, lander) = "King" <=> board.kind[lander] = "King"
      BY DEF PromotedKind
    <2> QED BY <1>1, <2>1 DEF DeliverReport, BoardValue
  <1>3. KingsStayKings'
    BY <1>2 DEF ReportInv, KingsStayKings, KingPiece
  <1>4. FallenKingsEndTheGame'
    BY DeliverFacts DEF ReportInv, FallenKingsEndTheGame, IsCaptured, KingPiece
  <1> QED BY <1>3, <1>4, DeliverFacts DEF ReportInv

LEMMA NextReportInv == ReportInv /\ [Next]_vars => ReportInv'
  <1> SUFFICES ASSUME ReportInv, [Next]_vars PROVE ReportInv'
    OBVIOUS
  <1>1. SyncInv'
    BY NextSyncInv DEF ReportInv
  <1>2. CASE DeliverReport
    BY <1>1, <1>2, DeliverReportInv
  <1>3. CASE Next /\ ~DeliverReport
    <2>1. over => over'
      BY <1>3 DEF Next, TickStep, RequestMove, RequestJump, EndGame, Wait, Resolve,
                  LandJump
    <2> QED BY <1>1, <1>3, <2>1, OtherStepsTake, TakesReportInv DEF ReportInv
  <1>4. CASE UNCHANGED vars
    <2>1. board' = board /\ reports' = reports /\ over' = over
      BY <1>4 DEF vars, arbiterVars
    <2>2. Takes(NoPiece)
      BY <2>1, NoPieceIsNoPiece DEF Takes, ReportsVictim, IsCaptured
    <2> QED BY <1>1, <2>1, <2>2, TakesReportInv
  <1> QED BY <1>2, <1>3, <1>4

(***************************************************************************)
(* A king that has been taken, by a mover or by a jump coming down, has    *)
(* ended the game when the tick is over: no report is lost, whatever else  *)
(* the tick reported before it.                                            *)
(***************************************************************************)
THEOREM FallenKingIsNoticed == Spec => []KingTakenEndsTheGame
  <1>1. Init => ReportInv
    BY InitReportInv
  <1>2. ReportInv /\ [Next]_vars => ReportInv'
    BY NextReportInv
  <1>3. ReportInv => KingTakenEndsTheGame
    <2> SUFFICES ASSUME ReportInv, ~Busy,
                        NEW p \in Piece, IsCaptured(p), board.kind[p] = "King"
                 PROVE  over
      BY DEF KingTakenEndsTheGame
    <2>1. p \in KingPiece /\ Unreported = {}
      BY DEF ReportInv, KingsStayKings, Busy, Unreported
    <2> QED BY <2>1 DEF ReportInv, FallenKingsEndTheGame
  <1> QED BY <1>1, <1>2, <1>3, PTL DEF Spec

-----------------------------------------------------------------------------
(***************************************************************************)
(* The score.  Between the capture of a piece and its report the score is  *)
(* behind: it is the worth of the pieces lost whose report has come.       *)
(***************************************************************************)
Settled(color, kinds) == {p \in Lost(color, kinds) : p \notin Unreported}

Count(color, kinds) == Cardinality(Settled(color, kinds))

WorthSettled(color) ==
    9 * Count(color, {"Queen"}) + 5 * Count(color, {"Rook"})
    + 3 * Count(color, {"Bishop", "Knight"}) + Count(color, {"Pawn"})

ScoresAreSettled ==
    \A color \in Color : score[color] = WorthSettled(OpponentOf(color))

ScoreInv == ReportInv /\ ScoresAreSettled

LEMMA SettledIsFinite ==
    ASSUME NEW color, NEW kinds
    PROVE  IsFiniteSet(Settled(color, kinds)) /\ Count(color, kinds) \in Nat
  <1>1. Settled(color, kinds) \subseteq Piece
    BY DEF Settled, Lost
  <1>2. IsFiniteSet(Settled(color, kinds))
    BY <1>1, PiecesAreFinite, FS_Subset
  <1> QED BY <1>2, FS_CardinalityType DEF Count

LEMMA TakesSettlesNothing ==
    ASSUME SyncInv, NEW v, Takes(v), NEW color, NEW kinds
    PROVE  Count(color, kinds)' = Count(color, kinds)
  <1>1. \A p \in Piece : (IsCaptured(p)' /\ p \notin Unreported')
                         <=> (IsCaptured(p) /\ p \notin Unreported)
    <2>1. \A p \in Piece : IsCaptured(p)' <=> IsCaptured(p) \/ p = v
      BY DEF Takes, IsCaptured
    <2>2. v # NoPiece => ~IsCaptured(v)
      BY DEF Takes
    <2> QED BY <2>1, <2>2, TakesUnreported, NoPieceIsNoPiece
  <1>2. board'.kind = board.kind
    BY DEF Takes
  <1>3. Settled(color, kinds)' = Settled(color, kinds)
    BY <1>1, <1>2 DEF Settled, Lost, IsCaptured
  <1> QED BY <1>3 DEF Count

\* The report of a capture settles that piece, with the kind it had.
LEMMA DeliverSettles ==
    ASSUME ReportInv, DeliverReport, NEW taken, taken = Head(reports).captured,
           NEW color \in Color, NEW kinds
    PROVE  Count(color, kinds)' =
             IF taken # NoPiece /\ ColorOf(taken) = color /\ board.kind[taken] \in kinds
             THEN Count(color, kinds) + 1
             ELSE Count(color, kinds)
  <1>1. /\ taken \in Piece \cup {NoPiece}
        /\ taken # NoPiece => IsCaptured(taken) /\ taken \notin Unreported'
        /\ \A p \in Piece : p \in Unreported' <=> p \in Unreported /\ p # taken
        /\ board'.state = board.state
    BY DeliverFacts
  <1>2. \A p \in Piece : IsCaptured(p) => board'.kind[p] = board.kind[p]
    <2> DEFINE lander == board.at[Head(reports).destination]
    <2>1. /\ board \in BoardValue /\ Head(reports) \in ArrivalReport
          /\ \A c \in Cells : Occupied(board, c) => ~IsCaptured(board.at[c])
      BY ReportFacts DEF ReportInv, DeliverReport
    <2>2. lander # NoPiece => ~IsCaptured(lander)
      BY <2>1 DEF ArrivalReport, Occupied
    <2> QED BY <2>1, <2>2 DEF DeliverReport, BoardValue
  <1>3. taken # NoPiece => taken \in Unreported
    <2>1. 1 \in DOMAIN reports /\ reports[1].captured = taken
      <3>1. reports \in Seq(ArrivalReport) /\ reports # << >>
        BY ReportFacts DEF ReportInv, DeliverReport
      <3> QED BY <3>1
    <2> QED BY <2>1 DEF Unreported
  <1>4. CASE taken # NoPiece /\ ColorOf(taken) = color /\ board.kind[taken] \in kinds
    <2>1. /\ Settled(color, kinds)' = Settled(color, kinds) \cup {taken}
          /\ taken \notin Settled(color, kinds)
      BY <1>1, <1>2, <1>3, <1>4, NoPieceIsNoPiece DEF Settled, Lost, IsCaptured
    <2>2. Cardinality(Settled(color, kinds) \cup {taken})
            = Cardinality(Settled(color, kinds)) + 1
      BY <2>1, SettledIsFinite, FS_AddElement
    <2> QED BY <1>4, <2>1, <2>2 DEF Count
  <1>5. CASE ~(taken # NoPiece /\ ColorOf(taken) = color /\ board.kind[taken] \in kinds)
    <2>1. Settled(color, kinds)' = Settled(color, kinds)
      BY <1>1, <1>2, <1>3, <1>5, NoPieceIsNoPiece DEF Settled, Lost, IsCaptured
    <2> QED BY <1>5, <2>1 DEF Count
  <1> QED BY <1>4, <1>5

LEMMA DeliverScore ==
    ASSUME ScoreInv, DeliverReport
    PROVE  ScoresAreSettled'
  <1> PICK taken : taken = Head(reports).captured
    OBVIOUS
  <1>0. /\ ReportInv /\ board \in BoardValue
        /\ taken \in Piece \cup {NoPiece}
        /\ score \in [Color -> Nat]
    BY ReportFacts, DeliverFacts DEF ScoreInv, ReportInv, TypeInv, TypeOK
  <1>1. CASE taken = NoPiece
    <2>1. \A color \in Color : WorthSettled(color)' = WorthSettled(color)
      BY <1>0, <1>1, DeliverSettles DEF WorthSettled
    <2>2. score' = score
      BY <1>1 DEF DeliverReport
    <2> QED BY <2>1, <2>2 DEF ScoreInv, ScoresAreSettled, OpponentOf, Color
  <1>2. CASE taken # NoPiece
    <2> PICK loser, kind : loser = ColorOf(taken) /\ kind = board.kind[taken]
      OBVIOUS
    <2>1. /\ loser \in Color /\ kind \in Kind
          /\ OpponentOf(loser) \in Color \ {loser}
          /\ \A color \in Color : OpponentOf(color) = loser <=> color = OpponentOf(loser)
          /\ \A color \in Color : OpponentOf(color) \in Color
      BY <1>0, <1>2 DEF BoardValue, ColorOf, Color, OpponentOf
    <2>2. \A color \in Color : score'[color] =
             IF color = OpponentOf(loser) THEN score[color] + CostOf(kind) ELSE score[color]
      BY <1>0, <1>2, <2>1 DEF DeliverReport
    <2>3. ASSUME NEW color \in Color, NEW kinds
          PROVE  Count(color, kinds)' =
                   IF color = loser /\ kind \in kinds THEN Count(color, kinds) + 1
                   ELSE Count(color, kinds)
      BY <1>0, <1>2, DeliverSettles
    <2>4. \A color \in Color \ {loser} : WorthSettled(color)' = WorthSettled(color)
      BY <2>3 DEF WorthSettled
    <2>5. WorthSettled(loser)' = WorthSettled(loser) + CostOf(kind)
      <3>1. /\ Count(loser, {"Queen"}) \in Nat /\ Count(loser, {"Rook"}) \in Nat
            /\ Count(loser, {"Bishop", "Knight"}) \in Nat
            /\ Count(loser, {"Pawn"}) \in Nat
        BY SettledIsFinite
      <3>2. /\ Count(loser, {"Queen"})' = IF kind = "Queen"
                  THEN Count(loser, {"Queen"}) + 1 ELSE Count(loser, {"Queen"})
            /\ Count(loser, {"Rook"})' = IF kind = "Rook"
                  THEN Count(loser, {"Rook"}) + 1 ELSE Count(loser, {"Rook"})
            /\ Count(loser, {"Bishop", "Knight"})' = IF kind \in {"Bishop", "Knight"}
                  THEN Count(loser, {"Bishop", "Knight"}) + 1
                  ELSE Count(loser, {"Bishop", "Knight"})
            /\ Count(loser, {"Pawn"})' = IF kind = "Pawn"
                  THEN Count(loser, {"Pawn"}) + 1 ELSE Count(loser, {"Pawn"})
        BY <2>1, <2>3
      <3> QED BY <2>1, <3>1, <3>2 DEF WorthSettled, CostOf, Kind
    <2> QED BY <2>1, <2>2, <2>4, <2>5 DEF ScoreInv, ScoresAreSettled
  <1> QED BY <1>1, <1>2

LEMMA NextScoreInv == ScoreInv /\ [Next]_vars => ScoreInv'
  <1> SUFFICES ASSUME ScoreInv, [Next]_vars PROVE ScoreInv'
    OBVIOUS
  <1>1. ReportInv'
    BY NextReportInv DEF ScoreInv
  <1>2. CASE DeliverReport
    BY <1>1, <1>2, DeliverScore DEF ScoreInv
  <1>3. CASE [Next]_vars /\ ~DeliverReport
    <2>1. score' = score
      BY <1>3 DEF Next, TickStep, RequestMove, RequestJump, EndGame, Wait, Resolve,
                  LandJump, vars
    <2>2. \E v : Takes(v)
      <3>1. CASE Next
        BY <1>3, <3>1, OtherStepsTake DEF ScoreInv, ReportInv
      <3>2. CASE UNCHANGED vars
        <4>1. Takes(NoPiece)
          BY <3>2, NoPieceIsNoPiece
             DEF vars, arbiterVars, Takes, ReportsVictim, IsCaptured
        <4> QED BY <4>1
      <3> QED BY <1>3, <3>1, <3>2
    <2>3. \A color \in Color : WorthSettled(color)' = WorthSettled(color)
      BY <2>2, TakesSettlesNothing DEF WorthSettled, ScoreInv, ReportInv
    <2> QED BY <1>1, <2>1, <2>3 DEF ScoreInv, ScoresAreSettled, OpponentOf, Color
  <1> QED BY <1>2, <1>3

LEMMA InitScoreInv == Init => ScoreInv
  <1> SUFFICES ASSUME Init PROVE ScoreInv
    OBVIOUS
  <1>1. ASSUME NEW color, NEW kinds PROVE Count(color, kinds) = 0
    <2>1. Settled(color, kinds) = {}
      BY DEF Init, StartBoard, Settled, Lost, IsCaptured
    <2> QED BY <2>1, FS_EmptySet DEF Count
  <1>2. \A color \in Color : score[color] = 0
    BY DEF Init
  <1> QED BY <1>1, <1>2, InitReportInv DEF ScoreInv, ScoresAreSettled, WorthSettled

LEMMA ScoresOfScoreInv == ScoreInv => ScoresMatchCaptures
  <1> SUFFICES ASSUME ScoreInv, ~Busy, NEW color \in Color
               PROVE  score[color] =
                        9 * Cardinality(Lost(OpponentOf(color), {"Queen"}))
                        + 5 * Cardinality(Lost(OpponentOf(color), {"Rook"}))
                        + 3 * Cardinality(Lost(OpponentOf(color), {"Bishop", "Knight"}))
                        + 1 * Cardinality(Lost(OpponentOf(color), {"Pawn"}))
    BY DEF ScoresMatchCaptures
  <1>1. Unreported = {}
    BY DEF Busy, Unreported
  <1>2. ASSUME NEW other, NEW kinds
        PROVE  /\ Count(other, kinds) = Cardinality(Lost(other, kinds))
               /\ Count(other, kinds) \in Nat
    <2>1. Settled(other, kinds) = Lost(other, kinds)
      BY <1>1 DEF Settled
    <2> QED BY <2>1, SettledIsFinite DEF Count
  <1> QED BY <1>2 DEF ScoreInv, ScoresAreSettled, WorthSettled

(***************************************************************************)
(* Every piece taken is scored for the other side, once, with the worth it *)
(* had when it fell, however many fall in one tick and whatever ended the  *)
(* game meanwhile.                                                         *)
(***************************************************************************)
THEOREM EveryCaptureIsScored == Spec => []ScoresMatchCaptures
  BY InitScoreInv, NextScoreInv, ScoresOfScoreInv, PTL DEF Spec

-----------------------------------------------------------------------------
(***************************************************************************)
(* The refinement: each step of the engine is a step of MatchSpec.         *)
(***************************************************************************)
UnderWay == active # << >> \/ airborne # << >> \/ reports # << >>

LEMMA MatchNowFacts ==
    /\ MatchNow = [over |-> over, kings |-> KingsLeft, travelling |-> UnderWay]
    /\ MatchNow' = [over |-> over', kings |-> KingsLeft', travelling |-> UnderWay']
  BY DEF MatchNow, KingsLeft, UnderWay, KingPiece, Unreported, IsCaptured

LEMMA CommandedMatch ==
    /\ Promise!AcceptsCommand(MatchNow) <=> ~over
    /\ Promise!Commanded(MatchNow) =
           [over |-> over, kings |-> KingsLeft, travelling |-> TRUE]
    /\ Promise!Ended(MatchNow) =
           [over |-> TRUE, kings |-> KingsLeft, travelling |-> UnderWay]
  <1> DEFINE yes    == TRUE
             moving == UnderWay
  <1>1. MatchNow = [over |-> over, kings |-> KingsLeft, travelling |-> moving]
    BY MatchNowFacts
  <1> HIDE DEF yes, moving
  <1>2. /\ [MatchNow EXCEPT !.travelling = yes] =
               [over |-> over, kings |-> KingsLeft, travelling |-> yes]
        /\ [MatchNow EXCEPT !.over = yes] =
               [over |-> yes, kings |-> KingsLeft, travelling |-> moving]
    BY <1>1
  <1>3. MatchNow.over = over
    BY <1>1
  <1> QED BY <1>2, <1>3
          DEF Promise!AcceptsCommand, Promise!Commanded, Promise!Ended, yes, moving

LEMMA InitImplements == Init => MatchNow = Promise!NewMatch
  <1> SUFFICES ASSUME Init PROVE MatchNow = Promise!NewMatch
    OBVIOUS
  <1>1. KingsLeft = KingPiece
    BY DEF Init, StartBoard, KingsLeft, KingPiece, IsCaptured
  <1>2. over = FALSE /\ UnderWay = FALSE
    BY DEF Init, UnderWay
  <1> QED BY <1>1, <1>2, MatchNowFacts DEF Promise!NewMatch

LEMMA CommandImplements ==
    ASSUME SyncInv,
           \/ \E source, destination \in Cells : RequestMove(source, destination)
           \/ \E c \in Cells : RequestJump(c)
    PROVE  Promise!Command
  <1>1. KingsLeft' = KingsLeft
    BY QuietStepsTakeNobody, TakesKeepsKingsLeft
  <1>2. over = FALSE /\ over' = FALSE
    <2>1. over \in BOOLEAN
      BY ReportFacts DEF TypeInv, TypeOK
    <2> QED BY <2>1 DEF RequestMove, RequestJump, AcceptsMove, AcceptsJump
  <1>3. UnderWay' = TRUE
    <2>1. CASE \E source, destination \in Cells : RequestMove(source, destination)
      <3>1. PICK source \in Cells, destination \in Cells :
                   RequestMove(source, destination)
        BY <2>1
      <3>2. DOMAIN active' # {}
        BY <3>1 DEF RequestMove, StartMotion, HasMotionFor, Extended
      <3> QED BY <3>2 DEF UnderWay
    <2>2. CASE \E c \in Cells : RequestJump(c)
      <3>1. PICK c \in Cells : RequestJump(c)
        BY <2>2
      <3>2. DOMAIN airborne' # {}
        BY <3>1 DEF RequestJump, AcceptsJump, Available, StartJump, Extended
      <3> QED BY <3>2 DEF UnderWay
    <2> QED BY <2>1, <2>2
  <1>4. MatchNow' = [over |-> over', kings |-> KingsLeft', travelling |-> UnderWay']
    BY MatchNowFacts
  <1>5. MatchNow' = [over |-> over, kings |-> KingsLeft, travelling |-> TRUE]
    BY <1>1, <1>2, <1>3, <1>4
  <1> QED BY <1>2, <1>5, CommandedMatch DEF Promise!Command

LEMMA EndGameImplements ==
    ASSUME SyncInv, EndGame
    PROVE  Promise!Forfeit
  <1>1. KingsLeft' = KingsLeft
    BY QuietStepsTakeNobody, TakesKeepsKingsLeft
  <1>2. over' = TRUE /\ UnderWay' = UnderWay
    BY DEF EndGame, arbiterVars, UnderWay
  <1>3. MatchNow' = [over |-> over', kings |-> KingsLeft', travelling |-> UnderWay']
    BY MatchNowFacts
  <1>4. MatchNow' = [over |-> TRUE, kings |-> KingsLeft, travelling |-> UnderWay]
    BY <1>1, <1>2, <1>3
  <1> QED BY <1>4, CommandedMatch DEF Promise!Forfeit

\* In a tick: the kings in fallen are reported, and things may come to a rest.
LEMMA TickImplements ==
    ASSUME NEW fallen \in SUBSET KingsLeft, UnderWay \/ (fallen = {} /\ ~UnderWay'),
           over' = (over \/ fallen # {}), over \in BOOLEAN,
           KingsLeft' = KingsLeft \ fallen
    PROVE  Promise!Wait
  <1> DEFINE calm == ~UnderWay'
  <1>1. UnderWay \in BOOLEAN /\ UnderWay' \in BOOLEAN
    BY DEF UnderWay
  <1>2. fallen \in Promise!MayFall(MatchNow)
    BY MatchNowFacts DEF Promise!MayFall
  <1>3. UnderWay' = (UnderWay /\ ~calm)
    BY <1>1
  <1>4. MatchNow' = Promise!AfterWait(MatchNow, fallen, calm)
    BY <1>3, MatchNowFacts DEF Promise!AfterWait
  <1>5. calm \in BOOLEAN
    BY <1>1
  <1> QED BY <1>2, <1>4, <1>5 DEF Promise!Wait

LEMMA NoEntriesNoFunction ==
    ASSUME NEW f, NEW S, f \in [DOMAIN f -> S], DOMAIN f = {}
    PROVE  f = << >>
  OBVIOUS

LEMMA NextImplements ==
    ASSUME ReportInv, [Next]_vars
    PROVE  [Promise!Next]_MatchNow
  <1>0. SyncInv /\ over \in BOOLEAN
    BY ReportFacts DEF ReportInv, TypeInv, TypeOK
  <1>1. CASE \/ \E source, destination \in Cells : RequestMove(source, destination)
             \/ \E c \in Cells : RequestJump(c)
    BY <1>0, <1>1, CommandImplements DEF Promise!Next
  <1>2. CASE EndGame
    BY <1>0, <1>2, EndGameImplements DEF Promise!Next
  <1>3. CASE \E delta \in Deltas : Wait(delta)
    <2>1. KingsLeft' = KingsLeft /\ over' = over
      BY <1>0, <1>3, QuietStepsTakeNobody, TakesKeepsKingsLeft DEF Wait
    <2>2. UnderWay' => UnderWay
      <3> SUFFICES ASSUME active = << >>, airborne = << >>, reports = << >>
                   PROVE  active' = << >> /\ airborne' = << >> /\ reports' = << >>
        BY DEF UnderWay
      <3>1. DOMAIN active' = {} /\ DOMAIN airborne' = {} /\ reports' = << >>
        BY <1>3 DEF Wait, StartTick
      <3>2. active' \in [DOMAIN active' -> Motion]
            /\ airborne' \in [DOMAIN airborne' -> Jump]
        BY NextSyncInv, <1>0 DEF SyncInv, TypeInv, TypeOK, ArbiterTypeOK
      <3> QED BY <3>1, <3>2, NoEntriesNoFunction
    <2> DEFINE fallen == {}
    <2>3. /\ fallen \in SUBSET KingsLeft /\ KingsLeft' = KingsLeft \ fallen
          /\ over' = (over \/ fallen # {})
          /\ UnderWay \/ (fallen = {} /\ ~UnderWay')
      BY <1>0, <2>1, <2>2
    <2> HIDE DEF fallen
    <2>4. Promise!Wait
      BY <1>0, <2>3, TickImplements
    <2> QED BY <2>4 DEF Promise!Next
  <1>4. CASE \E t \in Tickets : Resolve(t) \/ LandJump(t)
    <2>1. KingsLeft' = KingsLeft /\ over' = over
      BY <1>0, <1>4, ResolveTakes, LandTakes, TakesKeepsKingsLeft DEF Resolve, LandJump
    <2>2. UnderWay
      <3>1. ASSUME NEW t \in Tickets, Resolve(t) PROVE DOMAIN active # {}
        BY <1>0, <3>1, CrossingFacts, ReportFacts
           DEF Resolve, ResolveCrossing, EnterFreeCell, CaptureOccupant,
               StopBeforeFriend, YieldToAirborne
      <3>2. ASSUME NEW t \in Tickets, LandJump(t) PROVE DOMAIN airborne # {}
        BY <3>2 DEF LandJump, Land, LandAtRest, LandOnArriver, IsNextLanding, Landings
      <3> QED BY <1>4, <3>1, <3>2 DEF UnderWay
    <2> DEFINE fallen == {}
    <2>3. /\ fallen \in SUBSET KingsLeft /\ KingsLeft' = KingsLeft \ fallen
          /\ over' = (over \/ fallen # {})
      BY <1>0, <2>1
    <2> HIDE DEF fallen
    <2>4. Promise!Wait
      BY <1>0, <2>2, <2>3, TickImplements
    <2> QED BY <2>4 DEF Promise!Next
  <1>5. CASE DeliverReport
    <2> DEFINE taken == Head(reports).captured
               fallen == {taken} \cap KingPiece
    <2>1. /\ taken \in Piece \cup {NoPiece}
          /\ taken # NoPiece => IsCaptured(taken) /\ taken \notin Unreported'
          /\ \A p \in Piece : p \in Unreported' <=> p \in Unreported /\ p # taken
          /\ board'.state = board.state
          /\ over' = (over \/ taken \in KingPiece)
      BY <1>5, DeliverFacts
    <2>2. taken \in KingPiece => taken \in Unreported
      <3>1. reports \in Seq(ArrivalReport) /\ reports # << >>
        BY <1>0, <1>5, ReportFacts DEF DeliverReport
      <3>2. 1 \in DOMAIN reports /\ taken = reports[1].captured
        BY <3>1
      <3> QED BY <3>2 DEF Unreported
    <2> HIDE DEF taken
    <2>3. \A k \in KingPiece : k \in Piece /\ k # NoPiece
      BY NoPieceIsNoPiece DEF KingPiece
    <2>4. \A k \in KingPiece :
             (board'.state[k] = "Captured" => k \in Unreported')
             <=> (IsCaptured(k) => k \in Unreported) /\ k \notin fallen
      BY <2>1, <2>2, <2>3 DEF IsCaptured
    <2>5. KingsLeft' = KingsLeft \ fallen /\ fallen \in SUBSET KingsLeft
      BY <2>2, <2>4 DEF KingsLeft, KingPiece, IsCaptured
    <2>6. UnderWay /\ over' = (over \/ fallen # {})
      BY <1>5, <2>1 DEF UnderWay, DeliverReport
    <2> HIDE DEF fallen
    <2>7. Promise!Wait
      BY <1>0, <2>5, <2>6, TickImplements
    <2> QED BY <2>7 DEF Promise!Next
  <1>6. CASE UNCHANGED vars
    BY <1>6 DEF vars, arbiterVars, MatchNow, Unreported, IsCaptured, KingPiece
  <1> QED BY <1>1, <1>2, <1>3, <1>4, <1>5, <1>6 DEF Next, TickStep

(***************************************************************************)
(* The engine implements what its room takes a game to be: no command is   *)
(* accepted after the end, a king is reported at most once and only while  *)
(* something is under way, and its report ends the game for good.          *)
(***************************************************************************)
THEOREM EngineKeepsItsPromise == Spec => KeepsItsPromise
  <1>1. Init => ReportInv
    BY InitReportInv
  <1>2. ReportInv /\ [Next]_vars => ReportInv'
    BY NextReportInv
  <1>3. Init => MatchNow = Promise!NewMatch
    BY InitImplements
  <1>4. ReportInv /\ [Next]_vars => [Promise!Next]_MatchNow
    BY NextImplements
  <1> QED BY <1>1, <1>2, <1>3, <1>4, PTL DEF Spec, KeepsItsPromise, Promise!Spec

=============================================================================
